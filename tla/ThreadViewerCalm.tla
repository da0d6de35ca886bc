-------------------------- MODULE ThreadViewerCalm --------------------------
(***************************************************************************)
(* What the viewer guarantees to a user who waits until nothing is pending *)
(* before they open or reload a thread, for any threads and bounds.        *)
(*                                                                         *)
(* For such a user the tasks, the request and the message in the run loop  *)
(* form one chain of which only one link exists at a time.  The invariant  *)
(* names the links and says how buffer and log are related at each.        *)
(*                                                                         *)
(* The last part, on flags, is about users who reload at any time but      *)
(* cancel nothing as well.  Several tasks may then be queued; the          *)
(* invariant says that the load of the log comes before the messages that  *)
(* arrived, so that the buffer written back has every flag of the log.     *)
(***************************************************************************)
EXTENDS ThreadViewerProofs

NoRequest == \A t \in Threads : ~download[t].running

\* The buffer shows the log of the current thread, perhaps with more flags.
Matches ==
  LET saved == log[current].messages
  IN  /\ start = 0 /\ Len(buffer) = Len(saved)
      /\ \A i \in DOMAIN saved : saved[i].mark => buffer[i].mark
      /\ ~edited => buffer = saved

Unlocked == NoCancel => netLock = {}
LockedByTask == NoCancel => netLock \subseteq {current}

AtRest ==
  /\ works = <<>> /\ wpc = "idle" /\ runLoop = <<>> /\ NoRequest /\ Unlocked
  /\ current # NoThread /\ ~invalidate => Matches

\* What follows the clear task.
Successor == Simple(IF log[current] = NoFile THEN "download" ELSE "load", current)

ToClear ==
  /\ current \in Threads /\ runLoop = <<>> /\ NoRequest /\ Unlocked
  /\ \/ works = <<Simple("clear", current), Successor>> /\ wpc = "idle"
     \/ /\ works = <<Successor>>
        /\ wpc = "begin" /\ task = Simple("clear", current)

ToLoad ==
  /\ current \in Threads /\ runLoop = <<>> /\ NoRequest /\ Unlocked
  /\ buffer = <<>> /\ start = 0
  /\ \/ works = <<Simple("load", current)>> /\ wpc = "idle"
     \/ works = <<>> /\ wpc = "begin" /\ task = Simple("load", current)
     \/ /\ works = <<>> /\ wpc \in {"loaded", "complete"} /\ task.kind = "load"
        /\ task.thread = current /\ task.first = 1
        /\ task.messages = log[current].messages

Added ==
  /\ current \in Threads /\ runLoop = <<>> /\ NoRequest /\ LockedByTask
  /\ works = <<>> /\ wpc = "added"
  /\ task.kind \in {"load", "dat"} /\ task.thread = current
  /\ task.kind = "load" => Unlocked
  /\ Matches

Told ==
  /\ current \in Threads /\ NoRequest /\ LockedByTask
  /\ works = <<>> /\ wpc = "idle"
  /\ \E k \in {runLoop[i] : i \in DOMAIN runLoop} :
       runLoop = <<k>> /\ k.kind \in {"load", "dat"}
  /\ Matches

ToRequest ==
  /\ current \in Threads /\ runLoop = <<>> /\ NoRequest /\ Unlocked
  /\ \/ works = <<Simple("download", current)>> /\ wpc = "idle"
     \/ works = <<>> /\ wpc = "begin" /\ task = Simple("download", current)
  /\ Matches

Requested ==
  /\ current \in Threads /\ runLoop = <<>> /\ Unlocked
  /\ works = <<>> /\ wpc = "idle"
  /\ download[current] = [running |-> TRUE, behind |-> FALSE,
                          nextIndex |-> Len(buffer), local |-> log[current]]
  /\ \A t \in Threads : t # current => ~download[t].running
  /\ Matches

\* A composing task brings what the log has and the buffer lacks.
Brings(k) ==
  /\ k.kind = "dat" /\ k.thread = current /\ k.first = Len(buffer) + 1
  /\ Len(buffer) + Len(k.messages) = Len(log[current].messages)
  /\ \A i \in DOMAIN k.messages : k.messages[i].no = Len(buffer) + i

ToCompose ==
  /\ current \in Threads /\ runLoop = <<>> /\ NoRequest /\ LockedByTask
  /\ \/ /\ wpc = "idle"
        /\ \E k \in {works[i] : i \in DOMAIN works} : works = <<k>> /\ Brings(k)
     \/ works = <<>> /\ wpc \in {"begin", "complete"} /\ Brings(task)
  /\ edited /\ start = 0
  /\ \A i \in DOMAIN log[current].messages : log[current].messages[i].mark =>
       i \in DOMAIN buffer /\ buffer[i].mark

Links == AtRest \/ ToClear \/ ToLoad \/ Added \/ Told \/ ToRequest \/ Requested
         \/ ToCompose

\* What LogComplete says of every log, and BufferNumbered of the buffer.
Complete(f) ==
  /\ Len(f.messages) = f.length
  /\ \A i \in DOMAIN f.messages : f.messages[i].no = i
Numbered == \A i \in DOMAIN buffer : buffer[i].no = start + i

Core ==
  /\ \A t \in Threads : Complete(log[t])
  /\ Numbered
  /\ NoCancel => ~interrupted
  /\ Links

CalmInv == Calm => Core

-----------------------------------------------------------------------------
\* The fields of a task without messages.
LEMMA SimpleFacts ==
  \A kind, t : /\ Simple(kind, t).kind = kind /\ Simple(kind, t).thread = t
               /\ Simple(kind, t).first = 1 /\ Simple(kind, t).messages = <<>>
BY DEF Simple

\* Short sequences.
LEMMA Short ==
  \A a, b : /\ <<a>> # <<>> /\ <<a, b>> # <<>>
            /\ Head(<<a, b>>) = a /\ Tail(<<a, b>>) = <<b>>
            /\ Head(<<a>>) = a /\ Tail(<<a>>) = <<>>
            /\ Append(<<>>, a) = <<a>>
            /\ a \in {<<a>>[i] : i \in DOMAIN <<a>>}
<1>1. \A a, b : /\ <<a>> # <<>> /\ <<a, b>> # <<>>
                /\ Head(<<a, b>>) = a /\ Tail(<<a, b>>) = <<b>>
                /\ Head(<<a>>) = a /\ Tail(<<a>>) = <<>>
                /\ Append(<<>>, a) = <<a>>
  OBVIOUS
<1>2. \A a : 1 \in DOMAIN <<a>> /\ <<a>>[1] = a
  OBVIOUS
<1>3. \A a : a \in {<<a>>[i] : i \in DOMAIN <<a>>}
  BY <1>2
<1> QED BY <1>1, <1>3

\* The link of the chain, by what is pending.
LEMMA LinkAt ==
  ASSUME Links
  PROVE  /\ Quiet => AtRest
         /\ wpc = "idle" /\ works # <<>> => ToClear \/ ToLoad \/ ToRequest \/ ToCompose
         /\ wpc = "begin" /\ task.kind = "clear" => ToClear
         /\ wpc = "begin" /\ task.kind = "download" => ToRequest
         /\ wpc = "begin" /\ task.kind = "load" => ToLoad
         /\ wpc = "begin" /\ task.kind = "dat" => ToCompose
         /\ wpc = "loaded" => ToLoad
         /\ wpc = "complete" => ToLoad \/ ToCompose
         /\ wpc = "added" => Added
         /\ runLoop # <<>> => Told
         /\ \A t \in Threads : download[t].running => Requested /\ t = current
<1>1. Quiet => AtRest
  <2>1. CASE Told
    BY <2>1, Short DEF Told, Quiet
  <2>2. CASE ToClear \/ ToLoad \/ Added \/ ToRequest \/ ToCompose
    BY <2>2, Short DEF ToClear, ToLoad, Added, ToRequest, ToCompose, Quiet
  <2>3. CASE Requested
    BY <2>3 DEF Requested, Quiet
  <2> QED BY <2>1, <2>2, <2>3 DEF Links
<1>2. wpc = "idle" /\ works # <<>> => ToClear \/ ToLoad \/ ToRequest \/ ToCompose
  BY DEF Links, AtRest, Added, Told, Requested
<1>3. ASSUME wpc = "begin"
      PROVE  /\ task.kind = "clear" => ToClear
             /\ task.kind = "download" => ToRequest
             /\ task.kind = "load" => ToLoad
             /\ task.kind = "dat" => ToCompose
  <2>1. ToClear \/ ToLoad \/ ToRequest \/ ToCompose
    BY <1>3 DEF Links, AtRest, Added, Told, Requested
  <2>2. /\ ToClear => task.kind = "clear"
        /\ ToLoad => task.kind = "load"
        /\ ToRequest => task.kind = "download"
        /\ ToCompose => task.kind = "dat"
    BY <1>3, SimpleFacts DEF ToClear, ToLoad, ToRequest, ToCompose, Brings
  <2> QED BY <2>1, <2>2
<1>4. wpc = "complete" => ToLoad \/ ToCompose
  BY DEF Links, AtRest, ToClear, Added, Told, ToRequest, Requested
<1>5. wpc = "added" => Added
  BY DEF Links, AtRest, ToClear, ToLoad, Told, ToRequest, Requested, ToCompose
<1>6. runLoop # <<>> => Told
  BY DEF Links, AtRest, ToClear, ToLoad, Added, ToRequest, Requested, ToCompose
<1>7. \A t \in Threads : download[t].running => Requested /\ t = current
  BY DEF Links, AtRest, ToClear, ToLoad, Added, Told, ToRequest, Requested, ToCompose, NoRequest
<1>8. wpc = "loaded" => ToLoad
  BY DEF Links, AtRest, ToClear, Added, Told, ToRequest, Requested, ToCompose
<1> QED BY <1>1, <1>2, <1>3, <1>4, <1>5, <1>6, <1>7, <1>8

\* A step that changes neither logs nor buffer needs only a link.
LEMMA OnlyLink ==
  ASSUME Core, UNCHANGED <<log, buffer, start>>, NoCancel' => ~interrupted', Links'
  PROVE  Core'
BY DEF Core, Complete, Numbered

\* What is shown still matches when nothing about it changes.
LEMMA MatchesKept ==
  ASSUME UNCHANGED <<log, buffer, start, edited, current>>
  PROVE  /\ Matches' <=> Matches
         /\ \A k : Brings(k)' <=> Brings(k)
         /\ Successor' = Successor
BY DEF Matches, Brings, Successor

\* The worker takes the next task.
LEMMA StartTaskCalm == ASSUME Typed, Core, StartTask PROVE Core'
<1>1. /\ UNCHANGED <<log, buffer, start, edited, current, download, runLoop, netLock, left>>
      /\ wpc = "idle" /\ works # <<>> /\ task' = Head(works) /\ works' = Tail(works)
      /\ wpc' = "begin" /\ interrupted' = FALSE
  BY DEF StartTask, netVars, content
<1>2. /\ NoRequest' <=> NoRequest
      /\ Unlocked' <=> Unlocked
      /\ LockedByTask' <=> LockedByTask
  BY <1>1 DEF NoRequest, Unlocked, LockedByTask, NoCancel
<1>3. ToClear \/ ToLoad \/ ToRequest \/ ToCompose
  BY <1>1, LinkAt DEF Core
<1>4. CASE ToClear
  <2>1. works = <<Simple("clear", current), Successor>>
    BY <1>1, <1>4 DEF ToClear
  <2>2. works' = <<Successor>> /\ task' = Simple("clear", current)
    BY <1>1, <2>1, Short
  <2>3. ToClear'
    BY <1>1, <1>2, <1>4, <2>2, MatchesKept DEF ToClear
  <2> QED BY <1>1, <2>3, OnlyLink DEF Links
<1>5. CASE ToLoad
  <2>1. works' = <<>> /\ task' = Simple("load", current)
    BY <1>1, <1>5, Short DEF ToLoad
  <2>2. ToLoad'
    BY <1>1, <1>2, <1>5, <2>1 DEF ToLoad
  <2> QED BY <1>1, <2>2, OnlyLink DEF Links
<1>6. CASE ToRequest
  <2>1. works' = <<>> /\ task' = Simple("download", current)
    BY <1>1, <1>6, Short DEF ToRequest
  <2>2. ToRequest'
    BY <1>1, <1>2, <1>6, <2>1, MatchesKept DEF ToRequest
  <2> QED BY <1>1, <2>2, OnlyLink DEF Links
<1>7. CASE ToCompose
  <2>1. works' = <<>> /\ Brings(task')
    BY <1>1, <1>7, Short DEF ToCompose
  <2>2. Brings(task)'
    BY <1>1, <2>1 DEF Brings
  <2>3. ToCompose'
    BY <1>1, <1>2, <1>7, <2>1, <2>2 DEF ToCompose
  <2> QED BY <1>1, <2>3, OnlyLink DEF Links
<1> QED BY <1>3, <1>4, <1>5, <1>6, <1>7

\* The buffer is emptied: a log is loaded next, or a missing one downloaded.
LEMMA RunClearCalm == ASSUME Typed, Core, RunClear PROVE Core'
<1>1. /\ UNCHANGED <<log, current, download, runLoop, netLock, left, works, interrupted>>
      /\ wpc = "begin" /\ task.kind = "clear" /\ wpc' = "idle"
      /\ buffer' = <<>> /\ start' = 0
  BY DEF RunClear, Cleared, EndTask, netVars
<1>2. NoRequest' <=> NoRequest
  BY <1>1 DEF NoRequest
<1>3. Unlocked' <=> Unlocked
  BY <1>1 DEF Unlocked, NoCancel
<1>4. ToClear
  BY <1>1, LinkAt DEF Core
<1>5. works' = <<Successor>> /\ current \in Threads
  BY <1>1, <1>4 DEF ToClear
<1>6. ASSUME log[current] = NoFile PROVE Links'
  <2>1. works' = <<Simple("download", current)>>
    BY <1>5, <1>6 DEF Successor
  <2>2. Matches'
    <3>1. log'[current'].messages = <<>>
      BY <1>1, <1>6 DEF NoFile
    <3> QED BY <1>1, <3>1 DEF Matches
  <2> QED BY <1>1, <1>2, <1>3, <1>4, <2>1, <2>2 DEF ToClear, ToRequest, Links
<1>7. ASSUME log[current] # NoFile PROVE Links'
  <2>1. works' = <<Simple("load", current)>>
    BY <1>5, <1>7 DEF Successor
  <2> QED BY <1>1, <1>2, <1>3, <1>4, <2>1 DEF ToClear, ToLoad, Links
<1>8. Links'
  BY <1>6, <1>7
<1>9. Numbered'
  BY <1>1 DEF Numbered
<1>10. NoCancel' => ~interrupted'
  BY <1>1 DEF Core, NoCancel
<1>11. \A t \in Threads : Complete(log'[t])
  BY <1>1 DEF Core
<1> QED BY <1>8, <1>9, <1>10, <1>11 DEF Core, Complete

\* The download task makes the request.
LEMMA RunDownloadCalm == ASSUME Typed, Core, RunDownload PROVE Core'
<1>1. /\ UNCHANGED <<log, buffer, start, edited, current, runLoop, netLock, left, works, interrupted>>
      /\ wpc = "begin" /\ task.kind = "download" /\ wpc' = "idle" /\ StartDownload
  BY DEF RunDownload, EndTask, content
<1>2. ToRequest
  BY <1>1, LinkAt DEF Core
<1>3. /\ current \in Threads /\ current # NoThread /\ ~download[current].running
      /\ runLoop = <<>> /\ works = <<>>
  BY <1>1, <1>2, ViewerAssumption, Short DEF ToRequest, NoRequest
<1>4. /\ download \in [Threads -> Download]
      /\ download' = [download EXCEPT ![current] =
                       [running |-> TRUE, behind |-> FALSE,
                        nextIndex |-> Len(buffer), local |-> log[current]]]
  BY <1>1, <1>3 DEF StartDownload, Typed, TypeOK
<1>5. Requested'
  <2>1. /\ download'[current'] = [running |-> TRUE, behind |-> FALSE,
                                  nextIndex |-> Len(buffer'), local |-> log'[current']]
        /\ \A t \in Threads : t # current' => ~download'[t].running
    BY <1>1, <1>2, <1>3, <1>4 DEF ToRequest, NoRequest
  <2>2. Matches' /\ Unlocked'
    BY <1>1, <1>2, MatchesKept DEF ToRequest, Unlocked, NoCancel
  <2> QED BY <1>1, <1>3, <2>1, <2>2 DEF Requested
<1>6. NoCancel' => ~interrupted'
  BY <1>1 DEF Core, NoCancel
<1> QED BY <1>1, <1>5, <1>6, OnlyLink DEF Links

\* A load reads the log, or was cancelled and leaves the thread invalid.
LEMMA ReadFileCalm == ASSUME Typed, Core, ReadFile PROVE Core'
<1>1. /\ UNCHANGED <<log, buffer, start, edited, current, download, runLoop, netLock, left,
                     works, interrupted>>
      /\ wpc = "begin" /\ task.kind = "load"
  BY DEF ReadFile, netVars, content
<1>2. /\ NoRequest' <=> NoRequest
      /\ Unlocked' <=> Unlocked
  BY <1>1 DEF NoRequest, Unlocked, NoCancel
<1>3. NoCancel' => ~interrupted'
  BY <1>1 DEF Core, NoCancel
<1>4. ToLoad
  BY <1>1, LinkAt DEF Core
<1>5. task = Simple("load", current) /\ works = <<>>
  BY <1>1, <1>4, Short DEF ToLoad
<1>6. CASE interrupted
  <2>1. invalidate' /\ wpc' = "idle"
    BY <1>1, <1>5, <1>6, SimpleFacts DEF ReadFile, Interrupted, EndTask
  <2>2. AtRest'
    BY <1>1, <1>2, <1>4, <1>5, <2>1 DEF ToLoad, AtRest
  <2> QED BY <1>1, <1>3, <2>2, OnlyLink DEF Links
<1>7. CASE ~interrupted
  <2>1. wpc' = "loaded" /\ task' = [task EXCEPT !.messages = log[task.thread].messages]
    BY <1>7 DEF ReadFile
  <2>2. /\ task'.kind = "load" /\ task'.thread = current /\ task'.first = 1
        /\ task'.messages = log[current].messages
    BY <1>5, <2>1 DEF Simple
  <2>3. ToLoad'
    BY <1>1, <1>2, <1>4, <1>5, <2>1, <2>2 DEF ToLoad
  <2> QED BY <1>1, <1>3, <2>3, OnlyLink DEF Links
<1> QED BY <1>6, <1>7

\* The attributes of the file name the thread that is shown.
LEMMA DidLoadFileCalm == ASSUME Typed, Core, DidLoadFile PROVE Core'
<1>1. /\ UNCHANGED <<log, buffer, start, edited, download, runLoop, netLock, left,
                     works, task, interrupted>>
      /\ wpc = "loaded" /\ wpc' = "complete" /\ current' = task.thread
  BY DEF DidLoadFile, netVars, content
<1>2. ToLoad
  BY <1>1, LinkAt DEF Core
<1>3. task.thread = current
  BY <1>1, <1>2 DEF ToLoad
<1>4. NoRequest' /\ Unlocked' /\ (NoCancel' => ~interrupted')
  BY <1>1, <1>2 DEF ToLoad, NoRequest, Unlocked, Core, NoCancel
<1>5. ToLoad'
  BY <1>1, <1>2, <1>3, <1>4 DEF ToLoad
<1> QED BY <1>1, <1>4, <1>5, OnlyLink DEF Links

\* A task of arrived messages goes on to compose them.
LEMMA BeginDatCalm == ASSUME Typed, Core, BeginDat PROVE Core'
<1>1. /\ UNCHANGED <<log, buffer, start, edited, current, download, runLoop, netLock, left,
                     works, task, interrupted>>
      /\ wpc = "begin" /\ wpc' = "complete" /\ task.kind = "dat"
  BY DEF BeginDat, netVars, content
<1>2. ToCompose
  BY <1>1, LinkAt DEF Core
<1>3. NoRequest' /\ LockedByTask' /\ (NoCancel' => ~interrupted')
  BY <1>1, <1>2 DEF ToCompose, NoRequest, LockedByTask, Core, NoCancel
<1>4. Brings(task)' /\ works = <<>>
  BY <1>1, <1>2, Short DEF ToCompose, Brings
<1>5. ToCompose'
  BY <1>1, <1>2, <1>3, <1>4 DEF ToCompose
<1> QED BY <1>1, <1>3, <1>5, OnlyLink DEF Links

\* The end of a composing task: told to the main thread unless cancelled.
LEMMA FinishTaskCalm == ASSUME Typed, Core, FinishTask PROVE Core'
<1>1. /\ UNCHANGED <<log, buffer, start, edited, current, download, netLock, left,
                     works, interrupted>>
      /\ wpc = "added" /\ wpc' = "idle"
  BY DEF FinishTask, netVars, content, Interrupted, EndTask
<1>2. /\ NoRequest' <=> NoRequest
      /\ Unlocked' <=> Unlocked
      /\ LockedByTask' <=> LockedByTask
      /\ Matches' <=> Matches
  BY <1>1, MatchesKept DEF NoRequest, Unlocked, LockedByTask, NoCancel
<1>3. NoCancel' => ~interrupted'
  BY <1>1 DEF Core, NoCancel
<1>4. Added
  BY <1>1, LinkAt DEF Core
<1>5. CASE interrupted
  <2>1. runLoop' = <<>>
    BY <1>4, <1>5 DEF FinishTask, Added
  <2>2. Unlocked'
    BY <1>2, <1>5 DEF Core, Unlocked
  <2>3. AtRest'
    BY <1>1, <1>2, <1>4, <2>1, <2>2 DEF Added, AtRest
  <2> QED BY <1>1, <1>3, <2>3, OnlyLink DEF Links
<1>6. CASE ~interrupted
  <2>1. runLoop' = <<task>>
    BY <1>4, <1>6, Short DEF FinishTask, Added
  <2>2. \E k \in {runLoop'[i] : i \in DOMAIN runLoop'} :
          runLoop' = <<k>> /\ k.kind \in {"load", "dat"}
    BY <1>4, <2>1, Short DEF Added
  <2>3. Told'
    BY <1>1, <1>2, <1>4, <2>2 DEF Added, Told
  <2> QED BY <1>1, <1>3, <2>3, OnlyLink DEF Links
<1> QED BY <1>5, <1>6

\* The messages of a task are added, and the buffer then matches the log.
LEMMA AddMessagesCalm == ASSUME Typed, Core, AddMessages PROVE Core'
<1>1. /\ UNCHANGED <<log, edited, current, download, runLoop, netLock, left, works, interrupted>>
      /\ wpc = "complete"
  BY DEF AddMessages, netVars
<1>2. /\ NoRequest' <=> NoRequest
      /\ Unlocked' <=> Unlocked
      /\ LockedByTask' <=> LockedByTask
  BY <1>1 DEF NoRequest, Unlocked, LockedByTask, NoCancel
<1>3. NoCancel' => ~interrupted'
  BY <1>1 DEF Core, NoCancel
<1>4. \A t \in Threads : Complete(log'[t])
  BY <1>1 DEF Core
<1>5. /\ buffer \in Seq(Message) /\ task.messages \in Seq(Message) /\ Len(buffer) \in Nat
      /\ \A t \in Threads : log[t].messages \in Seq(Message)
  BY DEF Typed, TypeOK, Task, File
<1>6. CASE ToLoad
  <2>1. /\ buffer = <<>> /\ task.kind = "load" /\ task.thread = current /\ task.first = 1
        /\ task.messages = log[current].messages /\ works = <<>> /\ current \in Threads
    BY <1>1, <1>6 DEF ToLoad
  <2>2. /\ buffer' = <<>> \o log[current].messages /\ start' = 0
        /\ wpc' = "added" /\ task' = task
    BY <2>1 DEF AddMessages, CanAppend
  <2>3. buffer' = log[current].messages
    BY <1>5, <2>1, <2>2
  <2>4. Matches'
    BY <1>1, <2>2, <2>3 DEF Matches
  <2>5. Numbered'
    <3>1. \A i \in DOMAIN buffer' : buffer'[i].no = i /\ i \in Nat
      BY <1>5, <2>1, <2>3 DEF Core, Complete
    <3> QED BY <2>2, <3>1 DEF Numbered
  <2>6. Added'
    BY <1>1, <1>2, <1>6, <2>1, <2>2, <2>4 DEF ToLoad, Added, Unlocked, LockedByTask
  <2> QED BY <1>3, <1>4, <2>5, <2>6 DEF Core, Complete, Links
<1>7. CASE ToCompose
  <2> DEFINE m == task.messages
  <2>1. Brings(task) /\ works = <<>> /\ edited /\ start = 0 /\ current \in Threads
    BY <1>1, <1>7, Short DEF ToCompose
  <2>2. /\ buffer' = buffer \o m /\ start' = 0 /\ wpc' = "added" /\ task' = task
    BY <1>5, <2>1 DEF AddMessages, CanAppend, Brings
  <2>3. /\ Len(buffer') = Len(buffer) + Len(m)
        /\ \A i \in DOMAIN buffer : i \in DOMAIN buffer' /\ buffer'[i] = buffer[i]
        /\ \A i \in DOMAIN buffer' : \/ i \in DOMAIN buffer /\ buffer'[i] = buffer[i]
                                     \/ i - Len(buffer) \in DOMAIN m /\ buffer'[i] = m[i - Len(buffer)]
        /\ \A i \in DOMAIN buffer' : i \in Nat
    BY <1>5, <2>2, ConcatElements
  <2>4. Matches'
    <3>1. Len(buffer') = Len(log[current].messages)
      BY <2>1, <2>3 DEF Brings
    <3>2. \A i \in DOMAIN log[current].messages : log[current].messages[i].mark => buffer'[i].mark
      BY <1>7, <2>3 DEF ToCompose
    <3> QED BY <1>1, <2>1, <2>2, <3>1, <3>2 DEF Matches
  <2>5. Numbered'
    <3>1. ASSUME NEW i \in DOMAIN buffer' PROVE buffer'[i].no = i
      <4>1. CASE i \in DOMAIN buffer /\ buffer'[i] = buffer[i]
        BY <2>1, <2>3, <4>1 DEF Core, Numbered
      <4>2. CASE i - Len(buffer) \in DOMAIN m /\ buffer'[i] = m[i - Len(buffer)]
        <5>1. m[i - Len(buffer)].no = Len(buffer) + (i - Len(buffer))
          BY <2>1, <4>2 DEF Brings
        <5> QED BY <1>5, <2>3, <4>2, <5>1
      <4> QED BY <2>3, <4>1, <4>2
    <3> QED BY <2>2, <2>3, <3>1 DEF Numbered
  <2>6. Added'
    BY <1>1, <1>2, <1>7, <2>1, <2>2, <2>4 DEF ToCompose, Added, Brings
  <2> QED BY <1>3, <1>4, <2>5, <2>6 DEF Core, Complete, Links
<1> QED BY <1>1, <1>6, <1>7, LinkAt DEF Core

\* The main thread serves the finish: a load is followed by a download.
LEMMA DidFinishCalm == ASSUME Typed, Core, DidFinish PROVE Core'
<1>1. /\ UNCHANGED <<log, buffer, start, edited, current, wpc, left, interrupted>>
      /\ runLoop # <<>> /\ runLoop' = Tail(runLoop)
      /\ netLock' = netLock \ {current}
      /\ works' = IF Head(runLoop).kind = "load"
                  THEN Append(works, Simple("download", current)) ELSE works
  BY DEF DidFinish, LockReleased, content
<1>2. Told
  BY <1>1, LinkAt DEF Core
<1>3. Matches' /\ NoRequest' /\ Unlocked'
  <2>1. \A t \in Threads : download'[t].running = download[t].running
    BY DEF DidFinish, Typed, TypeOK, Download
  <2>2. NoRequest'
    BY <1>2, <2>1 DEF Told, NoRequest
  <2>3. Unlocked'
    BY <1>1, <1>2 DEF Told, Unlocked, LockedByTask, NoCancel
  <2> QED BY <1>1, <1>2, <2>2, <2>3, MatchesKept DEF Told
<1>4. NoCancel' => ~interrupted'
  BY <1>1 DEF Core, NoCancel
<1>5. runLoop' = <<>> /\ works = <<>> /\ wpc' = "idle" /\ current' \in Threads
  BY <1>1, <1>2, Short DEF Told
<1>6. CASE works' = works
  <2>1. AtRest'
    BY <1>1, <1>3, <1>5, <1>6 DEF AtRest
  <2> QED BY <1>1, <1>4, <2>1, OnlyLink DEF Links
<1>7. CASE works' = Append(works, Simple("download", current))
  <2>1. works' = <<Simple("download", current')>>
    BY <1>1, <1>5, <1>7, Short
  <2>2. ToRequest'
    BY <1>1, <1>3, <1>5, <2>1 DEF ToRequest
  <2> QED BY <1>1, <1>4, <2>2, OnlyLink DEF Links
<1> QED BY <1>1, <1>6, <1>7

\* The request has ended, and no other was made.
LEMMA RequestEnds ==
  ASSUME Typed, Core, NEW t \in Threads, download[t].running,
         download' = [download EXCEPT ![t] = Idle]
  PROVE  NoRequest' /\ Requested /\ t = current
<1>1. Requested /\ t = current
  BY LinkAt DEF Core
<1>2. \A u \in Threads : download'[u] = IF u = t THEN Idle ELSE download[u]
  BY DEF Typed, TypeOK
<1>3. ~Idle.running
  BY DEF Idle
<1> QED BY <1>1, <1>2, <1>3 DEF Requested, NoRequest

\* A request fails, or its answer is dropped.
LEMMA NothingCame ==
  ASSUME Typed, Core, NEW t \in Threads, download[t].running,
         download' = [download EXCEPT ![t] = Idle],
         UNCHANGED <<log, buffer, start, edited, current, runLoop, netLock, left, works, wpc,
                     interrupted>>
  PROVE  Core'
<1>1. NoRequest' /\ Requested
  BY RequestEnds
<1>2. Matches' /\ Unlocked'
  BY <1>1, MatchesKept DEF Requested, Unlocked, NoCancel
<1>3. AtRest'
  BY <1>1, <1>2 DEF Requested, AtRest
<1>4. NoCancel' => ~interrupted'
  BY DEF Core, NoCancel
<1> QED BY <1>3, <1>4, OnlyLink DEF Links

\* What a download appends to the log continues it.
LEMMA ExtendedFacts ==
  ASSUME TypeOK, NEW t \in Threads, Fetched(t) # <<>>,
         download[t].local = log[t], Complete(log[t])
  PROVE  /\ Complete(Extended(t))
         /\ Len(Extended(t).messages) = Len(log[t].messages) + Len(Fetched(t))
         /\ \A i \in DOMAIN Fetched(t) : Fetched(t)[i].no = Len(log[t].messages) + i
         /\ \A i \in DOMAIN Extended(t).messages : Extended(t).messages[i].mark =>
              i \in DOMAIN log[t].messages /\ log[t].messages[i].mark
         /\ \A i \in DOMAIN log[t].messages :
              i \in DOMAIN Extended(t).messages
              /\ Extended(t).messages[i] = log[t].messages[i]
<1> DEFINE old == log[t].messages
           new == Fetched(t)
           all == old \o new
           n   == IF log[t].length <= server[t] THEN server[t] - log[t].length ELSE 0
<1>1. /\ old \in Seq(Message) /\ server[t] \in Nat /\ log[t].length \in Nat
  BY DEF TypeOK, File
<1>2. /\ new \in Seq(Message) /\ Len(new) = n /\ n \in Nat
      /\ \A k \in 1..n : new[k] = [thread |-> t, no |-> log[t].length + k, mark |-> FALSE]
  BY FetchedFacts
<1>3. Len(old) = log[t].length /\ \A i \in DOMAIN old : old[i].no = i
  BY DEF Complete
<1>4. n # 0 /\ server[t] = Len(old) + n
  BY <1>1, <1>2, <1>3
<1>5. Extended(t).messages = all /\ Extended(t).length = server[t]
  BY DEF Extended
<1> HIDE DEF old, new, n
<1>6. \A i \in DOMAIN new : new[i].no = Len(old) + i /\ ~new[i].mark
  <2>1. DOMAIN new = 1..n
    BY <1>2
  <2>2. \A i \in 1..n : new[i].no = log[t].length + i /\ new[i].mark = FALSE
    BY <1>2
  <2> QED BY <1>3, <2>1, <2>2
<1>7. /\ Len(all) = Len(old) + n
      /\ \A i \in DOMAIN old : i \in DOMAIN all /\ all[i] = old[i]
      /\ \A i \in DOMAIN all : \/ i \in DOMAIN old /\ all[i] = old[i]
                               \/ i - Len(old) \in DOMAIN new /\ all[i] = new[i - Len(old)]
      /\ \A i \in DOMAIN all : i \in Nat
      /\ Len(old) \in Nat
  <2>1. \A i \in DOMAIN all : i \in Nat
    BY <1>1, <1>2
  <2>2. /\ Len(all) = Len(old) + Len(new)
        /\ \A i \in DOMAIN old : i \in DOMAIN all /\ all[i] = old[i]
        /\ \A i \in DOMAIN all : \/ i \in DOMAIN old /\ all[i] = old[i]
                                 \/ i - Len(old) \in DOMAIN new /\ all[i] = new[i - Len(old)]
        /\ Len(old) \in Nat
    BY <1>1, <1>2, ConcatElements, ZenonT(90)
  <2> HIDE DEF all
  <2> QED BY <1>2, <2>1, <2>2
<1> HIDE DEF all
<1>8. \A i \in DOMAIN all : all[i].no = i
  <2> SUFFICES ASSUME NEW i \in DOMAIN all PROVE all[i].no = i
    OBVIOUS
  <2>1. CASE i \in DOMAIN old /\ all[i] = old[i]
    BY <1>3, <2>1
  <2>2. CASE i - Len(old) \in DOMAIN new /\ all[i] = new[i - Len(old)]
    <3>1. all[i].no = Len(old) + (i - Len(old))
      BY <1>6, <2>2
    <3> QED BY <1>7, <3>1
  <2> QED BY <1>7, <2>1, <2>2
<1>9. \A i \in DOMAIN all : all[i].mark => i \in DOMAIN old /\ old[i].mark
  BY <1>6, <1>7
<1>10. Complete(Extended(t))
  BY <1>4, <1>5, <1>7, <1>8 DEF Complete
<1> QED BY <1>2, <1>5, <1>6, <1>7, <1>9, <1>10 DEF old, new

\* New messages extend the log and are queued for the viewer.
LEMMA ReceiveCalm == ASSUME Typed, Core, NEW t \in Threads, Receive(t) PROVE Core'
<1>1. /\ UNCHANGED <<server, current, buffer, start, wpc, interrupted, runLoop, left>>
      /\ download[t].running /\ download' = [download EXCEPT ![t] = Idle]
      /\ Fetched(t) # <<>>
  BY DEF Receive, Answerable
<1>2. NoRequest' /\ Requested /\ t = current
  BY <1>1, RequestEnds
<1>3. CASE Held(t)
  BY <1>1, <1>3, NothingCame DEF Receive
<1>4. CASE ~Held(t)
  <2>0. PICK k : k = [kind |-> "dat", thread |-> t, first |-> Len(buffer) + 1,
                      messages |-> Fetched(t)]
    OBVIOUS
  <2>1. /\ download[t].local = log[t] /\ download[t].nextIndex = Len(buffer)
        /\ Matches /\ works = <<>> /\ wpc = "idle" /\ runLoop = <<>> /\ Unlocked
    BY <1>2 DEF Requested
  <2>2. /\ log' = [log EXCEPT ![t] = Extended(t)] /\ netLock' = netLock \cup {t}
        /\ works' = Append(works, k) /\ edited' = TRUE
    BY <1>2, <1>4, <2>0, <2>1 DEF Receive, Compose
  <2>3. \A u \in Threads : log'[u] = IF u = t THEN Extended(t) ELSE log[u]
    BY <2>2 DEF Typed, TypeOK
  <2>4. /\ Complete(Extended(t))
        /\ Len(Extended(t).messages) = Len(log[t].messages) + Len(Fetched(t))
        /\ \A i \in DOMAIN Fetched(t) : Fetched(t)[i].no = Len(log[t].messages) + i
        /\ \A i \in DOMAIN Extended(t).messages : Extended(t).messages[i].mark =>
              i \in DOMAIN log[t].messages /\ log[t].messages[i].mark
    BY <1>1, <2>1, ExtendedFacts DEF Typed, Core
  <2>5. \A u \in Threads : Complete(log'[u])
    BY <2>3, <2>4 DEF Core
  <2>6. /\ start = 0 /\ Len(buffer) = Len(log[t].messages)
        /\ \A i \in DOMAIN log[t].messages : log[t].messages[i].mark => buffer[i].mark
        /\ DOMAIN buffer = 1..Len(buffer) /\ DOMAIN log[t].messages = 1..Len(log[t].messages)
    BY <1>2, <2>1 DEF Matches, Typed, TypeOK, File
  <2>7. Brings(k)'
    <3>1. /\ k.kind = "dat" /\ k.thread = t /\ k.first = Len(buffer) + 1
          /\ k.messages = Fetched(t)
      BY <2>0
    <3> QED BY <1>1, <1>2, <2>3, <2>4, <2>6, <3>1 DEF Brings
  <2>8. \A i \in DOMAIN log'[t].messages : log'[t].messages[i].mark =>
          i \in DOMAIN buffer /\ buffer[i].mark
    BY <2>3, <2>4, <2>6
  <2>9. works' = <<k>>
    BY <2>1, <2>2, Short
  <2>10. \E l \in {works'[i] : i \in DOMAIN works'} : works' = <<l>> /\ Brings(l)'
    BY <2>7, <2>9, Short
  <2>11. LockedByTask'
    BY <1>1, <1>2, <2>1, <2>2 DEF Unlocked, LockedByTask, NoCancel
  <2>12. ToCompose'
    BY <1>1, <1>2, <2>1, <2>2, <2>6, <2>8, <2>10, <2>11 DEF ToCompose
  <2>13. Numbered' /\ (NoCancel' => ~interrupted')
    BY <1>1 DEF Core, Numbered, NoCancel
  <2> QED BY <2>5, <2>12, <2>13 DEF Core, Complete, Links
<1> QED BY <1>3, <1>4

-----------------------------------------------------------------------------
(* The user's steps *)

\* A flag changes no number and no length.
LEMMA MarkCalm == ASSUME Typed, Core, NEW i \in 1..MaxServer, Mark(i) PROVE Core'
<1>1. /\ UNCHANGED <<log, current, download, netLock, start, invalidate, works, task, wpc,
                     interrupted, runLoop>>
      /\ edited' = TRUE /\ i \in DOMAIN buffer
      /\ buffer' = [buffer EXCEPT ![i] = [buffer[i] EXCEPT !.mark = TRUE]]
  BY DEF Mark, EditNoted, netVars, workerVars
<1>2. NoCancel' <=> NoCancel
  BY DEF Mark, NoCancel, Typed, TypeOK
<1>3. /\ Len(buffer') = Len(buffer) /\ DOMAIN buffer' = DOMAIN buffer
      /\ \A l \in DOMAIN buffer : /\ buffer'[l].no = buffer[l].no
                                  /\ buffer[l].mark => buffer'[l].mark
  <2>1. \A m \in Message : /\ [m EXCEPT !.mark = TRUE].no = m.no
                           /\ [m EXCEPT !.mark = TRUE].mark = TRUE
    BY DEF Message
  <2>2. buffer \in Seq(Message)
    BY DEF Typed, TypeOK
  <2> QED BY <1>1, <2>1, <2>2
<1>4. DOMAIN buffer = 1..Len(buffer)
      /\ \A t \in Threads : DOMAIN log[t].messages = 1..Len(log[t].messages)
  BY DEF Typed, TypeOK, File
<1>5. /\ NoRequest' <=> NoRequest
      /\ Unlocked' <=> Unlocked
      /\ LockedByTask' <=> LockedByTask
      /\ Successor' = Successor
  BY <1>1, <1>2 DEF NoRequest, Unlocked, LockedByTask, Successor
<1>6. \A k : Brings(k)' <=> Brings(k)
  BY <1>1, <1>3 DEF Brings
<1>7. current \in Threads /\ Matches => Matches'
  BY <1>1, <1>3, <1>4 DEF Matches
<1>8. Links'
  <2>1. CASE AtRest
    BY <1>1, <1>5, <1>7, <2>1 DEF AtRest, Links, Typed, TypeOK
  <2>2. CASE ToClear
    BY <1>1, <1>5, <2>2 DEF ToClear, Links
  <2>3. CASE ToLoad
    BY <1>1, <2>3 DEF ToLoad
  <2>4. CASE Added
    BY <1>1, <1>5, <1>7, <2>4 DEF Added, Links
  <2>5. CASE Told
    BY <1>1, <1>5, <1>7, <2>5 DEF Told, Links
  <2>6. CASE ToRequest
    BY <1>1, <1>5, <1>7, <2>6 DEF ToRequest, Links
  <2>7. CASE Requested
    BY <1>1, <1>3, <1>5, <1>7, <2>7 DEF Requested, Links
  <2>8. CASE ToCompose
    <3>1. \A l \in DOMAIN log'[current'].messages : log'[current'].messages[l].mark =>
            l \in DOMAIN buffer' /\ buffer'[l].mark
      BY <1>1, <1>3, <2>8 DEF ToCompose
    <3>2. Brings(task)' <=> Brings(task)
      BY <1>1, <1>3 DEF Brings
    <3> QED BY <1>1, <1>5, <1>6, <2>8, <3>1, <3>2 DEF ToCompose, Links
  <2> QED BY <2>1, <2>2, <2>3, <2>4, <2>5, <2>6, <2>7, <2>8 DEF Core, Links
<1>9. Numbered'
  BY <1>1, <1>3 DEF Core, Numbered
<1> QED BY <1>1, <1>2, <1>8, <1>9 DEF Core, Complete

\* Loading a thread at rest is the first link of a chain.
LEMMA LoadCalm ==
  ASSUME Typed, Core, AtRest, NEW t \in Threads, LoadFromContents(t), current' = t,
         log'[t] = log[t], \A u \in Threads : Complete(log'[u]),
         UNCHANGED <<download, netLock, buffer, start, wpc, runLoop>>,
         left'.cancels = left.cancels
  PROVE  Core'
<1>1. works' = <<Simple("clear", current'), Successor'>> /\ interrupted' = FALSE
  BY DEF LoadFromContents, Successor, AtRest
<1>2. NoRequest' /\ Unlocked'
  BY DEF AtRest, NoRequest, Unlocked, NoCancel
<1>3. ToClear'
  BY <1>1, <1>2 DEF AtRest, ToClear
<1>4. Numbered'
  BY DEF Core, Numbered
<1> QED BY <1>1, <1>3, <1>4 DEF Core, Complete, Links

\* What synchronize writes at rest is as complete as what it replaces.
LEMMA SynchronizedCalm ==
  ASSUME Typed, Core, AtRest
  PROVE  \A u \in Threads :
           /\ Complete(Synchronized[u])
           /\ u # current => Synchronized[u] = log[u]
           /\ \A i \in DOMAIN log[u].messages : log[u].messages[i].mark =>
                i \in DOMAIN Synchronized[u].messages /\ Synchronized[u].messages[i].mark
<1>1. CASE Synchronized = log
  BY <1>1 DEF Core
<1>2. CASE /\ current \in Threads /\ Matches
           /\ Synchronized = [log EXCEPT ![current].messages = buffer]
  <2>1. /\ \A u \in Threads : u # current => Synchronized[u] = log[u]
        /\ Synchronized[current].messages = buffer
        /\ Synchronized[current].length = log[current].length
    BY <1>2 DEF Typed, TypeOK, File
  <2>2. /\ buffer \in Seq(Message) /\ log[current].messages \in Seq(Message)
    BY <1>2 DEF Typed, TypeOK, File
  <2>3. Len(buffer) = log[current].length /\ \A i \in DOMAIN buffer : buffer[i].no = i
    BY <1>2, <2>2 DEF Matches, Core, Complete, Numbered
  <2>4. \A i \in DOMAIN log[current].messages : log[current].messages[i].mark =>
          i \in DOMAIN buffer /\ buffer[i].mark
    BY <1>2, <2>2 DEF Matches
  <2> QED BY <2>1, <2>3, <2>4 DEF Complete, Core
<1> QED BY <1>1, <1>2 DEF Synchronized, AtRest, Typed, TypeOK

\* A thread opened at rest.
LEMMA OpenCalm == ASSUME Typed, Core, NEW t \in Threads, OpenThread(t), Calm' PROVE Core'
<1>1. Quiet /\ left'.cancels = left.cancels
  BY DEF OpenThread, Calm, Typed, TypeOK
<1>2. AtRest
  BY <1>1, LinkAt DEF Core
<1>3. log' = Synchronized /\ t # current
  BY DEF OpenThread
<1>4. log'[t] = log[t] /\ \A u \in Threads : Complete(log'[u])
  BY <1>2, <1>3, SynchronizedCalm
<1> QED BY <1>1, <1>2, <1>4, LoadCalm DEF OpenThread, netVars

\* A thread reloaded at rest.
LEMMA ReloadCalm == ASSUME Typed, Core, Reload, Calm' PROVE Core'
<1>1. Quiet /\ left'.cancels = left.cancels
  BY DEF Reload, Calm, Typed, TypeOK
<1>2. AtRest
  BY <1>1, LinkAt DEF Core
<1>3. /\ UNCHANGED <<netLock, log, current, buffer, start, edited, invalidate, wpc, runLoop>>
      /\ current \in Threads /\ current # NoThread
  BY DEF Reload, content, Typed, TypeOK
<1>4. CASE LoadFromContents(current) /\ UNCHANGED download
  BY <1>1, <1>2, <1>3, <1>4, LoadCalm DEF Core
<1>5. CASE ~invalidate /\ StartDownload /\ UNCHANGED <<works, interrupted>>
  <2>1. runLoop = <<>> /\ NoRequest /\ Matches /\ works = <<>> /\ wpc = "idle" /\ Unlocked
    BY <1>2, <1>3, <1>5 DEF AtRest
  <2>2. /\ download \in [Threads -> Download]
        /\ download' = [download EXCEPT ![current] =
                         [running |-> TRUE, behind |-> FALSE,
                          nextIndex |-> Len(buffer), local |-> log[current]]]
    BY <1>3, <1>5, <2>1 DEF StartDownload, NoRequest, Typed, TypeOK
  <2>3. /\ download'[current'] = [running |-> TRUE, behind |-> FALSE,
                                  nextIndex |-> Len(buffer'), local |-> log'[current']]
        /\ \A t \in Threads : t # current' => ~download'[t].running
    BY <1>3, <2>1, <2>2 DEF NoRequest
  <2>4. Matches' /\ Unlocked'
    BY <1>1, <1>3, <2>1, MatchesKept DEF Unlocked, NoCancel
  <2>5. Requested'
    BY <1>3, <1>5, <2>1, <2>3, <2>4 DEF Requested
  <2>6. NoCancel' => ~interrupted'
    BY <1>1, <1>5 DEF Core, NoCancel
  <2> QED BY <1>3, <2>5, <2>6, OnlyLink DEF Links
<1> QED BY <1>4, <1>5 DEF Reload

\* A cancelled task is noticed when it ends.
LEMMA CancelCalm == ASSUME Typed, Core, Cancel PROVE Core'
<1>1. ~NoCancel'
  BY ViewerAssumption DEF Cancel, NoCancel, Typed, TypeOK
<1>2. UNCHANGED <<log, buffer, start, edited, current, download, invalidate, works, task, wpc,
                  runLoop>>
  BY DEF Cancel, netVars, content
<1>3. /\ NoRequest' <=> NoRequest
      /\ Matches' <=> Matches
      /\ Successor' = Successor
      /\ \A k : Brings(k)' <=> Brings(k)
      /\ Brings(task)' <=> Brings(task)
  BY <1>2, MatchesKept DEF NoRequest, Brings
<1>4. Unlocked' /\ LockedByTask'
  BY <1>1 DEF Unlocked, LockedByTask
<1>5. Links'
  <2>1. AtRest \/ ToClear \/ ToLoad \/ Added => Links'
    BY <1>2, <1>3, <1>4 DEF AtRest, ToClear, ToLoad, Added, Links
  <2>2. Told \/ ToRequest \/ Requested => Links'
    BY <1>2, <1>3, <1>4 DEF Told, ToRequest, Requested, Links
  <2>3. ToCompose => Links'
    BY <1>2, <1>3, <1>4 DEF ToCompose, Links
  <2> QED BY <2>1, <2>2, <2>3 DEF Core, Links
<1> QED BY <1>1, <1>2, <1>5, OnlyLink

\* A post, or a step that changes nothing.
LEMMA PostCalm ==
  ASSUME Typed, Core,
         UNCHANGED <<log, buffer, start, edited, current, download, invalidate, works, task, wpc,
                     runLoop, netLock, left, interrupted>>
  PROVE  Core'
<1>1. /\ NoRequest' <=> NoRequest
      /\ Matches' <=> Matches
      /\ Successor' = Successor
      /\ \A k : Brings(k)' <=> Brings(k)
      /\ Brings(task)' <=> Brings(task)
      /\ Unlocked' <=> Unlocked
      /\ LockedByTask' <=> LockedByTask
  BY MatchesKept DEF NoRequest, Brings, Unlocked, LockedByTask, NoCancel
<1>2. Links'
  <2>1. AtRest \/ ToClear \/ ToLoad \/ Added => Links'
    BY <1>1 DEF AtRest, ToClear, ToLoad, Added, Links
  <2>2. Told \/ ToRequest \/ Requested => Links'
    BY <1>1 DEF Told, ToRequest, Requested, Links
  <2>3. ToCompose => Links'
    BY <1>1 DEF ToCompose, Links
  <2> QED BY <2>1, <2>2, <2>3 DEF Core, Links
<1> QED BY <1>2, OnlyLink DEF Core, NoCancel

\* Every step of a user who waits, and of the program, keeps the chain.
LEMMA CalmStep == Typed /\ CalmInv /\ [Next]_vars => CalmInv'
<1> SUFFICES ASSUME Typed, CalmInv, [Next]_vars, Calm' PROVE Core'
  BY DEF CalmInv
<1>1. Calm
  BY DEF Calm, Next, vars, WorkerStep, StartTask, RunClear, RunDownload, ReadFile, BeginDat,
         AddMessages, FinishTask, DidLoadFile, DidFinish, Reload, Cancel, OpenThread, Post, Receive, Fail, Mark, Typed, TypeOK
<1>2. Core
  BY <1>1 DEF CalmInv
<1>3. CASE WorkerStep
  BY <1>2, <1>3, StartTaskCalm, RunClearCalm, RunDownloadCalm, ReadFileCalm, BeginDatCalm,
     AddMessagesCalm, FinishTaskCalm DEF WorkerStep
<1>4. CASE DidLoadFile \/ DidFinish \/ Reload \/ Cancel
  BY <1>2, <1>4, DidLoadFileCalm, DidFinishCalm, ReloadCalm, CancelCalm
<1>5. ASSUME NEW t \in Threads, OpenThread(t) \/ Receive(t) PROVE Core'
  BY <1>2, <1>5, OpenCalm, ReceiveCalm
<1>6. ASSUME NEW t \in Threads, Fail(t) PROVE Core'
  BY <1>2, <1>6, NothingCame DEF Fail, Answerable, content, workerVars
<1>7. ASSUME NEW t \in Threads, Post(t) PROVE Core'
  BY <1>2, <1>7, PostCalm DEF Post, content, workerVars
<1>8. ASSUME NEW i \in 1..MaxServer, Mark(i) PROVE Core'
  BY <1>2, <1>8, MarkCalm
<1>9. CASE UNCHANGED vars
  BY <1>2, <1>9, PostCalm DEF vars
<1> QED BY <1>3, <1>4, <1>5, <1>6, <1>7, <1>8, <1>9 DEF Next

\* The viewer starts at rest.
LEMMA CalmInit == Init => CalmInv
<1> SUFFICES ASSUME Init PROVE Core
  BY DEF CalmInv
<1>1. AtRest
  BY DEF Init, AtRest, NoRequest, Idle, Unlocked
<1>2. Numbered /\ (NoCancel => ~interrupted)
  BY DEF Init, Numbered
<1>3. \A t \in Threads : Complete(log[t])
  BY DEF Init, Complete, NoFile
<1> QED BY <1>1, <1>2, <1>3 DEF Core, Links

\* The chain holds throughout.
LEMMA CalmInvariance == Spec => [](Typed /\ CalmInv)
  BY InitTyped, TypeStep, CalmInit, CalmStep, PTL DEF Spec

\* For a user who waits no downloaded message is lost from a log.
THEOREM LogsAreComplete == Spec => []LogComplete
<1>1. Typed /\ CalmInv => LogComplete
  BY DEF CalmInv, Core, Complete, LogComplete
<1> QED BY <1>1, CalmInvariance, PTL

\* For a user who waits the viewer numbers messages as the server does.
THEOREM NumbersAreTheServers == Spec => []BufferNumbered
<1>1. Typed /\ CalmInv => BufferNumbered
  BY DEF CalmInv, Core, Numbered, BufferNumbered
<1> QED BY <1>1, CalmInvariance, PTL

\* For a user who waits no difference between viewer and log goes unnoted.
THEOREM EditsAreNoted == Spec => []EditsNoted
<1>1. Typed /\ CalmInv => EditsNoted
  BY LinkAt DEF CalmInv, Core, AtRest, Matches, EditsNoted
<1> QED BY <1>1, CalmInvariance, PTL

\* For a user who waits the viewer shows every message of the log.
THEOREM WholeLogIsShown == Spec => []ShowsWholeLog
<1>1. Typed /\ CalmInv => ShowsWholeLog
  BY LinkAt DEF CalmInv, Core, AtRest, Matches, ShowsWholeLog
<1> QED BY <1>1, CalmInvariance, PTL

\* For a user who waits and cancels nothing, every lock taken for arrived
\* messages is released.
THEOREM LocksAreReleased == Spec => []LocksReleased
<1>1. Typed /\ CalmInv => LocksReleased
  BY LinkAt DEF CalmInv, Core, AtRest, Unlocked, LocksReleased
<1> QED BY <1>1, CalmInvariance, PTL

-----------------------------------------------------------------------------
(* Flags that were saved, for a user who opens threads when nothing is     *)
(* pending: they may reload at any time if they cancel nothing             *)

\* Every flag of the messages a is on the messages b.
KeepsFlags(a, b) == \A i \in DOMAIN a : a[i].mark => i \in DOMAIN b /\ b[i].mark

\* A request has read the log that its answer will extend.
RequestsCurrent ==
  \A t \in Threads : download[t].running => download[t].local = log[t]

\* The clear task comes before all others, and a loading task, for the thread
\* shown, next.
LoadsFirst ==
  \A i \in DOMAIN works :
    /\ works[i].kind = "clear" => i = 1 /\ wpc = "idle"
    /\ works[i].kind = "load" =>
         /\ works[i].thread = current
         /\ \/ i = 2 /\ works[1].kind = "clear"
            \/ i = 1 /\ wpc = "begin" /\ task.kind = "clear"
            \/ i = 1 /\ wpc = "idle" /\ buffer = <<>>

\* A loading task finds the buffer empty and brings the saved flags.
Loads ==
  task.kind = "load" /\ wpc \in {"begin", "loaded", "complete"} =>
    /\ task.thread = current /\ buffer = <<>>
    /\ wpc # "begin" => KeepsFlags(log[current].messages, task.messages)

Loading == \/ \E i \in DOMAIN works : works[i].kind = "load"
           \/ task.kind = "load" /\ wpc \in {"begin", "loaded", "complete"}

\* The flags of the log are in the buffer, or will be read into it, or there
\* are none.
FlagsShown ==
  current \in Threads =>
    \/ Loading
    \/ KeepsFlags(log[current].messages, <<>>)
    \/ ~Clearing /\ KeepsFlags(log[current].messages, buffer)

Uncancelled == ~interrupted /\ ~invalidate /\ LoadsFirst /\ Loads /\ FlagsShown

FlagsInv == KindInv /\ RequestsCurrent /\ (NoCancel => Uncancelled)

\* Flags are kept by copying, and by appending; unflagged messages add none.
LEMMA FlagFacts ==
  /\ \A a : KeepsFlags(a, a) /\ KeepsFlags(<<>>, a)
  /\ \A a, b, c : KeepsFlags(a, b) /\ KeepsFlags(b, c) => KeepsFlags(a, c)
  /\ \A a, b \in Seq(Message) : KeepsFlags(a, a \o b)
  /\ \A a, b \in Seq(Message) :
       (\A i \in DOMAIN b : ~b[i].mark) => KeepsFlags(a \o b, a)
<1>1. /\ \A a : KeepsFlags(a, a) /\ KeepsFlags(<<>>, a)
      /\ \A a, b, c : KeepsFlags(a, b) /\ KeepsFlags(b, c) => KeepsFlags(a, c)
  BY DEF KeepsFlags
<1>2. ASSUME NEW a \in Seq(Message), NEW b \in Seq(Message) PROVE KeepsFlags(a, a \o b)
  <2>1. \A i \in DOMAIN a : i \in DOMAIN (a \o b) /\ (a \o b)[i] = a[i]
    OBVIOUS
  <2> QED BY <2>1 DEF KeepsFlags
<1>3. ASSUME NEW a \in Seq(Message), NEW b \in Seq(Message), \A i \in DOMAIN b : ~b[i].mark
      PROVE  KeepsFlags(a \o b, a)
  <2>1. \A i \in DOMAIN (a \o b) :
          \/ i \in DOMAIN a /\ (a \o b)[i] = a[i]
          \/ i - Len(a) \in DOMAIN b /\ (a \o b)[i] = b[i - Len(a)]
    BY ConcatElements, Zenon
  <2> QED BY <1>3, <2>1, Zenon DEF KeepsFlags
<1> QED BY <1>1, <1>2, <1>3

\* An answer to a request that has read the log as it is changes no flag.
LEMMA ExtendedFlags ==
  ASSUME TypeOK, NEW t \in Threads, download[t].local = log[t]
  PROVE  /\ KeepsFlags(log[t].messages, Extended(t).messages)
         /\ KeepsFlags(Extended(t).messages, log[t].messages)
<1>1. log[t].messages \in Seq(Message) /\ Fetched(t) \in Seq(Message)
  BY FetchedFacts DEF TypeOK, File
<1>2. \A i \in DOMAIN Fetched(t) : ~Fetched(t)[i].mark
  BY DEF Fetched
<1>3. Extended(t).messages = log[t].messages \o Fetched(t)
  BY DEF Extended
<1> QED BY <1>1, <1>2, <1>3, FlagFacts

\* While something is pending the logs change only by answers, each to the one
\* request for its thread.
LEMMA RequestsStep ==
  ASSUME "open" \notin Impatient, Typed, RequestsCurrent, [Next]_vars
  PROVE  RequestsCurrent'
<1>0. TypeOK
  BY DEF Typed
<1>1. ASSUME NEW t \in Threads, OpenThread(t) PROVE RequestsCurrent'
  BY <1>1 DEF OpenThread, May, Quiet, netVars, RequestsCurrent
<1>2. ASSUME NEW t \in Threads, Receive(t) \/ Fail(t) PROVE RequestsCurrent'
  <2>1. \A u \in Threads : download'[u] = IF u = t THEN Idle ELSE download[u]
    BY <1>0, <1>2 DEF Receive, Fail, TypeOK
  <2>2. ~Idle.running
    BY DEF Idle
  <2>3. \A u \in Threads : u # t => log'[u] = log[u]
    BY <1>0, <1>2 DEF Receive, Fail, TypeOK
  <2> QED BY <2>1, <2>2, <2>3 DEF RequestsCurrent
<1>3. ASSUME StartDownload, UNCHANGED log PROVE RequestsCurrent'
  <2>1. CASE download' = download
    BY <1>3, <2>1 DEF RequestsCurrent
  <2>2. CASE ~(current = NoThread \/ download[current].running)
    <3>1. \A u \in Threads : download'[u].local = IF u = current THEN log[u] ELSE download[u].local
      BY <1>0, <1>3, <2>2 DEF StartDownload, TypeOK
    <3>2. \A u \in Threads : u # current => download'[u] = download[u]
      BY <1>0, <1>3, <2>2 DEF StartDownload, TypeOK
    <3> QED BY <1>3, <3>1, <3>2 DEF RequestsCurrent
  <2> QED BY <1>3, <2>1, <2>2 DEF StartDownload
<1>4. ASSUME UNCHANGED <<log, download>> PROVE RequestsCurrent'
  BY <1>4 DEF RequestsCurrent
<1>5. CASE Reload \/ RunDownload
  BY <1>3, <1>4, <1>5 DEF Reload, RunDownload
<1>6. CASE DidFinish
  <2>1. \A t \in Threads : /\ download'[t].local = download[t].local
                           /\ download'[t].running = download[t].running
    BY <1>0, <1>6 DEF DidFinish, TypeOK, Download
  <2> QED BY <1>6, <2>1 DEF DidFinish, RequestsCurrent
<1> QED BY <1>1, <1>2, <1>4, <1>5, <1>6
        DEF Next, WorkerStep, StartTask, RunClear, ReadFile, BeginDat, AddMessages, FinishTask,
            DidLoadFile, Cancel, Post, Mark, netVars, vars

\* Where the tasks of a queue are when the first has left it.
LEMMA TailFacts ==
  ASSUME NEW s \in Seq(Task), s # <<>>
  PROVE  /\ 1 \in DOMAIN s /\ Head(s) = s[1]
         /\ \A i \in DOMAIN Tail(s) :
              i \in Nat /\ i >= 1 /\ i + 1 \in DOMAIN s /\ Tail(s)[i] = s[i + 1]
         /\ \A i \in DOMAIN s : i = 1 \/ (i - 1 \in DOMAIN Tail(s) /\ Tail(s)[i - 1] = s[i])
<1>1. /\ Len(s) \in Nat /\ Len(s) >= 1 /\ DOMAIN s = 1 .. Len(s) /\ Head(s) = s[1]
  OBVIOUS
<1>2. Len(Tail(s)) = Len(s) - 1 /\ DOMAIN Tail(s) = 1 .. Len(s) - 1
  BY <1>1
<1>3. \A i \in 1 .. Len(s) - 1 : Tail(s)[i] = s[i + 1]
  BY <1>1
<1>4. \A i \in DOMAIN s : i = 1 \/ (i - 1 \in 1 .. Len(s) - 1 /\ s[(i - 1) + 1] = s[i])
  BY <1>1
<1> QED BY <1>1, <1>2, <1>3, <1>4

\* The worker's steps, for a user who has cancelled nothing.
LEMMA WorkerUncancelled == ASSUME Typed, Uncancelled, WorkerStep PROVE Uncancelled'
<1> USE DEF Uncancelled
<1>0. TypeOK
  BY DEF Typed
<1>1. CASE StartTask
  <2>1. /\ UNCHANGED <<log, buffer, current, invalidate>> /\ ~interrupted'
        /\ wpc = "idle" /\ wpc' = "begin" /\ task' = works[1]
    <3>1. works \in Seq(Task) /\ works # <<>>
      BY <1>0, <1>1 DEF StartTask, TypeOK
    <3>2. Head(works) = works[1]
      BY <3>1, TailFacts
    <3>3. /\ UNCHANGED <<log, buffer, current, invalidate>> /\ ~interrupted'
          /\ wpc = "idle" /\ wpc' = "begin" /\ task' = Head(works)
      BY <1>1 DEF StartTask, content
    <3> QED BY <3>2, <3>3
  <2>2. /\ 1 \in DOMAIN works
        /\ \A i \in DOMAIN works' : i \in Nat /\ i >= 1 /\ i + 1 \in DOMAIN works /\ works'[i] = works[i + 1]
        /\ \A i \in DOMAIN works : i = 1 \/ (i - 1 \in DOMAIN works' /\ works'[i - 1] = works[i])
    <3>1. works \in Seq(Task) /\ works # <<>> /\ works' = Tail(works)
      BY <1>0, <1>1 DEF StartTask, TypeOK
    <3> QED BY <3>1, TailFacts
  <2>3. LoadsFirst'
    BY <2>1, <2>2 DEF LoadsFirst
  <2>4. Loads'
    BY <2>1, <2>2 DEF LoadsFirst, Loads
  <2>5. FlagsShown'
    <3>1. Loading => Loading'
      BY <2>1, <2>2 DEF Loading
    <3>2. ~Clearing => ~Clearing'
      BY <2>1, <2>2 DEF Clearing, ClearQueued
    <3> QED BY <2>1, <3>1, <3>2 DEF FlagsShown
  <2> QED BY <2>1, <2>3, <2>4, <2>5
<1>2. CASE RunClear
  <2>1. /\ UNCHANGED <<log, current, works, invalidate, interrupted>>
        /\ wpc = "begin" /\ wpc' = "idle" /\ task.kind = "clear" /\ buffer' = <<>>
    BY <1>2 DEF RunClear, EndTask, Cleared
  <2>2. LoadsFirst' /\ Loads'
    BY <2>1 DEF LoadsFirst, Loads
  <2>3. FlagsShown'
    BY <2>1 DEF FlagsShown, Loading, Clearing
  <2> QED BY <2>1, <2>2, <2>3
<1>3. CASE RunDownload
  <2>1. /\ UNCHANGED <<log, buffer, current, works, invalidate, interrupted>>
        /\ wpc = "begin" /\ wpc' = "idle" /\ task.kind = "download"
    BY <1>3 DEF RunDownload, EndTask, content
  <2>2. LoadsFirst' /\ Loads'
    BY <2>1 DEF LoadsFirst, Loads
  <2>3. FlagsShown'
    BY <2>1 DEF FlagsShown, Loading, Clearing, ClearQueued
  <2> QED BY <2>1, <2>2, <2>3
<1>4. CASE ReadFile
  <2>1. /\ UNCHANGED <<log, buffer, current, works, invalidate, interrupted>>
        /\ wpc = "begin" /\ wpc' = "loaded" /\ task'.kind = task.kind
        /\ task'.thread = task.thread /\ task.kind = "load"
        /\ task'.messages = log[task.thread].messages
    BY <1>0, <1>4 DEF ReadFile, content, TypeOK, Task
  <2>2. LoadsFirst'
    BY <2>1 DEF LoadsFirst
  <2>3. Loads'
    BY <2>1, FlagFacts DEF Loads
  <2>4. FlagsShown'
    BY <2>1 DEF FlagsShown, Loading, Clearing, ClearQueued
  <2> QED BY <2>1, <2>2, <2>3, <2>4
<1>5. CASE AddMessages
  <2>1. /\ UNCHANGED <<log, current, works, invalidate, interrupted>>
        /\ wpc = "complete" /\ wpc' \in {"idle", "added"}
    BY <1>5 DEF AddMessages, Caught, EndTask
  <2>2. \A i \in DOMAIN works : works[i].kind \notin {"clear", "load"}
    <3>1. \A i \in DOMAIN works : i = 2 => 1 \in DOMAIN works
      BY <1>0 DEF TypeOK
    <3> QED BY <2>1, <3>1 DEF LoadsFirst
  <2>3. LoadsFirst' /\ Loads' /\ ~Clearing' /\ ~Clearing
    BY <2>1, <2>2 DEF LoadsFirst, Loads, Clearing, ClearQueued
  <2>4. task.kind = "load" => buffer' = task.messages
    <3>1. \A m \in Seq(Message) : <<>> \o m = m
      OBVIOUS
    <3> QED BY <1>0, <1>5, <2>1, <3>1 DEF AddMessages, CanAppend, Loads, TypeOK, Task
  <2>5. KeepsFlags(buffer, buffer')
    <3>1. buffer \in Seq(Message) /\ task.messages \in Seq(Message)
      BY <1>0 DEF TypeOK, Task
    <3>2. buffer' = buffer \/ buffer' = buffer \o task.messages
      BY <1>5 DEF AddMessages
    <3>3. KeepsFlags(buffer, buffer) /\ KeepsFlags(buffer, buffer \o task.messages)
      BY <3>1, FlagFacts, Zenon
    <3> QED BY <3>2, <3>3
  <2>6. FlagsShown'
    BY <2>1, <2>2, <2>3, <2>4, <2>5, FlagFacts, SMTT(30) DEF FlagsShown, Loading, Loads
  <2> QED BY <2>1, <2>3, <2>6
<1>6. CASE FinishTask
  <2>1. /\ UNCHANGED <<log, buffer, current, works, invalidate, interrupted>>
        /\ wpc = "added" /\ wpc' = "idle"
    BY <1>6 DEF FinishTask, EndTask, content
  <2>2. LoadsFirst' /\ Loads'
    BY <2>1 DEF LoadsFirst, Loads
  <2>3. FlagsShown'
    BY <2>1 DEF FlagsShown, Loading, Clearing, ClearQueued
  <2> QED BY <2>1, <2>2, <2>3
<1>7. CASE BeginDat
  <2>1. /\ UNCHANGED <<log, buffer, current, works, task, invalidate, interrupted>>
        /\ wpc = "begin" /\ wpc' = "complete" /\ task.kind = "dat"
    BY <1>7 DEF BeginDat, content
  <2>2. LoadsFirst' /\ Loads'
    BY <2>1 DEF LoadsFirst, Loads
  <2>3. FlagsShown'
    BY <2>1 DEF FlagsShown, Loading, Clearing, ClearQueued
  <2> QED BY <2>1, <2>2, <2>3
<1> QED BY <1>1, <1>2, <1>3, <1>4, <1>5, <1>6, <1>7 DEF WorkerStep

\* A load, for a user who has cancelled nothing, is for the thread shown.
LEMMA MergeUncancelled ==
  ASSUME Typed, KindInv, Uncancelled, DidLoadFile PROVE Uncancelled'
<1>1. /\ UNCHANGED <<log, buffer, works, task, invalidate, interrupted>>
      /\ wpc = "loaded" /\ wpc' = "complete" /\ task.kind = "load" /\ current' = task.thread
  BY DEF DidLoadFile, content, KindInv
<1>2. current' = current
  BY <1>1 DEF Uncancelled, Loads
<1>3. LoadsFirst' /\ Loads'
  BY <1>1, <1>2 DEF Uncancelled, LoadsFirst, Loads
<1>4. FlagsShown'
  BY <1>1, <1>2 DEF Uncancelled, FlagsShown, Loading, Clearing, ClearQueued
<1> QED BY <1>1, <1>3, <1>4 DEF Uncancelled

\* A task that neither clears nor loads may join the queue, and the log be
\* extended without a change of flags.
LEMMA QueuedBehind ==
  ASSUME Typed, Uncancelled, NEW k \in Task, k.kind \notin {"clear", "load"},
         works' = works \/ works' = Append(works, k),
         UNCHANGED <<buffer, current, interrupted, wpc, task>>, ~invalidate',
         current \in Threads =>
           /\ KeepsFlags(log[current].messages, log'[current].messages)
           /\ KeepsFlags(log'[current].messages, log[current].messages)
  PROVE  Uncancelled'
<1>1. /\ \A i \in DOMAIN works : i \in DOMAIN works' /\ works'[i] = works[i]
      /\ \A i \in DOMAIN works' : \/ i \in DOMAIN works /\ works'[i] = works[i]
                                  \/ works'[i] = k
  <2>1. works \in Seq(Task)
    BY DEF Typed, TypeOK
  <2>2. CASE works' = works
    BY <2>2
  <2>3. CASE works' = Append(works, k)
    BY <2>1, <2>3
  <2> QED BY <2>2, <2>3
<1>2. LoadsFirst'
  <2>1. \A i \in DOMAIN works : i = 2 => 1 \in DOMAIN works
    BY DEF Typed, TypeOK
  <2> QED BY <1>1, <2>1 DEF Uncancelled, LoadsFirst
<1>3. Loads'
  <2>1. task.kind = "load" => task.thread \in Threads
    BY DEF Typed, LoadsNamed
  <2> QED BY <2>1, FlagFacts DEF Uncancelled, Loads
<1>4. FlagsShown'
  <2>1. Loading => Loading'
    BY <1>1 DEF Loading
  <2>2. ~Clearing => ~Clearing'
    BY <1>1 DEF Clearing, ClearQueued
  <2> QED BY <2>1, <2>2, FlagFacts DEF Uncancelled, FlagsShown
<1> QED BY <1>2, <1>3, <1>4 DEF Uncancelled

\* The downloader's and the run loop's steps, for a user who has cancelled
\* nothing.
LEMMA NetUncancelled ==
  ASSUME Typed, Uncancelled, RequestsCurrent,
         DidFinish \/ \E t \in Threads : Receive(t) \/ Fail(t) \/ Post(t)
  PROVE  Uncancelled'
<1>0. TypeOK
  BY DEF Typed
<1>1. CASE DidFinish
  <2>1. Simple("download", current) \in Task /\ Simple("download", current).kind = "download"
    BY <1>0, TaskTypes, SimpleFacts DEF TypeOK
  <2>2. KeepsFlags(log[current].messages, log[current].messages)
    BY FlagFacts
  <2>3. /\ works' = works \/ works' = Append(works, Simple("download", current))
        /\ UNCHANGED <<log, buffer, current, interrupted, wpc, task>> /\ ~invalidate'
    BY <1>1 DEF DidFinish, content
  <2> QED BY <2>1, <2>2, <2>3, QueuedBehind
<1>2. ASSUME NEW t \in Threads, Receive(t) PROVE Uncancelled'
  <2> DEFINE arrival == [kind |-> "dat", thread |-> t, first |-> Len(buffer) + 1,
                         messages |-> Fetched(t)]
  <2>1. PICK k : k = arrival
    OBVIOUS
  <2>2. arrival \in Task /\ arrival.kind = "dat"
    <3>1. Fetched(t) \in Seq(Message)
      BY <1>0, FetchedFacts
    <3>2. Len(buffer) + 1 \in Nat
      BY <1>0 DEF TypeOK
    <3> QED BY <3>1, <3>2 DEF Task
  <2>3. works' = works \/ works' = Append(works, arrival)
    BY <1>2 DEF Receive, Compose
  <2>4. UNCHANGED <<buffer, current, interrupted, wpc, task>> /\ ~invalidate'
    BY <1>2 DEF Receive, Uncancelled
  <2>5. log' = log \/ log' = [log EXCEPT ![t] = Extended(t)]
    BY <1>2 DEF Receive
  <2>6. download[t].local = log[t]
    BY <1>2 DEF Receive, Answerable, RequestsCurrent
  <2>7. \A u \in Threads : /\ KeepsFlags(log[u].messages, log'[u].messages)
                           /\ KeepsFlags(log'[u].messages, log[u].messages)
    <3>1. \A u \in Threads : log'[u] = log[u] \/ (u = t /\ log'[u] = Extended(t))
      BY <1>0, <2>5 DEF TypeOK
    <3>2. /\ KeepsFlags(log[t].messages, Extended(t).messages)
          /\ KeepsFlags(Extended(t).messages, log[t].messages)
      BY <1>0, <2>6, ExtendedFlags
    <3>3. \A a : KeepsFlags(a, a)
      BY FlagFacts
    <3> QED BY <3>1, <3>2, <3>3
  <2> HIDE DEF arrival
  <2> QED BY <2>1, <2>2, <2>3, <2>4, <2>7, QueuedBehind
<1>3. ASSUME NEW t \in Threads, Fail(t) \/ Post(t) PROVE Uncancelled'
  <2>1. UNCHANGED <<log, works, buffer, current, interrupted, wpc, task, invalidate>>
    BY <1>3 DEF Fail, Post, content, workerVars
  <2> QED BY <2>1 DEF Uncancelled, LoadsFirst, Loads, FlagsShown, Loading, Clearing, ClearQueued
<1> QED BY <1>1, <1>2, <1>3

\* The user's steps but cancel:.
LEMMA UserUncancelled ==
  ASSUME "open" \notin Impatient, Typed, Uncancelled,
         \/ Reload \/ UNCHANGED vars
         \/ \E t \in Threads : OpenThread(t)
         \/ \E i \in 1..MaxServer : Mark(i)
  PROVE  Uncancelled'
<1>0. TypeOK
  BY DEF Typed
<1>1. ASSUME NEW t \in Threads, OpenThread(t) PROVE Uncancelled'
  <2>1. /\ wpc = "idle" /\ wpc' = "idle" /\ current' = t /\ t # current
        /\ UNCHANGED <<invalidate, buffer>> /\ ~interrupted' /\ log' = Synchronized
        /\ works' = <<Simple("clear", t),
                      Simple(IF log[t] = NoFile THEN "download" ELSE "load", t)>>
    BY <1>1 DEF OpenThread, May, Quiet, LoadFromContents
  <2>2. /\ DOMAIN works' = {1, 2} /\ works'[1].kind = "clear"
        /\ works'[2].kind = IF log[t] = NoFile THEN "download" ELSE "load"
        /\ works'[2].thread = t
    BY <2>1, SimpleFacts
  <2>3. LoadsFirst' /\ Loads'
    BY <2>1, <2>2 DEF LoadsFirst, Loads
  <2>4. log'[t] = log[t]
    BY <1>0, <2>1 DEF Synchronized, TypeOK
  <2>5. KeepsFlags(NoFile.messages, <<>>)
    BY FlagFacts DEF NoFile
  <2>6. FlagsShown'
    BY <2>1, <2>2, <2>4, <2>5 DEF FlagsShown, Loading
  <2> QED BY <2>1, <2>3, <2>6 DEF Uncancelled
<1>2. ASSUME NEW i \in 1..MaxServer, Mark(i) PROVE Uncancelled'
  <2>1. /\ UNCHANGED <<log, works, current, interrupted, wpc, task, invalidate>>
        /\ buffer # <<>>
        /\ buffer' = [buffer EXCEPT ![i] = [buffer[i] EXCEPT !.mark = TRUE]]
        /\ i \in DOMAIN buffer
    BY <1>2 DEF Mark, workerVars
  <2>2. KeepsFlags(buffer, buffer')
    <3>1. \A m \in Message : [m EXCEPT !.mark = TRUE].mark = TRUE
      BY DEF Message
    <3>2. /\ DOMAIN buffer' = DOMAIN buffer
          /\ \A j \in DOMAIN buffer : j # i => buffer'[j] = buffer[j]
          /\ buffer'[i].mark = TRUE
      <4>1. buffer \in Seq(Message) /\ buffer[i] \in Message
        BY <1>0, <2>1 DEF TypeOK
      <4>2. [buffer[i] EXCEPT !.mark = TRUE].mark = TRUE
        BY <3>1, <4>1
      <4>3. /\ DOMAIN buffer' = DOMAIN buffer
            /\ \A j \in DOMAIN buffer : j # i => buffer'[j] = buffer[j]
            /\ buffer'[i] = [buffer[i] EXCEPT !.mark = TRUE]
        BY <2>1, <4>1
      <4> QED BY <4>2, <4>3
    <3> QED BY <3>2 DEF KeepsFlags
  <2>3. LoadsFirst' /\ Loads'
    BY <2>1 DEF Uncancelled, LoadsFirst, Loads
  <2>4. FlagsShown'
    BY <2>1, <2>2, FlagFacts DEF Uncancelled, FlagsShown, Loading, Clearing, ClearQueued
  <2> QED BY <2>1, <2>3, <2>4 DEF Uncancelled
<1>3. CASE Reload \/ UNCHANGED vars
  <2>1. UNCHANGED <<log, works, buffer, current, interrupted, wpc, task, invalidate>>
    BY <1>3 DEF Reload, vars, content, Uncancelled
  <2> QED BY <2>1 DEF Uncancelled, LoadsFirst, Loads, FlagsShown, Loading, Clearing, ClearQueued
<1> QED BY <1>1, <1>2, <1>3

\* The flags of the log stay within reach of the viewer.
LEMMA FlagsStep ==
  ASSUME "open" \notin Impatient, Typed, FlagsInv, [Next]_vars PROVE FlagsInv'
<1>1. RequestsCurrent'
  BY RequestsStep DEF FlagsInv
<1>2. ASSUME NoCancel' PROVE Uncancelled'
  <2>1. ~Cancel
    BY <1>2, ViewerAssumption DEF Cancel, NoCancel, Typed, TypeOK
  <2>2. NoCancel
    BY <1>2, <2>1 DEF NoCancel, Next, vars, WorkerStep, StartTask, RunClear, RunDownload, ReadFile,
         BeginDat, AddMessages, FinishTask, DidLoadFile, DidFinish, Reload, OpenThread, Post, Receive, Fail, Mark, Typed, TypeOK
  <2>3. Uncancelled /\ RequestsCurrent /\ KindInv
    BY <2>2 DEF FlagsInv
  <2>4. CASE WorkerStep
    BY <2>3, <2>4, WorkerUncancelled
  <2>5. CASE DidFinish \/ \E t \in Threads : Receive(t) \/ Fail(t) \/ Post(t)
    BY <2>3, <2>5, NetUncancelled
  <2>6. CASE \/ Reload \/ UNCHANGED vars
             \/ \E t \in Threads : OpenThread(t)
             \/ \E i \in 1..MaxServer : Mark(i)
    BY <2>3, <2>6, UserUncancelled
  <2>7. CASE DidLoadFile
    BY <2>3, <2>7, MergeUncancelled
  <2> QED BY <2>1, <2>4, <2>5, <2>6, <2>7 DEF Next
<1>3. KindInv'
  BY KindStep DEF FlagsInv
<1> QED BY <1>1, <1>2, <1>3 DEF FlagsInv

\* Nothing is saved and nothing pending at the start.
LEMMA FlagsInit == Init => FlagsInv
<1> SUFFICES ASSUME Init PROVE FlagsInv
  OBVIOUS
<1>1. RequestsCurrent
  BY DEF Init, RequestsCurrent, Idle
<1>2. LoadsFirst /\ Loads
  <2>1. works = <<>> /\ wpc = "idle"
    BY DEF Init
  <2> QED BY <2>1 DEF LoadsFirst, Loads
<1>3. FlagsShown
  BY ViewerAssumption DEF Init, FlagsShown
<1> QED BY <1>1, <1>2, <1>3 DEF FlagsInv, KindInv, Uncancelled, Init

\* What synchronize writes has every flag of what it replaces.
LEMMA SynchronizedFlags ==
  ASSUME Typed, Uncancelled, Quiet, NEW t \in Threads
  PROVE  KeepsFlags(log[t].messages, Synchronized[t].messages)
<1>1. CASE Synchronized = log
  BY <1>1, FlagFacts
<1>2. CASE current \in Threads /\ Synchronized = [log EXCEPT ![current].messages = buffer]
  <2>1. ~Loading
    BY DEF Loading, Quiet
  <2>2. KeepsFlags(log[current].messages, buffer)
    BY <1>2, <2>1, FlagFacts DEF Uncancelled, FlagsShown
  <2>3. Synchronized[t].messages = IF t = current THEN buffer ELSE log[t].messages
    BY <1>2 DEF Typed, TypeOK, File
  <2> QED BY <2>2, <2>3, FlagFacts
<1> QED BY <1>1, <1>2 DEF Synchronized, Typed, TypeOK

\* A flag that was saved stays saved, for a user who opens threads when nothing
\* is pending and, besides, waits before they reload or cancels nothing.
THEOREM FlagsStaySaved == "open" \notin Impatient => (Spec => MarkKept)
<1> SUFFICES ASSUME "open" \notin Impatient PROVE Spec => MarkKept
  OBVIOUS
<1> DEFINE Kept == Calm \/ NoCancel =>
             \A t \in Threads : \A i \in DOMAIN log[t].messages :
               log[t].messages[i].mark =>
                 i \in DOMAIN log'[t].messages /\ log'[t].messages[i].mark
<1>1. Typed /\ CalmInv /\ FlagsInv /\ [Next]_vars => [Kept]_vars
  <2> SUFFICES ASSUME Typed, CalmInv, FlagsInv, [Next]_vars, Calm \/ NoCancel, NEW t \in Threads
               PROVE  KeepsFlags(log[t].messages, log'[t].messages)
    BY DEF KeepsFlags
  <2>1. ASSUME NEW u \in Threads, Receive(u)
        PROVE  KeepsFlags(log[t].messages, log'[t].messages)
    <3>1. download[u].local = log[u]
      BY <2>1 DEF Receive, Answerable, FlagsInv, RequestsCurrent
    <3>2. log'[t] = log[t] \/ (u = t /\ log'[t] = Extended(t))
      BY <2>1 DEF Receive, Typed, TypeOK
    <3> QED BY <3>1, <3>2, ExtendedFlags, FlagFacts DEF Typed
  <2>2. ASSUME NEW u \in Threads, OpenThread(u)
        PROVE  KeepsFlags(log[t].messages, log'[t].messages)
    <3>1. Quiet /\ log' = Synchronized
      BY <2>2 DEF OpenThread, May
    <3>2. CASE Calm
      <4>1. Core /\ AtRest
        BY <3>1, <3>2, LinkAt DEF CalmInv, Core
      <4> QED BY <3>1, <4>1, SynchronizedCalm DEF KeepsFlags
    <3>3. CASE NoCancel
      BY <3>1, <3>3, SynchronizedFlags DEF FlagsInv
    <3> QED BY <3>2, <3>3
  <2>3. CASE UNCHANGED log
    BY <2>3, FlagFacts
  <2> QED BY <2>1, <2>2, <2>3
          DEF Next, WorkerStep, StartTask, RunClear, RunDownload, ReadFile, BeginDat, AddMessages,
              FinishTask, DidLoadFile, DidFinish, Reload, Cancel, Post, Fail, Mark, vars
<1>2. Typed /\ FlagsInv /\ [Next]_vars => FlagsInv'
  BY FlagsStep
<1> QED BY <1>1, <1>2, InitTyped, TypeStep, CalmInit, CalmStep, FlagsInit, PTL DEF Spec, MarkKept
=============================================================================
