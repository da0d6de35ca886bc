--------------------------- MODULE TaskManagerProofs ---------------------------
(***************************************************************************)
(* Proofs about TaskManager, for any sets of downloaders, composing tasks  *)
(* and identifiers.  OneLoadPerURL and CurrentIsLive are not inductive on  *)
(* their own: the first needs that a running downloader holds its URL, the *)
(* second that a posted start is followed by its finish.  StartsAreLive    *)
(* states both.                                                            *)
(***************************************************************************)
EXTENDS TaskManager, TLAPS

\* What CurrentIsLive rests on: a running downloader holds its URL, and a start
\* on its way is followed by its finish unless the task still runs.
StartsAreLive ==
  /\ \A d \in Downloads : phase[d] = "running" => ident[d] \in urls
  /\ \A i \in DOMAIN runLoop : \A c \in Composings :
       runLoop[i] = <<"start", c>> =>
         \/ phase[c] = "running"
         \/ \E j \in DOMAIN runLoop : j > i /\ runLoop[j] = <<"finish", c>>

Inv == TypeOK /\ StartsAreLive /\ OneLoadPerURL /\ CurrentIsLive

\* Every initial state satisfies the invariant.
LEMMA InitInv == Init => Inv
  BY TasksAssumption
  DEF Init, Inv, TypeOK, StartsAreLive, OneLoadPerURL, CurrentIsLive, Tasks

\* downloadThread: and loadInBackground preserve the invariant.
LEMMA StartDownloadInv ==
  ASSUME Inv, NEW d \in Downloads, StartDownload(d)
  PROVE  Inv'
<1> USE TasksAssumption DEF Inv, Tasks
<1>1. TypeOK'
  BY DEF TypeOK, StartDownload, AddTask, Busy, InProgressWith
<1>2. StartsAreLive'
  BY DEF TypeOK, StartDownload, Busy, StartsAreLive
<1>3. OneLoadPerURL'
  BY DEF TypeOK, StartDownload, Busy, StartsAreLive, OneLoadPerURL
<1>4. CurrentIsLive'
  BY DEF TypeOK, StartDownload, Busy, CurrentIsLive
<1> QED BY <1>1, <1>2, <1>3, <1>4

\* didFinishLoading preserves the invariant.
LEMMA EndDownloadInv ==
  ASSUME Inv, NEW d \in Downloads, EndDownload(d)
  PROVE  Inv'
<1> USE TasksAssumption DEF Inv, Tasks
<1>1. TypeOK'
  BY DEF TypeOK, EndDownload, Finish, CurrentAfterFinish, RowsAfterFinish
<1>2. StartsAreLive'
  BY DEF TypeOK, EndDownload, StartsAreLive, OneLoadPerURL
<1>3. OneLoadPerURL'
  BY DEF TypeOK, EndDownload, OneLoadPerURL
<1>4. CurrentIsLive'
  BY DEF EndDownload, Finish, CurrentAfterFinish, CurrentIsLive
<1> QED BY <1>1, <1>2, <1>3, <1>4

\* The start of executeWithLayout: preserves the invariant.
LEMMA StartComposingInv ==
  ASSUME Inv, NEW c \in Composings, StartComposing(c)
  PROVE  Inv'
<1> USE TasksAssumption DEF Inv, Tasks
<1>0. /\ Len(runLoop') = Len(runLoop) + 1
      /\ DOMAIN runLoop = 1..Len(runLoop) /\ DOMAIN runLoop' = 1..Len(runLoop')
      /\ runLoop'[Len(runLoop')] = <<"start", c>>
      /\ \A i \in DOMAIN runLoop : runLoop'[i] = runLoop[i]
      /\ Len(runLoop) \in Nat
  BY DEF TypeOK, StartComposing
<1>1. TypeOK'
  BY DEF TypeOK, StartComposing, AddTask
<1>2. StartsAreLive'
  <2>1. \A d \in Downloads : (phase[d] = "running" => ident[d] \in urls)'
    BY DEF TypeOK, StartComposing, StartsAreLive
  <2>2. ASSUME NEW i \in DOMAIN runLoop', NEW e \in Composings,
               runLoop'[i] = <<"start", e>>, phase'[e] # "running"
        PROVE  \E j \in DOMAIN runLoop' : j > i /\ runLoop'[j] = <<"finish", e>>
    <3>1. e # c /\ phase[e] # "running"
      BY <2>2 DEF TypeOK, StartComposing
    <3>2. i \in DOMAIN runLoop /\ runLoop[i] = <<"start", e>>
      BY <1>0, <2>2, <3>1
    <3>3. PICK j \in DOMAIN runLoop : j > i /\ runLoop[j] = <<"finish", e>>
      BY <3>1, <3>2 DEF StartsAreLive
    <3>4. j \in DOMAIN runLoop' /\ runLoop'[j] = <<"finish", e>>
      BY <1>0, <3>3
    <3> QED BY <3>3, <3>4
  <2> QED BY <2>1, <2>2 DEF StartsAreLive
<1>3. OneLoadPerURL'
  BY DEF TypeOK, StartComposing, OneLoadPerURL
<1>4. CurrentIsLive'
  <2> SUFFICES ASSUME currentTask # NoTask, phase'[currentTask] # "running"
               PROVE  \E i \in DOMAIN runLoop' :
                        runLoop'[i] = <<"finish", currentTask>>
    BY DEF StartComposing, CurrentIsLive
  <2>1. phase[currentTask] # "running"
    BY DEF TypeOK, StartComposing
  <2>2. PICK i \in DOMAIN runLoop : runLoop[i] = <<"finish", currentTask>>
    BY <2>1 DEF CurrentIsLive
  <2>3. i \in DOMAIN runLoop' /\ runLoop'[i] = <<"finish", currentTask>>
    BY <1>0, <2>2
  <2> QED BY <2>3
<1> QED BY <1>1, <1>2, <1>3, <1>4

\* The @finally block of executeWithLayout: preserves the invariant.
LEMMA EndComposingInv ==
  ASSUME Inv, NEW c \in Composings, EndComposing(c)
  PROVE  Inv'
<1> USE TasksAssumption DEF Inv, Tasks
<1>0. /\ Len(runLoop') = Len(runLoop) + 1
      /\ DOMAIN runLoop = 1..Len(runLoop) /\ DOMAIN runLoop' = 1..Len(runLoop')
      /\ runLoop'[Len(runLoop')] = <<"finish", c>>
      /\ \A i \in DOMAIN runLoop : runLoop'[i] = runLoop[i]
      /\ Len(runLoop) \in Nat
  BY DEF TypeOK, EndComposing, WithFinish
<1>1. TypeOK'
  BY DEF TypeOK, EndComposing, WithFinish
<1>2. StartsAreLive'
  <2>1. \A d \in Downloads : (phase[d] = "running" => ident[d] \in urls)'
    BY DEF TypeOK, EndComposing, StartsAreLive
  <2>2. ASSUME NEW i \in DOMAIN runLoop', NEW e \in Composings,
               runLoop'[i] = <<"start", e>>, phase'[e] # "running"
        PROVE  \E j \in DOMAIN runLoop' : j > i /\ runLoop'[j] = <<"finish", e>>
    <3>1. i \in DOMAIN runLoop /\ runLoop[i] = <<"start", e>>
      BY <1>0, <2>2
    <3>2. CASE e = c
      <4>1. Len(runLoop') \in DOMAIN runLoop' /\ Len(runLoop') > i
        BY <1>0, <3>1
      <4> QED BY <4>1, <3>2, <1>0
    <3>3. CASE e # c
      <4>1. phase[e] # "running"
        BY <2>2, <3>3 DEF TypeOK, EndComposing
      <4>2. PICK j \in DOMAIN runLoop : j > i /\ runLoop[j] = <<"finish", e>>
        BY <3>1, <4>1 DEF StartsAreLive
      <4>3. j \in DOMAIN runLoop' /\ runLoop'[j] = <<"finish", e>>
        BY <1>0, <4>2
      <4> QED BY <4>2, <4>3
    <3> QED BY <3>2, <3>3
  <2> QED BY <2>1, <2>2 DEF StartsAreLive
<1>3. OneLoadPerURL'
  BY DEF TypeOK, EndComposing, OneLoadPerURL
<1>4. CurrentIsLive'
  BY <1>0 DEF TypeOK, EndComposing, CurrentIsLive
<1> QED BY <1>1, <1>2, <1>3, <1>4

\* taskWillStartProcessing: and taskDidFinishProcessing: preserve the invariant.
LEMMA ServeInv ==
  ASSUME Inv, Serve
  PROVE  Inv'
<1> USE TasksAssumption DEF Inv, Tasks
<1>0. /\ Len(runLoop) \in Nat \ {0}
      /\ Len(runLoop') = Len(runLoop) - 1
      /\ DOMAIN runLoop = 1..Len(runLoop) /\ DOMAIN runLoop' = 1..Len(runLoop')
      /\ \A i \in DOMAIN runLoop' : runLoop'[i] = runLoop[i + 1]
      /\ Head(runLoop) = runLoop[1]
      /\ runLoop[1] \in {"start", "finish"} \X Composings
  BY DEF TypeOK, Serve
<1>t. PICK t \in Composings : runLoop[1][2] = t
  BY <1>0
<1>1. TypeOK'
  <2>1. runLoop' \in Seq({"start", "finish"} \X Composings)
    BY DEF TypeOK, Serve
  <2>2. CASE Started(t)
    BY <2>1, <2>2, <1>t DEF TypeOK, Serve, Started, InProgressWith
  <2>3. CASE Finish(t)
    BY <2>1, <2>3, <1>t DEF TypeOK, Serve, Finish, CurrentAfterFinish,
       RowsAfterFinish
  <2> QED BY <2>2, <2>3, <1>0, <1>t DEF Serve
<1>2. StartsAreLive'
  <2>1. \A d \in Downloads : (phase[d] = "running" => ident[d] \in urls)'
    BY DEF Serve, StartsAreLive
  <2>2. ASSUME NEW i \in DOMAIN runLoop', NEW c \in Composings,
               runLoop'[i] = <<"start", c>>, phase[c] # "running"
        PROVE  \E j \in DOMAIN runLoop' : j > i /\ runLoop'[j] = <<"finish", c>>
    <3>1. i + 1 \in DOMAIN runLoop /\ runLoop[i + 1] = <<"start", c>>
      BY <1>0, <2>2
    <3>2. PICK j \in DOMAIN runLoop : j > i + 1 /\ runLoop[j] = <<"finish", c>>
      BY <3>1, <2>2 DEF StartsAreLive
    <3>3. j - 1 \in DOMAIN runLoop' /\ j - 1 > i
          /\ runLoop'[j - 1] = <<"finish", c>>
      BY <1>0, <3>2
    <3> QED BY <3>3
  <2> QED BY <2>1, <2>2 DEF Serve, StartsAreLive
<1>3. OneLoadPerURL'
  BY DEF Serve, OneLoadPerURL
<1>4. CurrentIsLive'
  <2>1. CASE runLoop[1][1] = "finish"
    BY <2>1, <1>0 DEF Serve, Finish, CurrentAfterFinish, CurrentIsLive
  <2>2. CASE runLoop[1][1] = "start"
    <3>1. currentTask' = t /\ phase' = phase
      BY <2>2, <1>0, <1>t DEF Serve, Started
    <3>2. 1 \in DOMAIN runLoop /\ runLoop[1] = <<"start", t>>
      BY <2>2, <1>0, <1>t
    <3>3. CASE phase[t] = "running"
      BY <3>1, <3>3 DEF CurrentIsLive
    <3>4. CASE phase[t] # "running"
      <4>1. PICK j \in DOMAIN runLoop : j > 1 /\ runLoop[j] = <<"finish", t>>
        BY <3>2, <3>4, <1>t DEF StartsAreLive
      <4>2. j - 1 \in DOMAIN runLoop' /\ runLoop'[j - 1] = <<"finish", t>>
        BY <1>0, <4>1
      <4> QED BY <3>1, <4>2 DEF CurrentIsLive
    <3> QED BY <3>3, <3>4
  <2> QED BY <2>1, <2>2, <1>0
<1> QED BY <1>1, <1>2, <1>3, <1>4

\* The invariant holds in every reachable state.
THEOREM Invariance == Spec => []Inv
<1>1. Inv /\ [Next]_vars => Inv'
  <2> SUFFICES ASSUME Inv, [Next]_vars PROVE Inv'
    OBVIOUS
  <2>1. CASE \E d \in Downloads : StartDownload(d) \/ EndDownload(d)
    BY <2>1, StartDownloadInv, EndDownloadInv
  <2>2. CASE \E c \in Composings : StartComposing(c) \/ EndComposing(c)
    BY <2>2, StartComposingInv, EndComposingInv
  <2>3. CASE Serve
    BY <2>3, ServeInv
  <2>4. CASE UNCHANGED vars
    BY <2>4 DEF vars, Inv, TypeOK, StartsAreLive, OneLoadPerURL, CurrentIsLive
  <2> QED BY <2>1, <2>2, <2>3, <2>4 DEF Next
<1> QED BY InitInv, <1>1, PTL DEF Spec

\* Tasks, rows and notifications keep their types.
THEOREM TypeCorrect == Spec => []TypeOK
  BY Invariance, PTL DEF Inv

\* CMRNetGrobalLock lets one downloader at a time load a URL.
THEOREM LoadsAreExclusive == Spec => []OneLoadPerURL
  BY Invariance, PTL DEF Inv

\* The unretained m_currentTask never refers to a task whose finish is handled.
THEOREM CurrentTaskIsLive == Spec => []CurrentIsLive
  BY Invariance, PTL DEF Inv

-----------------------------------------------------------------------------
(* The manager stops observing a task when it handles its finish, so no      *)
(* notification of the task may be behind that finish.                       *)

FinishIsLast ==
  /\ ServedIsObserved
  /\ \A c \in Composings : phase[c] = "running" => c \in observed
  /\ \A i \in DOMAIN runLoop :
       /\ phase[runLoop[i][2]] \in {"running", "done"}
       /\ runLoop[i][1] = "finish" =>
            /\ phase[runLoop[i][2]] = "done"
            /\ \A j \in DOMAIN runLoop : runLoop[j][2] = runLoop[i][2] => j <= i

\* A notification posted behind the others, of a task that is observed and has
\* not posted its finish, keeps the order.
LEMMA PostedBehind ==
  ASSUME Inv, FinishIsLast, NEW c \in Composings, NEW kind \in {"start", "finish"},
         runLoop' = Append(runLoop, <<kind, c>>),
         phase[c] # "done", c \in observed',
         observed \subseteq observed',
         \A o \in Composings : o # c => phase'[o] = phase[o],
         phase'[c] = IF kind = "finish" THEN "done" ELSE "running"
  PROVE  FinishIsLast'
<1> USE TasksAssumption DEF Inv, Tasks
<1>0. /\ Len(runLoop') = Len(runLoop) + 1
      /\ DOMAIN runLoop = 1..Len(runLoop) /\ DOMAIN runLoop' = 1..Len(runLoop')
      /\ runLoop'[Len(runLoop')] = <<kind, c>>
      /\ \A i \in DOMAIN runLoop : runLoop'[i] = runLoop[i]
      /\ \A i \in DOMAIN runLoop : runLoop[i][2] \in Composings
      /\ Len(runLoop) \in Nat
  BY DEF TypeOK
<1>1. \A i \in DOMAIN runLoop' : i \in DOMAIN runLoop \/ i = Len(runLoop')
  BY <1>0
<1>2. ServedIsObserved'
  BY <1>0, <1>1 DEF FinishIsLast, ServedIsObserved
<1>3. \A o \in Composings : phase'[o] = "running" => o \in observed'
  BY DEF FinishIsLast
<1>4. ASSUME NEW i \in DOMAIN runLoop'
      PROVE  /\ phase'[runLoop'[i][2]] \in {"running", "done"}
             /\ runLoop'[i][1] = "finish" =>
                  /\ phase'[runLoop'[i][2]] = "done"
                  /\ \A j \in DOMAIN runLoop' :
                       runLoop'[j][2] = runLoop'[i][2] => j <= i
  <2>1. CASE i = Len(runLoop')
    BY <1>0, <2>1
  <2>2. CASE i \in DOMAIN runLoop
    BY <1>0, <1>1, <2>2 DEF FinishIsLast
  <2> QED BY <1>1, <2>1, <2>2
<1> QED BY <1>2, <1>3, <1>4 DEF FinishIsLast

\* Every step keeps the finish of a task behind its other notifications.
LEMMA FinishIsLastStep == Inv /\ FinishIsLast /\ [Next]_vars => FinishIsLast'
<1> SUFFICES ASSUME Inv, FinishIsLast, [Next]_vars PROVE FinishIsLast'
  OBVIOUS
<1> USE TasksAssumption DEF Inv, Tasks
<1>0. \A i \in DOMAIN runLoop : runLoop[i][2] \in Composings
  BY DEF TypeOK
<1>1. ASSUME NEW d \in Downloads, StartDownload(d) PROVE FinishIsLast'
  BY <1>0, <1>1 DEF StartDownload, FinishIsLast, ServedIsObserved, TypeOK
<1>2. ASSUME NEW d \in Downloads, EndDownload(d) PROVE FinishIsLast'
  BY <1>0, <1>2 DEF EndDownload, Finish, FinishIsLast, ServedIsObserved, TypeOK
<1>3. ASSUME NEW c \in Composings, StartComposing(c) PROVE FinishIsLast'
  <2>1. /\ phase'[c] = "running" /\ observed' = observed \cup {c}
        /\ phase[c] # "done" /\ runLoop' = Append(runLoop, <<"start", c>>)
        /\ \A o \in Composings : o # c => phase'[o] = phase[o]
    BY <1>3 DEF StartComposing, TypeOK
  <2> QED BY <2>1, PostedBehind
<1>4. ASSUME NEW c \in Composings, EndComposing(c) PROVE FinishIsLast'
  <2>1. /\ phase'[c] = "done" /\ observed' = observed /\ c \in observed
        /\ phase[c] # "done" /\ runLoop' = Append(runLoop, <<"finish", c>>)
        /\ \A o \in Composings : o # c => phase'[o] = phase[o]
    BY <1>4 DEF EndComposing, WithFinish, FinishIsLast, TypeOK
  <2> QED BY <2>1, PostedBehind
<1>5. CASE Serve
  <2>0. /\ Len(runLoop) \in Nat \ {0}
        /\ Len(runLoop') = Len(runLoop) - 1
        /\ DOMAIN runLoop = 1..Len(runLoop) /\ DOMAIN runLoop' = 1..Len(runLoop')
        /\ \A i \in DOMAIN runLoop' : runLoop'[i] = runLoop[i + 1]
        /\ Head(runLoop) = runLoop[1]
        /\ runLoop[1] \in {"start", "finish"} \X Composings
    BY <1>5 DEF TypeOK, Serve
  <2>1. \A i \in DOMAIN runLoop' : i + 1 \in DOMAIN runLoop
    BY <2>0
  <2>2. CASE runLoop[1][1] = "start"
    <3>1. UNCHANGED <<observed, phase>>
      BY <1>5, <2>0, <2>2 DEF Serve, Started
    <3> QED BY <2>0, <2>1, <3>1 DEF FinishIsLast, ServedIsObserved
  <2>3. CASE runLoop[1][1] = "finish"
    <3> DEFINE t == runLoop[1][2]
    <3>1. observed' = observed \ {t} /\ phase' = phase
      BY <1>5, <2>0, <2>3 DEF Serve, Finish
    <3>2. phase[t] = "done" /\ \A i \in DOMAIN runLoop' : runLoop'[i][2] # t
      BY <2>0, <2>1, <2>3 DEF FinishIsLast
    <3> HIDE DEF t
    <3> QED BY <2>0, <2>1, <3>1, <3>2 DEF FinishIsLast, ServedIsObserved
  <2> QED BY <2>0, <2>2, <2>3
<1>6. CASE UNCHANGED vars
  BY <1>6 DEF vars, FinishIsLast, ServedIsObserved
<1> QED BY <1>1, <1>2, <1>3, <1>4, <1>5, <1>6 DEF Next

\* Every notification of a composing task reaches the manager: none is on its
\* way when taskDidFinishProcessing: ends the observation.
THEOREM NotificationsArrive == Spec => []ServedIsObserved
<1>1. Init => FinishIsLast
  BY TasksAssumption DEF Init, FinishIsLast, ServedIsObserved, Tasks
<1>2. FinishIsLast => ServedIsObserved
  BY DEF FinishIsLast
<1> QED BY <1>1, <1>2, FinishIsLastStep, Invariance, PTL DEF Spec
=============================================================================
