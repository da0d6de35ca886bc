---------------------------- MODULE MessageRanges ----------------------------
(***************************************************************************)
(* The text of a thread and the range of each message in it                *)
(* (application/source/thread/CMRThreadLayout.m and                        *)
(* CMRThreadLayout-MessageRange.m): the edits that run on the main thread, *)
(* as operators on a page                                                  *)
(*   text      the text storage, a sequence of marks: the message a        *)
(*             character belongs to, Header or Ellipsis                    *)
(*   ranges    _messageRanges, [location, length] per laid out message     *)
(*   messages  _messageBuffer, [hidden, form] per message                  *)
(*   raised    a range exception or an assertion cut an edit short: outside*)
(*             of the section that holds _messagesLock or, locked, inside  *)
(* Messages are numbered from 1, locations count from 0 as in the code.    *)
(* A definition without a comment is a faulty variant of the next          *)
(* commented one, which some property catches.                             *)
(***************************************************************************)
EXTENDS Integers, Sequences, SequencesExt, FiniteSetsExt

CONSTANTS
  EllipsisLength,   \* characters of the ellipsis attachment line
  PerOnTheFly       \* numberOfMessagesPerOnTheFly

ASSUME PageAssumption ==
  /\ EllipsisLength \in Nat \ {0}
  /\ PerOnTheFly \in Nat \ {0}

Header   == 0
Ellipsis == -1

Forms == {"shown", "local", "aboned"}
Message == [hidden : BOOLEAN, form : Forms]

EmptyPage == [text |-> <<>>, ranges |-> <<>>, messages |-> <<>>,
              raised |-> "no"]

\* composeThreadMessage: of message i.  Messages with CMRInvisibleMask give
\* nothing, local abone replaces the text by a shorter one.
Composed(i, m) ==
  LET width == IF m.hidden \/ m.form = "aboned" THEN 0
               ELSE IF m.form = "local" THEN 1 ELSE 2
  IN  [k \in 1..width |-> i]

Marks(mark, n) == [k \in 1..n |-> mark]
MaxRange(r) == r.location + r.length

\* -[NSMutableAttributedString replaceCharactersInRange:...]
Replace(text, location, length, new) ==
  SubSeq(text, 1, location) \o new \o
  SubSeq(text, location + length + 1, Len(text))

AllSlide(r, fromLocation) == TRUE

SlidesAfter(r, fromLocation) == r.location > fromLocation

\* The comparison of slideMessageRanges:fromLocation:.
Slides(r, fromLocation) == r.location >= fromLocation

\* slideMessageRanges:fromLocation:
Slide(ranges, change, fromLocation) ==
  [k \in DOMAIN ranges |->
     IF Slides(ranges[k], fromLocation)
     THEN [ranges[k] EXCEPT !.location = @ + change]
     ELSE ranges[k]]

-----------------------------------------------------------------------------
(* updateMessageAtIndex: *)

\* isVisible
IsVisible(m) == ~m.hidden /\ m.form # "aboned"

\* mesRange_.length += changeInLength_
Resized(range, change) == [range EXCEPT !.length = @ + change]

InsertOnly(r) == 0

\* The characters that the new text replaces.
Replaced(r) == r.length

\* updateMessageAtIndex:, called for a message whose attributes changed.  The
\* text of the range is replaced by what the composer makes of the message
\* now, and the messages behind it slide.
UpdateMessage(p, i) ==
  LET m      == p.messages[i]
      r      == p.ranges[i]
      new    == IF IsVisible(m) THEN Composed(i, m) ELSE <<>>
      change == Len(new) - r.length
      slid   == Slide(p.ranges, change, r.location + 1)
  IN  IF i > Len(p.ranges) THEN p
      ELSE IF MaxRange(r) > Len(p.text) THEN [p EXCEPT !.raised = "locked"]
      ELSE [p EXCEPT
              !.text = Replace(@, r.location, Replaced(r), new),
              !.ranges = IF change = 0 THEN @
                         ELSE [slid EXCEPT ![i] = Resized(r, change)]]

-----------------------------------------------------------------------------
(* Ellipsis attachments *)

\* The maximal runs of a mark, in order, as ranges.
Runs(text, mark) ==
  LET starts == {k \in DOMAIN text :
                   text[k] = mark /\ (k = 1 \/ text[k - 1] # mark)}
      length(k) == Min({n \in 0..Len(text) :
                          k + n > Len(text) \/ text[k + n] # mark})
  IN  SetToSortSeq({[location |-> k - 1, length |-> length(k)] : k \in starts},
                   LAMBDA a, b : a.location < b.location)

\* One turn of removeEllipsisProxyAttachments: the run is found at its place
\* in the text from which the earlier runs are already gone.
RemoveRun(acc, run) ==
  [gone   |-> acc.gone + run.length,
   ranges |-> Slide(acc.ranges, -run.length, MaxRange(run) - acc.gone)]

\* removeEllipsisProxyAttachments
RemoveEllipsis(p) ==
  [p EXCEPT
     !.text = SelectSeq(@, LAMBDA c : c # Ellipsis),
     !.ranges = FoldLeft(RemoveRun, [gone |-> 0, ranges |-> @],
                         Runs(p.text, Ellipsis)).ranges]

BehindNext(range) == range.location + 1

\* Where the attachment of a hidden run goes: the place of its first message.
EllipsisLocation(range) == range.location

\* insertEllipsisProxyAttachmentFrom:toIndex:
InsertEllipsis(p, from) ==
  LET at == EllipsisLocation(p.ranges[from])
  IN  IF p.raised # "no" \/ from > Len(p.ranges) \/ at > Len(p.text)
      THEN [p EXCEPT !.raised = "outside"]
      ELSE [p EXCEPT !.text = Replace(@, at, 0, Marks(Ellipsis, EllipsisLength)),
                     !.ranges = Slide(@, EllipsisLength, at)]

\* fixEllipsisProxyAttachment: one attachment before each maximal run of
\* temporarily invisible messages, of the buffer and not only of the laid ones.
FixEllipsis(p) ==
  LET starts == {i \in DOMAIN p.messages :
                   /\ p.messages[i].hidden
                   /\ i = 1 \/ ~p.messages[i - 1].hidden}
  IN  FoldLeft(InsertEllipsis, RemoveEllipsis(p), SetToSortSeq(starts, <))

-----------------------------------------------------------------------------
(* ensureMessageToBeVisibleAtIndex:effectsLongest: *)

\* The first message to show: the scan upwards.
FirstShown(p, i, longest) ==
  Max({1} \cup {j + 1 : j \in {k \in 1..i : ~p.messages[k].hidden}}
          \cup (IF longest THEN {} ELSE {i - PerOnTheFly + 1}))

\* The last message to show: the scan downwards, over the laid messages.
LastShown(p, i, longest) ==
  Min({Len(p.ranges)}
      \cup {j - 1 : j \in {k \in i..Len(p.ranges) : ~p.messages[k].hidden}}
      \cup (IF longest THEN {} ELSE {i + PerOnTheFly - 1}))

NotMoved(range, length) == range

\* The correction of the messages behind the shown ones.
Moved(range, length) == [range EXCEPT !.location = @ + length]

\* ensureMessageToBeVisibleAtIndex:effectsLongest:
EnsureVisible(p, i, longest) ==
  LET st  == FirstShown(p, i, longest)
      lst == LastShown(p, i, longest)
      shown == [k \in DOMAIN p.messages |->
                  IF k \in st..lst THEN [p.messages[k] EXCEPT !.hidden = FALSE]
                  ELSE p.messages[k]]
      composed(j) == FlattenSeq([k \in 1..(j - st + 1) |->
                                   Composed(st + k - 1, shown[st + k - 1])])
      at  == p.ranges[st].location
      rng == [k \in DOMAIN p.ranges |->
                IF k \in st..lst
                THEN [location |-> at + Len(composed(k - 1)),
                      length |-> Len(Composed(k, shown[k]))]
                ELSE IF k > lst THEN Moved(p.ranges[k], Len(composed(lst)))
                ELSE p.ranges[k]]
  IN  IF i > Len(p.ranges) \/ ~p.messages[i].hidden THEN p
      ELSE IF at > Len(p.text) THEN [p EXCEPT !.raised = "outside"]
      ELSE FixEllipsis([p EXCEPT !.messages = shown, !.ranges = rng,
                                 !.text = Replace(@, at, 0, composed(lst))])

-----------------------------------------------------------------------------
(* The header of newly arrived messages *)

\* The slide of clearLastUpdatedHeader.
HeaderSlide(p, run) == Slide(p.ranges, -run.length, MaxRange(run))

\* clearLastUpdatedHeader: the first header of the text goes.
ClearHeader(p) ==
  LET runs == Runs(p.text, Header)
  IN  IF runs = <<>> THEN p
      ELSE [p EXCEPT !.ranges = HeaderSlide(p, Head(runs)),
                     !.text = Replace(@, Head(runs).location,
                                      Head(runs).length, <<>>)]

\* appendLastUpdatedHeader
AppendHeader(p) == [p EXCEPT !.text = @ \o <<Header>>]
=============================================================================
