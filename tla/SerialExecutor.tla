---------------------------- MODULE SerialExecutor ----------------------------
(***************************************************************************)
(* What a worker context promises to the code that pushes works on it,     *)
(* without its locks: works are begun one at a time and in the order they  *)
(* were submitted, a discarded work is never begun, and nothing is begun   *)
(* twice.  WorkerContext implements this specification.                    *)
(***************************************************************************)
EXTENDS Sequences

CONSTANTS Item, None

VARIABLES
  pending,    \* submitted and not begun, in order
  current     \* the work in hand, or None

vars == <<pending, current>>

Init ==
  /\ pending = <<>>
  /\ current = None

Submit(w) ==
  /\ pending' = Append(pending, w)
  /\ UNCHANGED current

Begin ==
  /\ current = None
  /\ pending # <<>>
  /\ current' = Head(pending)
  /\ pending' = Tail(pending)

Finish ==
  /\ current # None
  /\ current' = None
  /\ UNCHANGED pending

Discard ==
  /\ pending' = <<>>
  /\ UNCHANGED current

Next ==
  \/ \E w \in Item : Submit(w)
  \/ Begin
  \/ Finish
  \/ Discard

Spec == Init /\ [][Next]_vars
=============================================================================
