--------------------------- MODULE SQLiteDBProofs ---------------------------
(***************************************************************************)
(* Proofs, for any number of threads, procedures and retries, that a       *)
(* thread leaves nothing behind on the database file between two           *)
(* procedures (ThreadsRestClean), that a transaction of two changes is     *)
(* stored whole or not at all (AppendIsAtomic) and that a procedure's      *)
(* answer tells what became of its changes (AnswersAreTrue).               *)
(*                                                                         *)
(* RestsClean is about idle threads; it needs what holds on the way: which *)
(* statements may be left (Shape), which locks and changes SQLite has in   *)
(* and out of a transaction (Locked), and how _transaction and autoCommit  *)
(* follow the statements (Flagged).  AllOrNothing needs in addition where  *)
(* a transaction can be with only one of the changes made (Mine).          *)
(* ResultIsTrue needs who a pending change belongs to: the procedure that  *)
(* runs, whose answer is open, or one that has answered YES (Owned).       *)
(***************************************************************************)
EXTENDS SQLiteDB

Block == {"append", "updateDB", "resetNewStatus"}

\* What may be left of a transaction, and of a procedure without one.
BlockLefts ==
  { <<"begin", "write", "write", "commit">>, <<"write", "write", "commit">>,
    <<"write", "commit">>, <<"commit">>, <<"rollback">>,
    <<"begin", "read", "write", "write", "commit">>,
    <<"read", "write", "write", "commit">> }
SingleLefts == { <<"read">>, <<"write">> }

ConnType ==
  [ proc : Procedures \cup {"none"}, run : Nat,
    left : BlockLefts \cup SingleLefts \cup {<<>>},
    at : {"idle", "ready", "load", "step", "locked", "run", "spill", "halt"},
    busy : Nat, flag : BOOLEAN, auto : BOOLEAN,
    trans : {"none", "read", "write"}, schema : BOOLEAN,
    todo : SUBSET (Nat \X Nat), marred : BOOLEAN ]

Typed == conn \in [Conns -> ConnType] /\ held \in [Conns -> Levels]

\* The statements left belong to the procedure and fit the point it is at.
Shape(c) ==
  /\ c.at = "idle" <=> c.left = <<>>
  /\ c.at = "idle" <=> c.proc = "none"
  /\ c.proc \in {"query", "register"} => c.left \in SingleLefts
  /\ c.proc \in Block => c.left \in BlockLefts
  /\ c.at \in {"load", "step", "locked"} => Head(c.left) \in {"read", "write"}
  /\ c.at \in {"run", "spill"} => Head(c.left) = "write"
  /\ c.at = "halt" => \/ Head(c.left) = "write" /\ c.auto
                      \/ Head(c.left) = "commit" /\ ~c.auto

\* Only a write transaction has changes, only a transaction or a statement in
\* progress has a lock.
Locked(c, level) ==
  /\ c.trans # "write" => c.todo = {}
  /\ level = NO_LOCK => c.trans = "none"
  /\ c.at \in {"run", "spill"} => c.trans = "write"
  /\ c.at = "load" => c.trans = "none" /\ level # NO_LOCK
  /\ c.at = "locked" => level # NO_LOCK
  /\ c.auto /\ c.at \in {"idle", "ready", "step"} => level = NO_LOCK
  /\ c.auto /\ c.at = "locked" => c.trans = "none"
  /\ c.auto /\ c.at = "halt" => c.trans = "write"
  /\ c.auto /\ c.at \in {"run", "spill"} => level # EXCLUSIVE_LOCK

\* Outside of BEGIN and COMMIT the flag is clear and SQLite is in autocommit
\* mode; COMMIT clears the flag before it waits for its lock.
Flagged(c) ==
  ~c.marred =>
    /\ c.at = "idle" \/ c.proc \in {"query", "register"} \/ Head(c.left) = "begin"
         => ~c.flag /\ c.auto
    /\ c.at = "halt" => ~c.flag \/ Head(c.left) # "commit"

Inv ==
  /\ Typed
  /\ \A t \in Conns : Shape(conn[t]) /\ Locked(conn[t], held[t]) /\ Flagged(conn[t])

-----------------------------------------------------------------------------
USE DEF NO_LOCK, SHARED_LOCK, RESERVED_LOCK, PENDING_LOCK, EXCLUSIVE_LOCK,
        Levels, Others

\* The statements that follow each one.
LEMMA LeftFacts ==
  /\ \A s \in BlockLefts : s # <<>> /\ Head(s) \in {"begin", "read", "write", "commit", "rollback"}
  /\ \A s \in BlockLefts : Head(s) \in {"begin", "read", "write"}
       => Tail(s) \in BlockLefts /\ Head(Tail(s)) # "begin"
  /\ \A s \in BlockLefts : Head(s) \in {"commit", "rollback"} => Tail(s) = <<>>
  /\ \A s \in SingleLefts : s # <<>> /\ Head(s) \in {"read", "write"} /\ Tail(s) = <<>>
  /\ \A s \in BlockLefts \cup SingleLefts : Len(s) \in Nat
  /\ <<"commit">> \in BlockLefts /\ Head(<<"commit">>) = "commit"
  /\ <<"rollback">> \in BlockLefts /\ Head(<<"rollback">>) = "rollback"
<1>a. Tail(<<"begin", "write", "write", "commit">>) = <<"write", "write", "commit">>
  OBVIOUS
<1>b. Tail(<<"write", "write", "commit">>) = <<"write", "commit">>
  OBVIOUS
<1>c. Tail(<<"write", "commit">>) = <<"commit">>
  OBVIOUS
<1>d. Tail(<<"commit">>) = <<>> /\ Tail(<<"rollback">>) = <<>>
  OBVIOUS
<1>e. Tail(<<"begin", "read", "write", "write", "commit">>)
        = <<"read", "write", "write", "commit">>
  OBVIOUS
<1>f. Tail(<<"read", "write", "write", "commit">>) = <<"write", "write", "commit">>
  OBVIOUS
<1>g. Tail(<<"read">>) = <<>> /\ Tail(<<"write">>) = <<>>
  OBVIOUS
<1>h. /\ Head(<<"begin", "write", "write", "commit">>) = "begin"
      /\ Head(<<"begin", "read", "write", "write", "commit">>) = "begin"
      /\ Head(<<"read", "write", "write", "commit">>) = "read" /\ Head(<<"read">>) = "read"
      /\ Head(<<"write", "write", "commit">>) = "write" /\ Head(<<"write">>) = "write"
      /\ Head(<<"write", "commit">>) = "write" /\ Head(<<"commit">>) = "commit"
      /\ Head(<<"rollback">>) = "rollback"
      /\ <<"read">> # <<>> /\ <<"write">> # <<>>
  OBVIOUS
<1>1. \A s \in BlockLefts : s # <<>> /\ Head(s) \in {"begin", "read", "write", "commit", "rollback"}
  BY DEF BlockLefts
<1>2. \A s \in BlockLefts : Head(s) \in {"begin", "read", "write"}
       => Tail(s) \in BlockLefts /\ Head(Tail(s)) # "begin"
  BY <1>a, <1>b, <1>c, <1>e, <1>f, <1>h, Zenon DEF BlockLefts
<1>3. \A s \in BlockLefts : Head(s) \in {"commit", "rollback"} => Tail(s) = <<>>
  BY <1>d, <1>h, Zenon DEF BlockLefts
<1>4. \A s \in SingleLefts : s # <<>> /\ Head(s) \in {"read", "write"} /\ Tail(s) = <<>>
  BY <1>g, <1>h, Zenon DEF SingleLefts
<1>5. \A s \in BlockLefts \cup SingleLefts : Len(s) \in Nat
  BY DEF BlockLefts, SingleLefts
<1>6. /\ <<"commit">> \in BlockLefts /\ Head(<<"commit">>) = "commit"
      /\ <<"rollback">> \in BlockLefts /\ Head(<<"rollback">>) = "rollback"
  BY DEF BlockLefts
<1> QED BY <1>1, <1>2, <1>3, <1>4, <1>5, <1>6, Zenon

\* A step of one thread leaves the other threads as they are.
LEMMA OneThread ==
  ASSUME Inv, NEW t \in Conns, NEW c \in ConnType, NEW level \in Levels,
         conn' = [conn EXCEPT ![t] = c], held' = [held EXCEPT ![t] = level],
         Shape(c), Locked(c, level), Flagged(c)
  PROVE  Inv'
<1>1. Typed'
  BY DEF Inv, Typed
<1>2. \A u \in Conns : conn'[u] = (IF u = t THEN c ELSE conn[u])
                       /\ held'[u] = (IF u = t THEN level ELSE held[u])
  BY DEF Inv, Typed
<1>3. ASSUME NEW u \in Conns
      PROVE  Shape(conn'[u]) /\ Locked(conn'[u], held'[u]) /\ Flagged(conn'[u])
  <2>1. CASE u = t
    BY <1>2, <2>1
  <2>2. CASE u # t
    BY <1>2, <2>2 DEF Inv
  <2> QED BY <2>1, <2>2
<1> QED BY <1>1, <1>3 DEF Inv

\* The connection after Finish.
Done(c, rest) ==
  IF rest = <<>>
  THEN [c EXCEPT !.left = <<>>, !.at = "idle", !.proc = "none", !.run = 0, !.busy = 0]
  ELSE [c EXCEPT !.left = rest, !.at = "ready", !.busy = 0]

\* What a connection must be like for its procedure to go on with `rest'.
LEMMA DoneInv ==
  ASSUME NEW c \in ConnType, NEW level \in Levels, NEW rest,
         c.trans # "write" => c.todo = {},
         level = NO_LOCK => c.trans = "none",
         c.auto => level = NO_LOCK,
         rest # <<>> => rest \in BlockLefts /\ c.proc \in Block /\ Head(rest) # "begin",
         rest = <<>> /\ ~c.marred => ~c.flag /\ c.auto
  PROVE  /\ Done(c, rest) \in ConnType
         /\ Shape(Done(c, rest)) /\ Locked(Done(c, rest), level) /\ Flagged(Done(c, rest))
<1> DEFINE d == Done(c, rest)
<1>1. CASE rest = <<>>
  <2>1. /\ d.left = <<>> /\ d.at = "idle" /\ d.proc = "none" /\ d.flag = c.flag
        /\ d.auto = c.auto /\ d.trans = c.trans /\ d.todo = c.todo /\ d.marred = c.marred
        /\ d \in ConnType
    BY <1>1, Zenon DEF Done, ConnType
  <2> QED BY <1>1, <2>1 DEF Shape, Locked, Flagged, Block
<1>2. CASE rest # <<>>
  <2>1. /\ d.left = rest /\ d.at = "ready" /\ d.proc = c.proc /\ d.flag = c.flag
        /\ d.auto = c.auto /\ d.trans = c.trans /\ d.todo = c.todo /\ d.marred = c.marred
        /\ d \in ConnType
    BY <1>2, Zenon DEF Done, ConnType
  <2> QED BY <1>2, <2>1 DEF Shape, Locked, Flagged, Block
<1> QED BY <1>1, <1>2

\* What each lock operation leaves of a thread's own lock.
LEMMA LockForms ==
  ASSUME Typed, NEW t \in Conns
  PROVE  /\ Keep => held' = [held EXCEPT ![t] = held[t]]
         /\ UnlockAll(t) => held' = [held EXCEPT ![t] = NO_LOCK]
BY DEF Typed, Keep, lockVars, UnlockAll, Unlock

\* A statement that succeeds, with `c' the connection it leaves.
LEMMA SucceedInv ==
  ASSUME Inv, NEW t \in Conns, NEW c \in ConnType, NEW level \in Levels,
         Succeed(t, c), held' = [held EXCEPT ![t] = level],
         conn[t].at # "idle", Head(c.left) # "begin",
         c.left = conn[t].left, c.proc = conn[t].proc,
         c.trans # "write" => c.todo = {},
         level = NO_LOCK => c.trans = "none",
         c.auto => level = NO_LOCK,
         c.proc \in {"query", "register"} \/ Head(c.left) \in {"commit", "rollback"}
           => c.marred \/ (~c.flag /\ c.auto)
  PROVE  Inv'
<1>1. conn' = [conn EXCEPT ![t] = Done(c, Tail(c.left))]
  BY DEF Succeed, Finish, Done
<1>2. Shape(conn[t]) /\ conn[t] \in ConnType
  BY DEF Inv, Typed
<1>3. \/ c.proc \in {"query", "register"} /\ c.left \in SingleLefts
      \/ c.proc \in Block /\ c.left \in BlockLefts
  BY <1>2 DEF Shape, ConnType, Procedures, Block
<1>4. Tail(c.left) # <<>> =>
        Tail(c.left) \in BlockLefts /\ c.proc \in Block /\ Head(Tail(c.left)) # "begin"
  BY <1>3, LeftFacts, SMTT(30)
<1>5. Tail(c.left) = <<>> => c.proc \in {"query", "register"}
                              \/ Head(c.left) \in {"commit", "rollback"}
  BY <1>3, LeftFacts, Zenon
<1>6. /\ Done(c, Tail(c.left)) \in ConnType /\ Shape(Done(c, Tail(c.left)))
      /\ Locked(Done(c, Tail(c.left)), level) /\ Flagged(Done(c, Tail(c.left)))
  BY <1>4, <1>5, DoneInv, Zenon
<1> QED BY <1>1, <1>6, OneThread, Zenon

\* A statement that fails.
LEMMA FailInv ==
  ASSUME Inv, NEW t \in Conns, NEW c \in ConnType, NEW level \in Levels,
         Fail(t, c), held' = [held EXCEPT ![t] = level],
         Head(c.left) \in {"read", "write"}, conn[t].at # "idle",
         c.left = conn[t].left, c.proc = conn[t].proc,
         c.trans # "write" => c.todo = {},
         level = NO_LOCK => c.trans = "none",
         c.auto => level = NO_LOCK,
         c.proc \in {"query", "register"} => c.marred \/ (~c.flag /\ c.auto)
  PROVE  Inv'
<1> DEFINE rest == AfterFailure(c.proc, Tail(c.left))
<1>1. conn' = [conn EXCEPT ![t] = Done(c, rest)]
  BY DEF Fail, Finish, Done
<1>2. Shape(conn[t]) /\ conn[t] \in ConnType
  BY DEF Inv, Typed
<1>3. \/ c.proc \in {"query", "register"} /\ c.left \in SingleLefts
      \/ c.proc \in Block /\ c.left \in BlockLefts
  BY <1>2 DEF Shape, ConnType, Procedures, Block
<1>4. CASE c.proc \in {"query", "register"} /\ c.left \in SingleLefts
  <2>1. rest = <<>>
    BY <1>4, LeftFacts DEF AfterFailure
  <2>2. /\ Done(c, rest) \in ConnType /\ Shape(Done(c, rest))
        /\ Locked(Done(c, rest), level) /\ Flagged(Done(c, rest))
    BY <1>4, <2>1, DoneInv
  <2> QED BY <1>1, <2>2, OneThread, Zenon
<1>5. CASE c.proc \in Block /\ c.left \in BlockLefts
  <2>1. rest \in {<<"rollback">>, <<"commit">>, Tail(c.left)}
    BY DEF AfterFailure
  <2>2. rest \in BlockLefts /\ Head(rest) # "begin" /\ rest # <<>>
    BY <1>5, <2>1, LeftFacts, Zenon
  <2>3. /\ Done(c, rest) \in ConnType /\ Shape(Done(c, rest))
        /\ Locked(Done(c, rest), level) /\ Flagged(Done(c, rest))
    BY <1>5, <2>2, DoneInv
  <2> QED BY <1>1, <2>3, OneThread, Zenon
<1> QED BY <1>3, <1>4, <1>5

\* The invariant at one thread.
LEMMA At ==
  ASSUME Inv, NEW t \in Conns
  PROVE  /\ conn[t] \in ConnType /\ held[t] \in Levels
         /\ Shape(conn[t]) /\ Locked(conn[t], held[t]) /\ Flagged(conn[t])
BY DEF Inv, Typed

\* A thread that only goes to another point of its statement.
LEMMA GotoInv ==
  ASSUME Inv, NEW t \in Conns, NEW level \in Levels,
         NEW p \in {"load", "step", "locked", "run", "spill"}, Goto(t, p),
         held' = [held EXCEPT ![t] = level], conn[t].at \notin {"idle", "halt"},
         \/ Head(conn[t].left) = "write"
         \/ Head(conn[t].left) = "read" /\ p \notin {"run", "spill"},
         Locked([conn[t] EXCEPT !.at = p], level)
  PROVE  Inv'
<1> DEFINE d == [conn[t] EXCEPT !.at = p]
<1>1. /\ d \in ConnType /\ d.at = p /\ d.left = conn[t].left /\ d.proc = conn[t].proc
      /\ d.flag = conn[t].flag /\ d.auto = conn[t].auto /\ d.marred = conn[t].marred
  BY At DEF ConnType
<1>2. conn' = [conn EXCEPT ![t] = d]
  BY DEF Goto
<1>3. Shape(d) /\ Flagged(d)
  BY <1>1, At DEF Shape, Flagged, Block
<1> HIDE DEF d
<1>4. Locked(d, level)
  BY DEF d
<1> QED BY <1>1, <1>2, <1>3, <1>4, OneThread, Zenon

-----------------------------------------------------------------------------
(* One lemma for each action.                                              *)

\* A connection just opened has nothing.
LEMMA InitInv == Init => Inv
<1> SUFFICES ASSUME Init PROVE Inv
  OBVIOUS
<1>1. Fresh \in ConnType
  BY DEF Fresh, ConnType
<1>2. Typed
  BY <1>1 DEF Init, LockInit, Typed
<1>3. ASSUME NEW t \in Conns
      PROVE  conn[t] = Fresh /\ held[t] = NO_LOCK
  BY DEF Init, LockInit
<1>4. Shape(Fresh) /\ Locked(Fresh, NO_LOCK) /\ Flagged(Fresh)
  BY DEF Fresh, Shape, Locked, Flagged, Block
<1> QED BY <1>2, <1>3, <1>4 DEF Inv

\* The end of a thread closes its connection.
LEMMA ExitInv ==
  ASSUME Inv, NEW t \in Conns, Exit(t)
  PROVE  Inv'
<1>1. Fresh \in ConnType
  BY DEF Fresh, ConnType
<1>2. Shape(Fresh) /\ Locked(Fresh, NO_LOCK) /\ Flagged(Fresh)
  BY DEF Fresh, Shape, Locked, Flagged, Block
<1>3. held' = [held EXCEPT ![t] = NO_LOCK]
  BY LockForms DEF Inv, Exit
<1>4. conn' = [conn EXCEPT ![t] = Fresh] /\ NO_LOCK \in Levels
  BY DEF Exit
<1> QED BY <1>1, <1>2, <1>3, <1>4, OneThread, Zenon

\* A procedure starts on a connection at rest.
LEMMA StartInv ==
  ASSUME Inv, NEW t \in Conns, NEW p \in Procedures, Start(t, p), Len(log) \in Nat
  PROVE  Inv'
<1> SUFFICES ASSUME NEW c \in ConnType, c = conn[t],
                    NEW n \in Nat, n = Len(log) + 1
             PROVE  Inv'
  BY At
<1> DEFINE d == [c EXCEPT !.proc = p, !.run = n, !.left = Script(p), !.at = "ready"]
<1>1. \/ p \in {"query", "register"} /\ Script(p) \in SingleLefts
      \/ p \in Block /\ Script(p) \in BlockLefts
  BY DEF Procedures, Script, QueryScript, RegisterScript, AppendScript,
         UpdateScript, ResetScript, Block, SingleLefts, BlockLefts
<1>2. /\ d \in ConnType /\ d.at = "ready" /\ d.proc = p /\ d.left = Script(p)
      /\ d.flag = c.flag /\ d.auto = c.auto /\ d.trans = c.trans
      /\ d.todo = c.todo /\ d.marred = c.marred
  BY <1>1, ZenonT(30) DEF ConnType
<1>3. conn' = [conn EXCEPT ![t] = d] /\ c.at = "idle"
  BY DEF Start
<1>4. held' = [held EXCEPT ![t] = held[t]]
  BY DEF Start, Inv, Typed
<1>5. Script(p) # <<>>
  BY <1>1, LeftFacts
<1> HIDE DEF d
<1>6. Shape(d)
  BY <1>1, <1>2, <1>5 DEF Shape, Block, Procedures
<1>7. Locked(d, held[t])
  BY <1>2, <1>3, At DEF Locked
<1>8. Flagged(d)
  BY <1>2, <1>3, At DEF Flagged
<1> QED BY <1>2, <1>3, <1>4, <1>6, <1>7, <1>8, At, OneThread, Zenon

\* BEGIN is refused only on a marred connection.
LEMMA BeginInv ==
  ASSUME Inv, NEW t \in Conns, beginTransaction(t)
  PROVE  Inv'
<1> SUFFICES ASSUME NEW c \in ConnType, c = conn[t] PROVE Inv'
  BY At
<1>1. c.at = "ready" /\ Head(c.left) = "begin" /\ Shape(c) /\ Locked(c, held[t]) /\ Flagged(c)
  BY At DEF beginTransaction, Op
<1>2. c.left \in BlockLefts /\ c.proc \in Block
  BY <1>1, LeftFacts DEF Shape, ConnType, Procedures, Block
<1>3. held' = [held EXCEPT ![t] = held[t]] /\ held[t] \in Levels
  BY At, LockForms DEF beginTransaction, Inv
<1>4. CASE ~c.flag /\ c.auto
  <2> DEFINE d == [c EXCEPT !.flag = TRUE, !.auto = FALSE]
  <2>1. /\ d \in ConnType /\ d.trans = c.trans /\ d.todo = c.todo /\ d.proc = c.proc
        /\ ~d.auto
    BY Zenon DEF ConnType
  <2>2. Tail(c.left) # <<>> /\ Tail(c.left) \in BlockLefts /\ Head(Tail(c.left)) # "begin"
    BY <1>1, <1>2, LeftFacts, Zenon
  <2>3. conn' = [conn EXCEPT ![t] = Done(d, Tail(c.left))]
    BY <1>4 DEF beginTransaction, Finish, Done
  <2> HIDE DEF d
  <2>4. c.trans # "write" => c.todo = {}
    BY <1>1 DEF Locked
  <2>5. held[t] = NO_LOCK => c.trans = "none"
    BY <1>1 DEF Locked
  <2>6. /\ Done(d, Tail(c.left)) \in ConnType /\ Shape(Done(d, Tail(c.left)))
        /\ Locked(Done(d, Tail(c.left)), held[t]) /\ Flagged(Done(d, Tail(c.left)))
    BY <1>2, <1>3, <2>1, <2>2, <2>4, <2>5, DoneInv, Zenon
  <2> QED BY <1>3, <2>3, <2>6, OneThread, Zenon
<1>5. CASE ~(~c.flag /\ c.auto)
  <2> DEFINE d == [c EXCEPT !.flag = TRUE]
  <2>1. /\ d \in ConnType /\ d.trans = c.trans /\ d.todo = c.todo
        /\ d.auto = c.auto /\ d.marred = c.marred
    BY Zenon DEF ConnType
  <2>2. conn' = [conn EXCEPT ![t] = Done(d, <<>>)]
    BY <1>5 DEF beginTransaction, Finish, Done
  <2> HIDE DEF d
  <2>3. c.marred
    BY <1>1, <1>5 DEF Flagged
  <2>4. /\ c.trans # "write" => c.todo = {}
        /\ held[t] = NO_LOCK => c.trans = "none"
        /\ c.auto => held[t] = NO_LOCK
    BY <1>1 DEF Locked
  <2>5. /\ Done(d, <<>>) \in ConnType /\ Shape(Done(d, <<>>))
        /\ Locked(Done(d, <<>>), held[t]) /\ Flagged(Done(d, <<>>))
    BY <1>3, <2>1, <2>3, <2>4, DoneInv, Zenon
  <2> QED BY <1>3, <2>2, <2>5, OneThread, Zenon
<1> QED BY <1>4, <1>5

\* ROLLBACK clears the flag and returns to autocommit.
LEMMA RollbackInv ==
  ASSUME Inv, NEW t \in Conns, rollbackTransaction(t)
  PROVE  Inv'
<1> SUFFICES ASSUME NEW c \in ConnType, c = conn[t] PROVE Inv'
  BY At
<1> DEFINE d == [c EXCEPT !.flag = FALSE, !.auto = TRUE, !.trans = "none", !.todo = {}]
<1>1. /\ d \in ConnType /\ d.trans = "none" /\ d.todo = {} /\ ~d.flag /\ d.auto
      /\ d.proc = c.proc /\ d.left = c.left
  BY ZenonT(30) DEF ConnType
<1>2. Succeed(t, d) /\ c.at = "ready" /\ Head(c.left) = "rollback"
  BY DEF rollbackTransaction, Op
<1>3. held' = [held EXCEPT ![t] = NO_LOCK] /\ NO_LOCK \in Levels
  BY LockForms DEF rollbackTransaction, Inv
<1> HIDE DEF d
<1> QED BY <1>1, <1>2, <1>3, SucceedInv, Zenon

\* COMMIT clears the flag before it waits for its lock.
LEMMA CommitInv ==
  ASSUME Inv, NEW t \in Conns, commitTransaction(t)
  PROVE  Inv'
<1> SUFFICES ASSUME NEW c \in ConnType, c = conn[t] PROVE Inv'
  BY At
<1> DEFINE d == [c EXCEPT !.flag = FALSE]
           e == [d EXCEPT !.at = "halt"]
<1>1. /\ d \in ConnType /\ d.trans = c.trans /\ d.todo = c.todo /\ ~d.flag
      /\ d.auto = c.auto /\ d.proc = c.proc /\ d.left = c.left
  BY Zenon DEF ConnType
<1>2. c.at = "ready" /\ Head(c.left) = "commit" /\ Shape(c) /\ Locked(c, held[t]) /\ Flagged(c)
  BY At DEF commitTransaction, Op
<1>3. held' = [held EXCEPT ![t] = held[t]] /\ held[t] \in Levels
  BY At, LockForms DEF commitTransaction, Inv
<1>4. CASE c.auto
  <2>1. Succeed(t, d)
    BY <1>4 DEF commitTransaction
  <2>2. /\ c.trans # "write" => c.todo = {}
        /\ held[t] = NO_LOCK => c.trans = "none"
        /\ held[t] = NO_LOCK
    BY <1>2, <1>4 DEF Locked
  <2> HIDE DEF d
  <2> QED BY <1>1, <1>2, <1>3, <1>4, <2>1, <2>2, SucceedInv, Zenon
<1>5. CASE ~c.auto
  <2>1. /\ e \in ConnType /\ e.trans = c.trans /\ e.todo = c.todo /\ ~e.flag
        /\ e.auto = c.auto /\ e.proc = c.proc /\ e.left = c.left /\ e.at = "halt"
        /\ e.marred = c.marred
    BY ZenonT(30) DEF ConnType
  <2>2. conn' = [conn EXCEPT ![t] = e]
    BY <1>5 DEF commitTransaction
  <2> HIDE DEF d, e
  <2>3. Shape(e) /\ Locked(e, held[t]) /\ Flagged(e)
    BY <1>2, <1>5, <2>1 DEF Shape, Locked, Flagged, Block
  <2> QED BY <1>3, <2>1, <2>2, <2>3, OneThread, Zenon
<1> QED BY <1>4, <1>5

\* A statement that is refused, with the lock it keeps.
LEMMA RefusedInv ==
  ASSUME Inv, NEW t \in Conns, Refused(t), NEW level \in Levels,
         held' = [held EXCEPT ![t] = level], conn[t].at \in {"step", "locked"},
         level = NO_LOCK => conn[t].trans = "none",
         conn[t].auto => level = NO_LOCK
  PROVE  Inv'
<1> SUFFICES ASSUME NEW c \in ConnType, c = conn[t] PROVE Inv'
  BY At
<1>1. Shape(c) /\ Locked(c, held[t]) /\ Flagged(c)
  BY At
<1>2. Head(c.left) \in {"read", "write"} /\ (c.trans # "write" => c.todo = {})
  BY <1>1 DEF Shape, Locked
<1>3. c.proc \in {"query", "register"} => c.marred \/ (~c.flag /\ c.auto)
  BY <1>1 DEF Flagged
<1>4. CASE GivesUp(c.busy)
  <2>1. Fail(t, c)
    BY <1>4 DEF Refused
  <2> QED BY <1>2, <1>3, <2>1, FailInv, Zenon
<1>5. CASE ~GivesUp(c.busy)
  <2> SUFFICES ASSUME NEW n \in Nat, n = Counted(c.busy) PROVE Inv'
    BY DEF ConnType, Counted
  <2> DEFINE d == [c EXCEPT !.busy = n, !.at = "step"]
  <2>1. /\ d \in ConnType /\ d.trans = c.trans /\ d.todo = c.todo /\ d.flag = c.flag
        /\ d.auto = c.auto /\ d.proc = c.proc /\ d.left = c.left /\ d.at = "step"
        /\ d.marred = c.marred
    BY Zenon DEF ConnType
  <2>2. conn' = [conn EXCEPT ![t] = d]
    BY <1>5 DEF Refused
  <2> HIDE DEF d
  <2>3. Shape(d)
    BY <1>1, <1>2, <2>1 DEF Shape
  <2>4. Locked(d, level)
    BY <1>2, <2>1 DEF Locked
  <2>5. Flagged(d)
    BY <1>1, <2>1 DEF Flagged
  <2> QED BY <2>1, <2>2, <2>3, <2>4, <2>5, OneThread, Zenon
<1> QED BY <1>4, <1>5

\* sqlite3_prepare may fail, or take a SHARED lock for the schema.
LEMMA PrepareInv ==
  ASSUME Inv, NEW t \in Conns, Prepare(t)
  PROVE  Inv'
<1> SUFFICES ASSUME NEW c \in ConnType, c = conn[t] PROVE Inv'
  BY At
<1>1. /\ c.at = "ready" /\ Head(c.left) \in {"read", "write"}
      /\ Locked(c, held[t]) /\ Flagged(c) /\ held[t] \in Levels
  BY At DEF Prepare, Statement, Op
<1>2. Keep => held' = [held EXCEPT ![t] = held[t]]
  BY LockForms, SMTT(30) DEF Inv
<1>3. CASE Goto(t, "step") /\ Keep
  <2>1. Locked([c EXCEPT !.at = "step"], held[t])
    BY <1>1 DEF Locked, ConnType
  <2> QED BY <1>1, <1>2, <1>3, <2>1, GotoInv, Zenon
<1>4. CASE Fail(t, c) /\ Keep
  <2>1. /\ c.trans # "write" => c.todo = {}
        /\ held[t] = NO_LOCK => c.trans = "none"
        /\ c.auto => held[t] = NO_LOCK
        /\ c.proc \in {"query", "register"} => c.marred \/ (~c.flag /\ c.auto)
    BY <1>1 DEF Locked, Flagged
  <2> QED BY <1>1, <1>2, <1>4, <2>1, FailInv
<1>5. CASE Goto(t, "load") /\ LockShared(t)
  <2>1. Locked([c EXCEPT !.at = "load"], SHARED_LOCK)
    BY <1>1, <1>5 DEF Locked, ConnType, LockShared
  <2>2. held' = [held EXCEPT ![t] = SHARED_LOCK] /\ SHARED_LOCK \in Levels
    BY <1>5 DEF LockShared
  <2> QED BY <1>1, <1>5, <2>1, <2>2, GotoInv, Zenon
<1> QED BY <1>3, <1>4, <1>5 DEF Prepare

\* In autocommit the schema is read without keeping the lock.
LEMMA LoadSchemaInv ==
  ASSUME Inv, NEW t \in Conns, LoadSchema(t)
  PROVE  Inv'
<1> SUFFICES ASSUME NEW c \in ConnType, c = conn[t],
                    NEW tr \in {"none", "read"}, tr = IF c.auto THEN "none" ELSE "read",
                    NEW level \in Levels, level = IF c.auto THEN NO_LOCK ELSE held[t]
             PROVE  Inv'
  BY At
<1> DEFINE d == [c EXCEPT !.schema = TRUE, !.at = "step", !.trans = tr]
<1>1. c.at = "load" /\ Shape(c) /\ Locked(c, held[t]) /\ Flagged(c)
  BY At DEF LoadSchema
<1>2. /\ d \in ConnType /\ d.trans = tr /\ d.todo = c.todo /\ d.flag = c.flag
      /\ d.auto = c.auto /\ d.proc = c.proc /\ d.left = c.left /\ d.at = "step"
      /\ d.marred = c.marred
  BY ZenonT(30) DEF ConnType
<1>3. conn' = [conn EXCEPT ![t] = d]
  BY DEF LoadSchema
<1>4. held' = [held EXCEPT ![t] = level]
  BY LockForms DEF LoadSchema, Unlock, Inv
<1> HIDE DEF d
<1>5. Shape(d) /\ Flagged(d)
  BY <1>1, <1>2 DEF Shape, Flagged
<1>6. Locked(d, level)
  BY <1>1, <1>2 DEF Locked
<1> QED BY <1>2, <1>3, <1>4, <1>5, <1>6, OneThread, Zenon

\* The SHARED lock of a statement.
LEMMA StepSharedInv ==
  ASSUME Inv, NEW t \in Conns, StepShared(t)
  PROVE  Inv'
<1> SUFFICES ASSUME NEW c \in ConnType, c = conn[t] PROVE Inv'
  BY At
<1>1. /\ c.at = "step" /\ Head(c.left) \in {"read", "write"}
      /\ Locked(c, held[t]) /\ held[t] \in Levels
  BY At DEF StepShared, Shape
<1>2. Keep => held' = [held EXCEPT ![t] = held[t]]
  BY LockForms, SMTT(30) DEF Inv
<1>3. CASE held[t] # NO_LOCK /\ Goto(t, "locked") /\ Keep
  <2>1. Locked([c EXCEPT !.at = "locked"], held[t])
    BY <1>1, <1>3 DEF Locked, ConnType
  <2> QED BY <1>1, <1>2, <1>3, <2>1, GotoInv, Zenon
<1>4. CASE Refused(t) /\ Keep
  <2>1. /\ held[t] = NO_LOCK => c.trans = "none"
        /\ c.auto => held[t] = NO_LOCK
    BY <1>1 DEF Locked
  <2> QED BY <1>1, <1>2, <1>4, <2>1, RefusedInv
<1>5. CASE Goto(t, "locked") /\ LockShared(t)
  <2>1. Locked([c EXCEPT !.at = "locked"], SHARED_LOCK)
    BY <1>1, <1>5 DEF Locked, ConnType, LockShared
  <2>2. held' = [held EXCEPT ![t] = SHARED_LOCK] /\ SHARED_LOCK \in Levels
    BY <1>5 DEF LockShared
  <2> QED BY <1>1, <1>5, <2>1, <2>2, GotoInv, Zenon
<1> QED BY <1>3, <1>4, <1>5 DEF StepShared

\* Autocommit ends the transaction of a SELECT.
LEMMA StepReadInv ==
  ASSUME Inv, NEW t \in Conns, StepRead(t)
  PROVE  Inv'
<1> SUFFICES ASSUME NEW c \in ConnType, c = conn[t],
                    NEW tr \in {"none", "read", "write"},
                    tr = IF c.auto \/ c.trans = "write" THEN c.trans ELSE "read",
                    NEW level \in Levels, level = IF c.auto THEN NO_LOCK ELSE held[t]
             PROVE  Inv'
  BY At DEF ConnType
<1> DEFINE d == IF c.auto \/ c.trans = "write" THEN c ELSE [c EXCEPT !.trans = "read"]
<1>1. c.at = "locked" /\ Head(c.left) = "read" /\ Shape(c) /\ Locked(c, held[t]) /\ Flagged(c)
  BY At DEF StepRead, Op
<1>2. /\ d \in ConnType /\ d.trans = tr /\ d.todo = c.todo /\ d.flag = c.flag
      /\ d.auto = c.auto /\ d.proc = c.proc /\ d.left = c.left /\ d.marred = c.marred
  BY DEF ConnType
<1>3. held' = [held EXCEPT ![t] = level]
  BY LockForms DEF StepRead, Inv
<1>4. \/ Succeed(t, d)
      \/ c.proc = "resetNewStatus" /\ Finish(t, d, <<"commit">>, "yes")
  <2> DEFINE e == IF conn[t].auto \/ conn[t].trans = "write" THEN conn[t]
                                       ELSE [conn[t] EXCEPT !.trans = "read"]
  <2>1. \/ Succeed(t, e)
        \/ conn[t].proc = "resetNewStatus" /\ Finish(t, e, <<"commit">>, "yes")
    BY Zenon DEF StepRead
  <2>2. e = d
    OBVIOUS
  <2> HIDE DEF d, e
  <2> QED BY <2>1, <2>2, Zenon
<1> HIDE DEF d
<1>5. /\ d.trans # "write" => d.todo = {}
      /\ level = NO_LOCK => d.trans = "none"
      /\ d.auto => level = NO_LOCK
      /\ d.proc \in {"query", "register"} => d.marred \/ (~d.flag /\ d.auto)
  BY <1>1, <1>2, SMTT(30) DEF Locked, Flagged
<1>6. CASE Succeed(t, d)
  BY <1>1, <1>2, <1>3, <1>5, <1>6, SucceedInv, Zenon
<1>7. CASE c.proc = "resetNewStatus" /\ Finish(t, d, <<"commit">>, "yes")
  <2>1. conn' = [conn EXCEPT ![t] = Done(d, <<"commit">>)]
    BY <1>7, LeftFacts DEF Finish, Done
  <2>2. /\ Done(d, <<"commit">>) \in ConnType /\ Shape(Done(d, <<"commit">>))
        /\ Locked(Done(d, <<"commit">>), level) /\ Flagged(Done(d, <<"commit">>))
    BY <1>2, <1>5, <1>7, LeftFacts, DoneInv DEF Block
  <2> QED BY <1>3, <2>1, <2>2, OneThread, Zenon
<1> QED BY <1>4, <1>6, <1>7

\* The RESERVED lock of a statement.
LEMMA StepReserveInv ==
  ASSUME Inv, NEW t \in Conns, StepReserve(t)
  PROVE  Inv'
<1> SUFFICES ASSUME NEW c \in ConnType, c = conn[t] PROVE Inv'
  BY At
<1>1. /\ c.at = "locked" /\ Head(c.left) = "write" /\ held[t] \in Levels
      /\ Shape(c) /\ Locked(c, held[t]) /\ Flagged(c)
  BY At DEF StepReserve, Op
<1>2. Keep => held' = [held EXCEPT ![t] = held[t]]
  BY LockForms, SMTT(30) DEF Inv
<1>3. CASE c.trans = "write" /\ Goto(t, "run") /\ Keep
  <2>1. Locked([conn[t] EXCEPT !.at = "run"], held[t])
    <3>1. Locked([c EXCEPT !.at = "run"], held[t])
      BY <1>1, <1>3 DEF Locked, ConnType
    <3> QED BY <3>1
  <2>2. /\ Goto(t, "run") /\ held' = [held EXCEPT ![t] = held[t]] /\ held[t] \in Levels
        /\ conn[t].at \notin {"idle", "halt"} /\ Head(conn[t].left) = "write"
    BY <1>1, <1>2, <1>3
  <2>3. "run" \in {"load", "step", "locked", "run", "spill"}
    OBVIOUS
  <2> QED BY <2>1, <2>2, <2>3, GotoInv, Zenon
<1>4. CASE /\ conn' = [conn EXCEPT ![t] = [c EXCEPT !.at = "run", !.trans = "write"]]
           /\ LockReserved(t)
  <2> DEFINE d == [c EXCEPT !.at = "run", !.trans = "write"]
  <2>1. /\ d \in ConnType /\ d.trans = "write" /\ d.at = "run" /\ d.flag = c.flag
        /\ d.auto = c.auto /\ d.proc = c.proc /\ d.left = c.left /\ d.marred = c.marred
    BY Zenon DEF ConnType
  <2>2. held' = [held EXCEPT ![t] = RESERVED_LOCK] /\ RESERVED_LOCK \in Levels
    BY <1>4 DEF LockReserved
  <2>3. conn' = [conn EXCEPT ![t] = d]
    BY <1>4
  <2> HIDE DEF d
  <2>4. Shape(d) /\ Flagged(d)
    BY <1>1, <2>1 DEF Shape, Flagged
  <2>5. Locked(d, RESERVED_LOCK)
    BY <2>1 DEF Locked
  <2> QED BY <2>1, <2>2, <2>3, <2>4, <2>5, OneThread, Zenon
<1>5. CASE Refused(t) /\ (IF c.trans = "none" THEN UnlockAll(t) ELSE Keep)
  <2> SUFFICES ASSUME NEW level \in Levels,
                      level = IF c.trans = "none" THEN NO_LOCK ELSE held[t]
               PROVE  Inv'
    BY <1>1
  <2>1. held' = [held EXCEPT ![t] = level]
    BY <1>5, LockForms DEF Inv
  <2>2. /\ level = NO_LOCK => c.trans = "none"
        /\ c.auto => level = NO_LOCK
    BY <1>1 DEF Locked
  <2> QED BY <1>1, <1>5, <2>1, <2>2, RefusedInv, Zenon
<1> QED BY <1>3, <1>4, <1>5 DEF StepReserve

\* What Change leaves of a connection.
LEMMA ChangeFacts ==
  ASSUME NEW c \in ConnType, c.at # "idle", Shape(c)
  PROVE  /\ Change(c) \in ConnType /\ Change(c).trans = c.trans /\ Change(c).at = c.at
         /\ Change(c).flag = c.flag /\ Change(c).auto = c.auto
         /\ Change(c).proc = c.proc /\ Change(c).left = c.left
         /\ Change(c).marred = c.marred /\ Change(c).run = c.run
         /\ Change(c).todo = c.todo \cup {<<c.run, Len(c.left)>>}
<1>1. c.left \in BlockLefts \cup SingleLefts
  BY DEF Shape, ConnType
<1>2. <<c.run, Len(c.left)>> \in Nat \X Nat
  BY <1>1, LeftFacts DEF ConnType
<1> SUFFICES ASSUME NEW x \in SUBSET (Nat \X Nat),
                    x = c.todo \cup {<<c.run, Len(c.left)>>},
                    Change(c) = [c EXCEPT !.todo = x]
             PROVE  /\ Change(c) \in ConnType /\ Change(c).trans = c.trans
                    /\ Change(c).at = c.at
                    /\ Change(c).flag = c.flag /\ Change(c).auto = c.auto
                    /\ Change(c).proc = c.proc /\ Change(c).left = c.left
                    /\ Change(c).marred = c.marred /\ Change(c).run = c.run
                    /\ Change(c).todo = c.todo \cup {<<c.run, Len(c.left)>>}
  BY <1>2 DEF ConnType, Change
<1> QED BY DEF ConnType

\* A connection about to write out its single statement.
LEMMA ToHaltInv ==
  ASSUME Inv, NEW t \in Conns, NEW d \in ConnType, d.auto, d.trans = "write",
         d.at \in {"run", "spill"}, d.left = conn[t].left, d.proc = conn[t].proc,
         d.at = conn[t].at, d.flag = conn[t].flag, d.marred = conn[t].marred,
         d.auto = conn[t].auto, NEW level \in Levels, level # NO_LOCK,
         conn' = [conn EXCEPT ![t] = [d EXCEPT !.at = "halt"]],
         held' = [held EXCEPT ![t] = level]
  PROVE  Inv'
<1> DEFINE e == [d EXCEPT !.at = "halt"]
<1>1. /\ e \in ConnType /\ e.trans = "write" /\ e.at = "halt" /\ e.flag = d.flag
      /\ e.auto = d.auto /\ e.proc = d.proc /\ e.left = d.left /\ e.marred = d.marred
  BY Zenon DEF ConnType
<1>2. Shape(conn[t]) /\ Flagged(conn[t])
  BY At
<1> HIDE DEF e
<1>3. Shape(e) /\ Flagged(e)
  BY <1>1, <1>2 DEF Shape, Flagged
<1>4. Locked(e, level)
  BY <1>1 DEF Locked
<1> QED BY <1>1, <1>3, <1>4, OneThread, Zenon DEF e

\* A statement that runs is in a write transaction.
LEMMA StepRunInv ==
  ASSUME Inv, NEW t \in Conns, StepRun(t)
  PROVE  Inv'
<1> SUFFICES ASSUME NEW c \in ConnType, c = conn[t] PROVE Inv'
  BY At
<1>1. /\ c.at = "run" /\ held[t] \in Levels
      /\ Shape(c) /\ Locked(c, held[t]) /\ Flagged(c)
  BY At DEF StepRun
<1>2. Head(c.left) = "write" /\ c.trans = "write" /\ held[t] # NO_LOCK
  BY <1>1 DEF Shape, Locked
<1>3. held' = [held EXCEPT ![t] = held[t]]
  BY LockForms DEF StepRun, Inv
<1>4. CASE c.auto /\ conn' = [conn EXCEPT ![t] = [Change(c) EXCEPT !.at = "halt"]]
  BY <1>1, <1>2, <1>3, <1>4, ChangeFacts, ToHaltInv, Zenon
<1>5. CASE ~c.auto /\ Succeed(t, Change(c))
  <2>1. c.proc \in {"query", "register"} => c.marred
    BY <1>1, <1>5 DEF Flagged
  <2> QED BY <1>1, <1>2, <1>3, <1>5, <2>1, ChangeFacts, SucceedInv, ZenonT(30)
<1>6. CASE Goto(t, "spill")
  <2>1. Locked([c EXCEPT !.at = "spill"], held[t])
    BY <1>1, <1>2 DEF Locked, ConnType
  <2> QED BY <1>1, <1>2, <1>3, <1>6, <2>1, GotoInv, Zenon
<1> QED BY <1>4, <1>5, <1>6 DEF StepRun

\* The PENDING lock changes nothing else.
LEMMA PendInv ==
  ASSUME Inv, NEW t \in Conns, Pend(t)
  PROVE  Inv'
<1> SUFFICES ASSUME NEW c \in ConnType, c = conn[t] PROVE Inv'
  BY At
<1>1. c.at \in {"spill", "halt"} /\ Shape(c) /\ Locked(c, held[t]) /\ Flagged(c)
  BY At DEF Pend
<1>2. conn' = [conn EXCEPT ![t] = c]
  BY DEF Pend, Inv, Typed
<1>3. held' = [held EXCEPT ![t] = PENDING_LOCK] /\ PENDING_LOCK \in Levels
  BY DEF Pend, LockPending
<1>4. Locked(c, PENDING_LOCK)
  BY <1>1 DEF Locked
<1> QED BY <1>1, <1>2, <1>3, <1>4, OneThread, Zenon

\* A spilling statement keeps its transaction or loses all of it.
LEMMA StepSpillInv ==
  ASSUME Inv, NEW t \in Conns, StepSpill(t)
  PROVE  Inv'
<1> SUFFICES ASSUME NEW c \in ConnType, c = conn[t] PROVE Inv'
  BY At
<1> DEFINE whole == [c EXCEPT !.auto = TRUE, !.trans = "none", !.todo = {}]
<1>1. /\ c.at = "spill" /\ held[t] \in Levels
      /\ Shape(c) /\ Locked(c, held[t]) /\ Flagged(c)
  BY At DEF StepSpill
<1>2. Head(c.left) = "write" /\ c.trans = "write" /\ held[t] # NO_LOCK
  BY <1>1 DEF Shape, Locked
<1>3. c.proc \in {"query", "register"} => c.marred \/ (~c.flag /\ c.auto)
  BY <1>1 DEF Flagged
<1>4. LockExclusive(t) => held' = [held EXCEPT ![t] = EXCLUSIVE_LOCK]
  BY DEF LockExclusive
<1>5. CASE /\ LockExclusive(t) /\ c.auto
           /\ conn' = [conn EXCEPT ![t] = [Change(c) EXCEPT !.at = "halt"]]
  <2>1. EXCLUSIVE_LOCK \in Levels /\ EXCLUSIVE_LOCK # NO_LOCK
    OBVIOUS
  <2>2. /\ Change(c) \in ConnType /\ Change(c).trans = "write" /\ Change(c).at = c.at
        /\ Change(c).flag = c.flag /\ Change(c).auto = c.auto
        /\ Change(c).proc = c.proc /\ Change(c).left = c.left
        /\ Change(c).marred = c.marred
    BY <1>1, <1>2, ChangeFacts
  <2> QED BY <1>1, <1>4, <1>5, <2>1, <2>2, ToHaltInv, Zenon
<1>6. CASE LockExclusive(t) /\ ~c.auto /\ Succeed(t, Change(c))
  BY <1>1, <1>2, <1>3, <1>4, <1>6, ChangeFacts, SucceedInv
<1>7. CASE held[t] = EXCLUSIVE_LOCK /\ Succeed(t, Change(c)) /\ Keep
  <2>1. ~c.auto
    BY <1>1, <1>7 DEF Locked
  <2>2. held' = [held EXCEPT ![t] = held[t]]
    BY <1>7, LockForms DEF Inv
  <2> QED BY <1>1, <1>2, <1>3, <1>7, <2>1, <2>2, ChangeFacts, SucceedInv, Zenon
<1>8. CASE Fail(t, whole) /\ UnlockAll(t)
  <2>1. /\ whole \in ConnType /\ whole.trans = "none" /\ whole.todo = {} /\ whole.auto
        /\ whole.flag = c.flag /\ whole.proc = c.proc /\ whole.left = c.left
        /\ whole.marred = c.marred
    BY Zenon DEF ConnType
  <2>2. held' = [held EXCEPT ![t] = NO_LOCK] /\ NO_LOCK \in Levels
    BY <1>8, LockForms DEF Inv
  <2> HIDE DEF whole
  <2> QED BY <1>1, <1>2, <1>3, <1>8, <2>1, <2>2, FailInv, Zenon
<1>9. CASE ~c.auto /\ Fail(t, c) /\ Keep
  <2>1. held' = [held EXCEPT ![t] = held[t]]
    BY <1>9, LockForms DEF Inv
  <2> QED BY <1>1, <1>2, <1>3, <1>9, <2>1, FailInv, Zenon
<1> QED
  <2> DEFINE w == [conn[t] EXCEPT !.auto = TRUE, !.trans = "none", !.todo = {}]
  <2>1. \/ /\ LockExclusive(t) /\ conn[t].auto
           /\ conn' = [conn EXCEPT ![t] = [Change(conn[t]) EXCEPT !.at = "halt"]]
        \/ LockExclusive(t) /\ ~conn[t].auto /\ Succeed(t, Change(conn[t]))
        \/ held[t] = EXCLUSIVE_LOCK /\ Succeed(t, Change(conn[t])) /\ Keep
        \/ Fail(t, w) /\ UnlockAll(t)
        \/ ~conn[t].auto /\ Fail(t, conn[t]) /\ Keep
    BY Zenon DEF StepSpill
  <2>2. w = whole
    OBVIOUS
  <2> HIDE DEF w, whole
  <2> QED BY <2>1, <2>2, <1>5, <1>6, <1>7, <1>8, <1>9, Zenon

\* COMMIT of a transaction that wrote nothing.
LEMMA HaltReadInv ==
  ASSUME Inv, NEW t \in Conns, HaltRead(t)
  PROVE  Inv'
<1> SUFFICES ASSUME NEW c \in ConnType, c = conn[t] PROVE Inv'
  BY At
<1> DEFINE d == [c EXCEPT !.auto = TRUE, !.trans = "none"]
<1>1. /\ c.at = "halt" /\ c.trans # "write"
      /\ Shape(c) /\ Locked(c, held[t]) /\ Flagged(c)
  BY At DEF HaltRead
<1>2. ~c.auto /\ Head(c.left) = "commit" /\ c.todo = {} /\ (c.marred \/ ~c.flag)
  BY <1>1 DEF Shape, Locked, Flagged
<1>3. /\ d \in ConnType /\ d.trans = "none" /\ d.todo = c.todo /\ d.flag = c.flag /\ d.auto
      /\ d.proc = c.proc /\ d.left = c.left /\ d.marred = c.marred
  BY Zenon DEF ConnType
<1>4. Succeed(t, d)
  BY DEF HaltRead
<1>5. held' = [held EXCEPT ![t] = NO_LOCK] /\ NO_LOCK \in Levels
  BY LockForms DEF HaltRead, Inv
<1> HIDE DEF d
<1> QED BY <1>1, <1>2, <1>3, <1>4, <1>5, SucceedInv, Zenon

\* The end of a transaction that wrote.
LEMMA HaltWriteInv ==
  ASSUME Inv, NEW t \in Conns, HaltWrite(t)
  PROVE  Inv'
<1> SUFFICES ASSUME NEW c \in ConnType, c = conn[t] PROVE Inv'
  BY At
<1> DEFINE d == [c EXCEPT !.auto = TRUE, !.trans = "none", !.todo = {}]
<1>1. c.at = "halt" /\ Shape(c) /\ Locked(c, held[t]) /\ Flagged(c)
  BY At DEF HaltWrite
<1>2. /\ Head(c.left) # "begin" /\ Head(c.left) # "rollback"
      /\ Head(c.left) = "commit" => c.marred \/ ~c.flag
      /\ c.proc \in {"query", "register"} => c.marred \/ ~c.flag
  BY <1>1 DEF Shape, Flagged
<1>3. /\ d \in ConnType /\ d.trans = "none" /\ d.todo = {} /\ d.flag = c.flag /\ d.auto
      /\ d.proc = c.proc /\ d.left = c.left /\ d.marred = c.marred
  BY Zenon DEF ConnType
<1>4. Succeed(t, d)
  BY DEF HaltWrite
<1>5. held' = [held EXCEPT ![t] = NO_LOCK] /\ NO_LOCK \in Levels
  BY DEF HaltWrite, Unlock
<1> HIDE DEF d
<1> QED BY <1>1, <1>2, <1>3, <1>4, <1>5, SucceedInv, Zenon

\* A COMMIT given up marks its connection.
LEMMA HaltLockInv ==
  ASSUME Inv, NEW t \in Conns, HaltLock(t)
  PROVE  Inv'
<1> SUFFICES ASSUME NEW c \in ConnType, c = conn[t] PROVE Inv'
  BY At
<1>1. /\ c.at = "halt" /\ held[t] = PENDING_LOCK /\ held[t] \in Levels
      /\ Shape(c) /\ Locked(c, held[t]) /\ Flagged(c)
  BY At DEF HaltLock
<1>2. Keep => held' = [held EXCEPT ![t] = held[t]]
  BY LockForms, SMTT(30) DEF Inv
<1>3. CASE LockExclusive(t) /\ UNCHANGED conn
  <2>1. conn' = [conn EXCEPT ![t] = c] /\ EXCLUSIVE_LOCK \in Levels
    BY <1>3 DEF Inv, Typed
  <2>2. held' = [held EXCEPT ![t] = EXCLUSIVE_LOCK]
    BY <1>3 DEF LockExclusive
  <2>3. Locked(c, EXCLUSIVE_LOCK)
    BY <1>1 DEF Locked
  <2> QED BY <1>1, <2>1, <2>2, <2>3, OneThread, Zenon
<1>4. CASE conn' = [conn EXCEPT ![t].busy = Counted(@)] /\ Keep
  <2> SUFFICES ASSUME NEW n \in Nat, n = Counted(c.busy) PROVE Inv'
    BY DEF ConnType, Counted
  <2> DEFINE d == [c EXCEPT !.busy = n]
  <2>1. /\ d \in ConnType /\ d.trans = c.trans /\ d.todo = c.todo /\ d.flag = c.flag
        /\ d.auto = c.auto /\ d.proc = c.proc /\ d.left = c.left /\ d.at = c.at
        /\ d.marred = c.marred
    BY DEF ConnType
  <2>2. conn' = [conn EXCEPT ![t] = d]
    BY <1>4
  <2> HIDE DEF d
  <2>3. Shape(d) /\ Flagged(d)
    BY <1>1, <2>1 DEF Shape, Flagged
  <2>4. Locked(d, held[t])
    BY <1>1, <2>1 DEF Locked
  <2> QED BY <1>1, <1>2, <1>4, <2>1, <2>2, <2>3, <2>4, OneThread, Zenon
<1>5. CASE c.auto /\ Fail(t, [c EXCEPT !.trans = "none", !.todo = {}]) /\ UnlockAll(t)
  <2> DEFINE d == [c EXCEPT !.trans = "none", !.todo = {}]
  <2>1. /\ d \in ConnType /\ d.trans = "none" /\ d.todo = {} /\ d.flag = c.flag
        /\ d.auto = c.auto /\ d.proc = c.proc /\ d.left = c.left /\ d.marred = c.marred
    BY Zenon DEF ConnType
  <2>2. Fail(t, d)
    BY <1>5
  <2>3. held' = [held EXCEPT ![t] = NO_LOCK] /\ NO_LOCK \in Levels
    BY <1>5, LockForms DEF Inv
  <2>4. /\ Head(c.left) = "write"
        /\ c.proc \in {"query", "register"} => c.marred \/ (~c.flag /\ c.auto)
    BY <1>1, <1>5 DEF Shape, Flagged
  <2> HIDE DEF d
  <2> QED BY <1>1, <1>5, <2>1, <2>2, <2>3, <2>4, FailInv, Zenon
<1>6. CASE ~c.auto /\ conn' = [conn EXCEPT ![t] = [c EXCEPT !.left = <<>>, !.at = "idle",
                        !.proc = "none", !.run = 0, !.busy = 0, !.marred = TRUE]] /\ Keep
  <2> DEFINE d == [c EXCEPT !.left = <<>>, !.at = "idle",
                        !.proc = "none", !.run = 0, !.busy = 0, !.marred = TRUE]
  <2>1. /\ d \in ConnType /\ d.trans = c.trans /\ d.todo = c.todo /\ d.auto = c.auto
        /\ d.proc = "none" /\ d.left = <<>> /\ d.at = "idle" /\ d.marred
    BY Zenon DEF ConnType
  <2>2. conn' = [conn EXCEPT ![t] = d]
    BY <1>6
  <2> HIDE DEF d
  <2>3. Shape(d) /\ Flagged(d)
    BY <2>1 DEF Shape, Flagged, Block
  <2>4. Locked(d, held[t])
    BY <1>1, <1>6, <2>1 DEF Locked
  <2> QED BY <1>1, <1>2, <1>6, <2>1, <2>2, <2>3, <2>4, OneThread, Zenon
<1> QED BY <1>3, <1>4, <1>5, <1>6 DEF HaltLock

\* An exception in updateDB: marks its connection.
LEMMA InterruptInv ==
  ASSUME Inv, NEW t \in Conns, Interrupt(t)
  PROVE  Inv'
<1> SUFFICES ASSUME NEW c \in ConnType, c = conn[t] PROVE Inv'
  BY At
<1> DEFINE d == [c EXCEPT !.marred = TRUE]
<1>1. c.at = "ready" /\ Locked(c, held[t]) /\ held[t] \in Levels
  BY At DEF Interrupt
<1>2. /\ d \in ConnType /\ d.trans = c.trans /\ d.todo = c.todo /\ d.auto = c.auto
      /\ d.marred
  BY Zenon DEF ConnType
<1>3. conn' = [conn EXCEPT ![t] = Done(d, <<>>)]
  BY DEF Interrupt, Finish, Done
<1>4. held' = [held EXCEPT ![t] = held[t]]
  BY LockForms DEF Interrupt, Inv
<1> HIDE DEF d
<1>5. /\ c.trans # "write" => c.todo = {}
      /\ held[t] = NO_LOCK => c.trans = "none"
      /\ c.auto => held[t] = NO_LOCK
  BY <1>1 DEF Locked
<1>6. /\ Done(d, <<>>) \in ConnType /\ Shape(Done(d, <<>>))
      /\ Locked(Done(d, <<>>), held[t]) /\ Flagged(Done(d, <<>>))
  BY <1>1, <1>2, <1>5, DoneInv
<1> QED BY <1>1, <1>3, <1>4, <1>6, OneThread, Zenon

-----------------------------------------------------------------------------
LogEntry == [ proc : Procedures, result : {"none", "yes", "no", "raised"},
              marred : BOOLEAN ]
LogTyped == log \in Seq(LogEntry)

\* The same procedures are in both logs.
SameRuns(l, m) ==
  /\ m \in Seq(LogEntry) /\ Len(m) = Len(l)
  /\ \A n \in 1 .. Len(l) : m[n].proc = l[n].proc

\* Storing a result changes no procedure of the log.
LEMMA LogUpdate ==
  ASSUME NEW s \in Seq(LogEntry), NEW n, NEW r \in {"none", "yes", "no", "raised"}
  PROVE  /\ SameRuns(s, [s EXCEPT ![n].result = r])
         /\ SameRuns(s, [s EXCEPT ![n] = [@ EXCEPT !.result = r, !.marred = TRUE]])
<1>1. \A e \in LogEntry :
        /\ [e EXCEPT !.result = r] \in LogEntry /\ [e EXCEPT !.result = r].proc = e.proc
        /\ [e EXCEPT !.result = r, !.marred = TRUE] \in LogEntry
        /\ [e EXCEPT !.result = r, !.marred = TRUE].proc = e.proc
  BY Zenon DEF LogEntry
<1>2. CASE n \in 1 .. Len(s)
  <2>1. \A e \in LogEntry : e.proc = s[n].proc => SameRuns(s, [s EXCEPT ![n] = e])
    BY <1>2 DEF SameRuns
  <2>2. s[n] \in LogEntry
    BY <1>2
  <2>3. /\ SameRuns(s, [s EXCEPT ![n] = [s[n] EXCEPT !.result = r]])
        /\ SameRuns(s, [s EXCEPT ![n] = [s[n] EXCEPT !.result = r, !.marred = TRUE]])
    BY <1>1, <2>1, <2>2, Zenon
  <2> QED BY <2>3
<1>3. CASE n \notin 1 .. Len(s)
  <2>1. /\ [s EXCEPT ![n].result = r] = s
        /\ [s EXCEPT ![n] = [@ EXCEPT !.result = r, !.marred = TRUE]] = s
    BY <1>3
  <2> QED BY <2>1, Zenon DEF SameRuns
<1> QED BY <1>2, <1>3

\* A procedure under way starts no other.
LEMMA StepLog ==
  ASSUME LogTyped, NEW t \in Conns, Step(t) \/ Exit(t) \/ Interrupt(t)
  PROVE  SameRuns(log, log')
<1> DEFINE Result == {"none", "yes", "no", "raised"}
<1>0. log' = log => SameRuns(log, log')
  BY DEF LogTyped, SameRuns
<1>1. ASSUME NEW u, NEW c, NEW rest, NEW r \in Result, Finish(u, c, rest, r)
      PROVE  SameRuns(log, log')
  <2>1. log' = [log EXCEPT ![c.run].result = r] \/ log' = log
    BY <1>1 DEF Finish
  <2>2. SameRuns(log, [log EXCEPT ![c.run].result = r])
    BY <1>1, LogUpdate, Zenon DEF LogTyped
  <2> QED BY <1>0, <2>1, <2>2
<1>2. ASSUME NEW c, Succeed(t, c) PROVE SameRuns(log, log')
  BY <1>1, <1>2 DEF Succeed
<1>3. ASSUME NEW c, Fail(t, c) PROVE SameRuns(log, log')
  BY <1>1, <1>3 DEF Fail
<1>4. CASE beginTransaction(t)
  BY <1>1, <1>4 DEF beginTransaction
<1>5. CASE rollbackTransaction(t) \/ commitTransaction(t)
  BY <1>0, <1>2, <1>5 DEF rollbackTransaction, commitTransaction
<1>6. CASE Prepare(t) \/ LoadSchema(t) \/ Pend(t)
  BY <1>0, <1>3, <1>6 DEF Prepare, LoadSchema, Pend
<1>7. CASE StepShared(t) \/ StepReserve(t)
  BY <1>0, <1>3, <1>7 DEF StepShared, StepReserve, Refused
<1>8. CASE StepRead(t)
  BY <1>1, <1>2, <1>8 DEF StepRead
<1>9. CASE StepRun(t)
  BY <1>0, <1>2, <1>9 DEF StepRun
<1>10. CASE StepSpill(t)
  BY <1>0, <1>2, <1>3, <1>10 DEF StepSpill
<1>11. CASE HaltRead(t) \/ HaltWrite(t)
  BY <1>2, <1>11 DEF HaltRead, HaltWrite
<1>12. CASE HaltLock(t)
  <2>1. \/ log' = [log EXCEPT ![conn[t].run] = [@ EXCEPT !.result = "yes", !.marred = TRUE]]
        \/ log' = log
        \/ \E c : Fail(t, c)
    BY <1>12, Zenon DEF HaltLock
  <2>2. SameRuns(log, [log EXCEPT ![conn[t].run] = [@ EXCEPT !.result = "yes", !.marred = TRUE]])
    BY LogUpdate, Zenon DEF LogTyped
  <2> QED BY <1>0, <1>3, <2>1, <2>2
<1>13. CASE Exit(t) \/ Interrupt(t)
  BY <1>0, <1>1, <1>13 DEF Exit, Interrupt
<1> QED BY <1>4, <1>5, <1>6, <1>7, <1>8, <1>9, <1>10, <1>11, <1>12, <1>13 DEF Step

\* Every step keeps the log a sequence of entries.
LEMMA LogStep ==
  ASSUME Inv, LogTyped, [Next]_vars
  PROVE  LogTyped'
<1>1. ASSUME NEW t \in Conns, Step(t) \/ Exit(t) \/ Interrupt(t) PROVE LogTyped'
  BY <1>1, StepLog DEF SameRuns, LogTyped
<1>2. ASSUME NEW t \in Conns, NEW p \in Duties[t], Start(t, p) PROVE LogTyped'
  <2>1. \A b \in BOOLEAN : [proc |-> p, result |-> "none", marred |-> b] \in LogEntry
    BY Bounds DEF LogEntry
  <2>2. conn[t].marred \in BOOLEAN
    BY At DEF ConnType
  <2>3. [proc |-> p, result |-> "none", marred |-> conn[t].marred] \in LogEntry
    BY <2>1, <2>2, Zenon
  <2> QED BY <1>2, <2>3 DEF Start, LogTyped
<1>3. CASE UNCHANGED vars
  BY <1>3 DEF vars, LogTyped
<1> QED BY <1>1, <1>2, <1>3 DEF Next

\* Every step keeps the invariant.
LEMMA NextInv ==
  ASSUME Inv, LogTyped, [Next]_vars
  PROVE  Inv'
<1>1. ASSUME NEW t \in Conns, Step(t) PROVE Inv'
  <2>1. CASE beginTransaction(t) \/ rollbackTransaction(t) \/ commitTransaction(t)
    BY <2>1, BeginInv, RollbackInv, CommitInv
  <2>2. CASE Prepare(t) \/ LoadSchema(t) \/ StepShared(t) \/ StepRead(t)
    BY <2>2, PrepareInv, LoadSchemaInv, StepSharedInv, StepReadInv
  <2>3. CASE StepReserve(t) \/ StepRun(t) \/ Pend(t) \/ StepSpill(t)
    BY <2>3, StepReserveInv, StepRunInv, PendInv, StepSpillInv
  <2>4. CASE HaltRead(t) \/ HaltLock(t) \/ HaltWrite(t)
    BY <2>4, HaltReadInv, HaltLockInv, HaltWriteInv
  <2> QED BY <1>1, <2>1, <2>2, <2>3, <2>4 DEF Step
<1>2. ASSUME NEW t \in Conns, NEW p \in Duties[t], Start(t, p) PROVE Inv'
  <2>1. p \in Procedures /\ Len(log) \in Nat
    BY Bounds DEF LogTyped
  <2> QED BY <1>2, <2>1, StartInv
<1>3. ASSUME NEW t \in Conns, Exit(t) \/ Interrupt(t) PROVE Inv'
  BY <1>3, ExitInv, InterruptInv
<1>4. CASE UNCHANGED vars
  BY <1>4 DEF vars, Inv, Typed
<1> QED BY <1>1, <1>2, <1>3, <1>4 DEF Next

\* Between procedures a thread has no transaction open, no lock on the database
\* file and the flag of beginTransaction clear, unless a COMMIT was given up or
\* updateDB: interrupted: for any number of threads, retries and procedures.
THEOREM ThreadsRestClean == Spec => []RestsClean
<1>1. Init => Inv /\ LogTyped
  BY InitInv DEF Init, LogTyped
<1>2. Inv /\ LogTyped /\ [Next]_vars => Inv' /\ LogTyped'
  BY NextInv, LogStep
<1>3. Inv => RestsClean
  <2> SUFFICES ASSUME Inv, NEW t \in Conns, conn[t].at = "idle", ~conn[t].marred
               PROVE  /\ ~conn[t].flag /\ conn[t].auto
                      /\ conn[t].trans = "none" /\ conn[t].todo = {} /\ held[t] = NO_LOCK
    BY DEF RestsClean
  <2> QED BY At DEF Flagged, Locked
<1> QED BY <1>1, <1>2, <1>3, PTL DEF Spec

-----------------------------------------------------------------------------
(* Both changes of appendFavoriteThreadIdentifier: or none.  While it runs,  *)
(* its first change may be alone in the transaction, never in the database.  *)

Both(n) == {<<n, 3>>, <<n, 2>>}
Whole(s, n) == s \cap Both(n) \in {{}, Both(n)}

\* What may be left of the procedure; with Halfway one change is made.
Halfway == <<"write", "commit">>
AppendLefts ==
  { <<"begin", "write", "write", "commit">>, <<"write", "write", "commit">>,
    Halfway, <<"commit">>, <<"rollback">> }

Mine(c, l) ==
  /\ \A e \in c.todo : e[1] <= Len(l)
  /\ c.at # "idle" => c.run \in 1 .. Len(l) /\ l[c.run].proc = c.proc
  /\ c.at = "idle" => c.run = 0
  /\ c.proc = "append" => /\ c.left \in AppendLefts
                          /\ Head(c.left) = "write" => ~c.auto
                          /\ c.left = Halfway => <<c.run, 3>> \in c.todo
  /\ \A n \in 1 .. Len(l) : l[n].proc = "append" =>
       Whole(c.todo, n) \/ (n = c.run /\ c.left \in {Halfway, <<"rollback">>})

StoredWhole(s, l) ==
  /\ s \subseteq Nat \X Nat
  /\ \A e \in s : e[1] <= Len(l)
  /\ \A n \in 1 .. Len(l) : l[n].proc = "append" => Whole(s, n)

AppendInv ==
  /\ StoredWhole(committed, log)
  /\ \A t \in Conns : Mine(conn[t], log)

\* The statements of the procedure.
LEMMA AppendFacts ==
  /\ \A s \in AppendLefts : Head(s) # "read"
  /\ \A s \in AppendLefts : Head(s) = "begin" => Tail(s) = <<"write", "write", "commit">>
  /\ \A s \in AppendLefts : Head(s) = "write" =>
       \/ s = Halfway /\ Tail(s) = <<"commit">> /\ Len(s) = 2
       \/ s = <<"write", "write", "commit">> /\ Tail(s) = Halfway /\ Len(s) = 3
  /\ \A s \in AppendLefts : Head(s) = "commit" => s = <<"commit">> /\ Tail(s) = <<>>
  /\ \A s \in AppendLefts : Head(s) = "rollback" => s = <<"rollback">> /\ Tail(s) = <<>>
  /\ Head(Halfway) = "write" /\ Head(<<"write", "write", "commit">>) = "write"
  /\ Head(<<"rollback">>) = "rollback" /\ Head(<<"commit">>) = "commit"
  /\ <<"write", "write", "commit">> # Halfway /\ <<"commit">> # Halfway
  /\ <<"rollback">> # Halfway /\ Halfway # <<>> /\ <<"rollback">> # <<"commit">>
  /\ <<"write", "write", "commit">> # <<>> /\ <<"rollback">> # <<>> /\ <<"commit">> # <<>>
<1>a. /\ Head(<<"begin", "write", "write", "commit">>) = "begin"
      /\ Head(<<"write", "write", "commit">>) = "write" /\ Head(Halfway) = "write"
      /\ Head(<<"commit">>) = "commit" /\ Head(<<"rollback">>) = "rollback"
  BY DEF Halfway
<1>b. /\ Tail(<<"begin", "write", "write", "commit">>) = <<"write", "write", "commit">>
      /\ Tail(<<"write", "write", "commit">>) = Halfway
  BY DEF Halfway
<1>c. Tail(Halfway) = <<"commit">> /\ Tail(<<"commit">>) = <<>> /\ Tail(<<"rollback">>) = <<>>
  BY DEF Halfway
<1>d. Len(Halfway) = 2 /\ Len(<<"write", "write", "commit">>) = 3
  BY DEF Halfway
<1>e. "begin" # "read" /\ "write" # "read" /\ "commit" # "read" /\ "rollback" # "read"
      /\ "begin" # "write" /\ "begin" # "commit" /\ "begin" # "rollback"
      /\ "write" # "commit" /\ "write" # "rollback" /\ "commit" # "rollback"
  OBVIOUS
<1>1. /\ <<"write", "write", "commit">> # Halfway /\ <<"commit">> # Halfway
      /\ <<"rollback">> # Halfway /\ Halfway # <<>> /\ <<"rollback">> # <<"commit">>
      /\ <<"write", "write", "commit">> # <<>> /\ <<"rollback">> # <<>> /\ <<"commit">> # <<>>
  BY DEF Halfway
<1>2. \A s \in AppendLefts : Head(s) # "read"
  BY <1>a, <1>e, Zenon DEF AppendLefts
<1>3. \A s \in AppendLefts : Head(s) = "begin" => Tail(s) = <<"write", "write", "commit">>
  BY <1>a, <1>b, <1>e, Zenon DEF AppendLefts
<1>4. \A s \in AppendLefts : Head(s) = "write" =>
       \/ s = Halfway /\ Tail(s) = <<"commit">> /\ Len(s) = 2
       \/ s = <<"write", "write", "commit">> /\ Tail(s) = Halfway /\ Len(s) = 3
  BY <1>a, <1>b, <1>c, <1>d, <1>e, Zenon DEF AppendLefts
<1>5. \A s \in AppendLefts : Head(s) = "commit" => s = <<"commit">> /\ Tail(s) = <<>>
  BY <1>a, <1>c, <1>e, Zenon DEF AppendLefts
<1>6. \A s \in AppendLefts : Head(s) = "rollback" => s = <<"rollback">> /\ Tail(s) = <<>>
  BY <1>a, <1>c, <1>e, Zenon DEF AppendLefts
<1> QED BY <1>a, <1>1, <1>2, <1>3, <1>4, <1>5, <1>6

\* A step of one thread, which may store its changes.
LEMMA OneMine ==
  ASSUME Inv, AppendInv, NEW t \in Conns, NEW d, conn' = [conn EXCEPT ![t] = d],
         SameRuns(log, log'), Mine(d, log),
         committed' = committed \/
           ( /\ committed' = committed \cup conn[t].todo
             /\ \A n \in 1 .. Len(log) : log[n].proc = "append" => Whole(conn[t].todo, n) )
  PROVE  AppendInv'
<1>1. \A x : Mine(x, log) => Mine(x, log')
  BY SMTT(30) DEF Mine, SameRuns
<1>2. \A u \in Conns : conn'[u] = IF u = t THEN d ELSE conn[u]
  BY DEF Inv, Typed
<1>3. \A u \in Conns : Mine(conn'[u], log')
  BY <1>1, <1>2 DEF AppendInv
<1>4. StoredWhole(committed', log)
  <2>1. CASE committed' = committed
    BY <2>1 DEF AppendInv
  <2>2. CASE /\ committed' = committed \cup conn[t].todo
             /\ \A n \in 1 .. Len(log) : log[n].proc = "append" => Whole(conn[t].todo, n)
    <3>1. conn[t].todo \subseteq Nat \X Nat /\ Mine(conn[t], log)
      BY At DEF ConnType, AppendInv
    <3>2. \A n \in 1 .. Len(log) : log[n].proc = "append" => Whole(committed', n)
      BY <2>2 DEF Whole, AppendInv, StoredWhole
    <3> QED BY <2>2, <3>1, <3>2, Zenon DEF AppendInv, StoredWhole, Mine
  <2> QED BY <2>1, <2>2
<1>5. StoredWhole(committed', log')
  BY <1>4 DEF StoredWhole, SameRuns
<1> QED BY <1>3, <1>5 DEF AppendInv

\* A thread that stays at the same statement.
LEMMA Stay ==
  ASSUME Inv, AppendInv, NEW t \in Conns, NEW d, conn' = [conn EXCEPT ![t] = d],
         SameRuns(log, log'), committed' = committed,
         conn[t].at # "idle", d.at # "idle", d.todo = conn[t].todo, d.run = conn[t].run,
         d.proc = conn[t].proc, d.left = conn[t].left, d.auto = conn[t].auto
  PROVE  AppendInv'
<1>1. Mine(conn[t], log)
  BY DEF AppendInv
<1>2. Mine(d, log)
  BY <1>1 DEF Mine
<1> QED BY <1>2, OneMine, Zenon

\* The same for Goto.
LEMMA StayGoto ==
  ASSUME Inv, AppendInv, NEW t \in Conns, NEW p, p # "idle", Goto(t, p),
         SameRuns(log, log'), committed' = committed, conn[t].at # "idle"
  PROVE  AppendInv'
<1> SUFFICES ASSUME NEW c \in ConnType, c = conn[t] PROVE AppendInv'
  BY At
<1> DEFINE d == [c EXCEPT !.at = p]
<1>1. /\ d.at = p /\ d.todo = c.todo /\ d.run = c.run /\ d.proc = c.proc
      /\ d.left = c.left /\ d.auto = c.auto
  BY DEF ConnType
<1>2. conn' = [conn EXCEPT ![t] = d]
  BY DEF Goto
<1> HIDE DEF d
<1> QED BY <1>1, <1>2, Stay, Zenon

\* The end of a statement that adds no change.
LEMMA FinishMine ==
  ASSUME Inv, AppendInv, NEW t \in Conns, NEW x \in ConnType, NEW rest, NEW r,
         Finish(t, x, rest, r), SameRuns(log, log'), conn[t].at # "idle",
         x.run = conn[t].run, x.proc = conn[t].proc,
         x.todo = {} \/
           ( /\ x.todo = conn[t].todo
             /\ x.proc = "append" =>
                  conn[t].left \notin {Halfway, <<"rollback">>} \/ rest = <<"rollback">> ),
         x.proc = "append" =>
           rest \in {<<>>, <<"rollback">>} \/ (rest = <<"write", "write", "commit">> /\ ~x.auto),
         committed' = committed \/
           ( /\ committed' = committed \cup conn[t].todo
             /\ \A n \in 1 .. Len(log) : log[n].proc = "append" => Whole(conn[t].todo, n) )
  PROVE  AppendInv'
<1> DEFINE d == Done(x, rest)
<1>1. conn' = [conn EXCEPT ![t] = d]
  BY DEF Finish, Done
<1>2. Mine(conn[t], log)
  BY DEF AppendInv
<1>3. \A n \in 1 .. Len(log) : log[n].proc = "append" =>
         Whole(x.todo, n) \/ (n = x.run /\ rest = <<"rollback">>)
  <2>1. \A n : Whole({}, n)
    BY DEF Whole
  <2> QED BY <1>2, <2>1, Zenon DEF Mine
<1>4. \A e \in x.todo : e[1] <= Len(log)
  BY <1>2 DEF Mine
<1>5. CASE rest = <<>>
  <2>1. /\ d.left = <<>> /\ d.at = "idle" /\ d.proc = "none" /\ d.run = 0 /\ d.todo = x.todo
    BY <1>5 DEF Done, ConnType
  <2>2. Mine(d, log)
    BY <1>3, <1>4, <1>5, <2>1, AppendFacts DEF Mine
  <2> HIDE DEF d
  <2> QED BY <1>1, <2>2, OneMine, Zenon
<1>6. CASE rest # <<>>
  <2>1. /\ d.left = rest /\ d.at = "ready" /\ d.proc = x.proc /\ d.run = x.run
        /\ d.todo = x.todo /\ d.auto = x.auto
    BY <1>6 DEF Done, ConnType
  <2>2. x.run \in 1 .. Len(log) /\ log[x.run].proc = x.proc
    BY <1>2 DEF Mine
  <2>3. x.proc = "append" => /\ rest \in AppendLefts /\ rest # Halfway
                             /\ Head(rest) = "write" => ~x.auto
    BY <1>6, AppendFacts DEF AppendLefts
  <2> HIDE DEF d
  <2>4. Mine(d, log)
    BY <1>3, <1>4, <2>1, <2>2, <2>3, SMTT(30) DEF Mine
  <2> QED BY <1>1, <2>4, OneMine, Zenon
<1> QED BY <1>5, <1>6

\* A failed statement.
LEMMA FailMine ==
  ASSUME Inv, AppendInv, NEW t \in Conns, NEW x \in ConnType, Fail(t, x),
         SameRuns(log, log'), conn[t].at # "idle", committed' = committed,
         x.run = conn[t].run, x.proc = conn[t].proc, x.todo \in {{}, conn[t].todo}
  PROVE  AppendInv'
<1>1. x.proc = "append" => AfterFailure(x.proc, Tail(x.left)) = <<"rollback">>
  BY DEF AfterFailure
<1>2. Finish(t, x, AfterFailure(x.proc, Tail(x.left)), "no")
  BY DEF Fail
<1> QED BY <1>1, <1>2, FinishMine

\* A statement that changes rows: of a transaction, or the only one.
LEMMA ChangeMine ==
  ASSUME Inv, AppendInv, NEW t \in Conns, SameRuns(log, log'), committed' = committed,
         conn[t].at # "idle", Head(conn[t].left) = "write",
         \/ conn[t].auto /\ conn' = [conn EXCEPT ![t] = [Change(conn[t]) EXCEPT !.at = "halt"]]
         \/ ~conn[t].auto /\ Succeed(t, Change(conn[t]))
  PROVE  AppendInv'
<1> SUFFICES ASSUME NEW c \in ConnType, c = conn[t] PROVE AppendInv'
  BY At
<1> SUFFICES ASSUME NEW x \in ConnType, x = Change(c),
                    x.todo = c.todo \cup {<<c.run, Len(c.left)>>}, x.run = c.run,
                    x.proc = c.proc, x.left = c.left, x.auto = c.auto
             PROVE  AppendInv'
  BY At, ChangeFacts
<1>1. Mine(c, log)
  BY DEF AppendInv
<1>2. c.run \in 1 .. Len(log) /\ log[c.run].proc = c.proc
  BY <1>1 DEF Mine
<1>3. \A n \in 1 .. Len(log) : n # c.run => (Whole(c.todo, n) => Whole(x.todo, n))
  BY DEF Whole, Both
<1>4. \A e \in x.todo : e[1] <= Len(log)
  BY <1>1, <1>2 DEF Mine
<1>5. \A n \in 1 .. Len(log) : log[n].proc = "append" /\ n # c.run => Whole(x.todo, n)
  BY <1>1, <1>3, Zenon DEF Mine
<1>6. CASE c.auto /\ conn' = [conn EXCEPT ![t] = [x EXCEPT !.at = "halt"]]
  <2> DEFINE d == [x EXCEPT !.at = "halt"]
  <2>1. /\ d.at = "halt" /\ d.todo = x.todo /\ d.run = x.run /\ d.proc = x.proc
        /\ d.left = x.left
    BY DEF ConnType
  <2>2. c.proc # "append"
    BY <1>1, <1>6 DEF Mine
  <2> HIDE DEF d
  <2>3. Mine(d, log)
    BY <1>2, <1>4, <1>5, <2>1, <2>2, ZenonT(30) DEF Mine
  <2> QED BY <1>6, <2>3, OneMine, Zenon DEF d
<1>7. CASE ~c.auto /\ Succeed(t, x)
  <2> DEFINE d == Done(x, Tail(c.left))
  <2>1. conn' = [conn EXCEPT ![t] = d]
    BY <1>7 DEF Succeed, Finish, Done
  <2>2. CASE Tail(c.left) = <<>>
    <3>1. d.left = <<>> /\ d.at = "idle" /\ d.proc = "none" /\ d.run = 0 /\ d.todo = x.todo
      BY <2>2 DEF Done, ConnType
    <3>2. c.proc # "append"
      BY <1>1, <2>2, AppendFacts DEF Mine
    <3> HIDE DEF d
    <3>3. Mine(d, log)
      BY <1>2, <1>4, <1>5, <3>1, <3>2, Zenon DEF Mine
    <3> QED BY <2>1, <3>3, OneMine, Zenon
  <2>3. CASE Tail(c.left) # <<>>
    <3>1. /\ d.left = Tail(c.left) /\ d.at = "ready" /\ d.proc = c.proc /\ d.run = c.run
          /\ d.todo = x.todo /\ d.auto = c.auto
      BY <2>3 DEF Done, ConnType
    <3> HIDE DEF d
    <3>2. CASE c.proc # "append"
      <4>1. Mine(d, log)
        BY <1>2, <1>4, <1>5, <3>1, <3>2, Zenon DEF Mine
      <4> QED BY <2>1, <4>1, OneMine, Zenon
    <3>3. CASE c.proc = "append" /\ c.left = <<"write", "write", "commit">>
      <4>0. Tail(c.left) = Halfway /\ Len(c.left) = 3
        BY <1>1, <3>3, AppendFacts, Zenon DEF Mine
      <4>1. d.left = Halfway /\ <<d.run, 3>> \in d.todo /\ ~d.auto
        BY <1>7, <3>1, <4>0
      <4>2. Mine(d, log)
        BY <1>2, <1>4, <1>5, <3>1, <3>3, <4>1, Zenon DEF Mine, AppendLefts
      <4> QED BY <2>1, <4>2, OneMine, Zenon
    <3>4. CASE c.proc = "append" /\ c.left = Halfway
      <4>1. d.left = <<"commit">> /\ Both(c.run) \subseteq d.todo
        BY <1>1, <3>1, <3>4, AppendFacts DEF Mine, Both
      <4>2. Whole(d.todo, c.run)
        BY <4>1 DEF Whole
      <4>3. Mine(d, log)
        BY <1>2, <1>4, <1>5, <3>1, <3>4, <4>1, <4>2, AppendFacts, Zenon DEF Mine, AppendLefts
      <4> QED BY <2>1, <4>3, OneMine, Zenon
    <3> QED BY <1>1, <3>2, <3>3, <3>4, AppendFacts DEF Mine
  <2> QED BY <2>2, <2>3
<1> QED BY <1>6, <1>7

\* The statements that open, end or abandon a transaction.
LEMMA TransactionMine ==
  ASSUME Inv, AppendInv, LogTyped, NEW t \in Conns,
         \/ beginTransaction(t) \/ rollbackTransaction(t) \/ commitTransaction(t)
         \/ HaltRead(t) \/ HaltWrite(t) \/ Interrupt(t)
  PROVE  AppendInv'
<1> SUFFICES ASSUME NEW c \in ConnType, c = conn[t] PROVE AppendInv'
  BY At
<1>1. SameRuns(log, log')
  BY StepLog DEF Step
<1>2. Shape(c) /\ Locked(c, held[t]) /\ Mine(c, log)
  BY At, SMTT(30) DEF AppendInv
<1>3. c.proc = "append" => c.left \in AppendLefts /\ (Head(c.left) = "write" => ~c.auto)
  BY <1>2 DEF Mine
<1>4. ASSUME Head(c.left) \notin {"write", "rollback"}
      PROVE  c.proc = "append" => c.left \notin {Halfway, <<"rollback">>}
  BY <1>4, AppendFacts
<1>5. CASE beginTransaction(t)
  <2>1. c.at = "ready" /\ Head(c.left) = "begin" /\ committed' = committed
    BY <1>5, SMTT(30) DEF beginTransaction, Op
  <2>2. CASE ~c.flag /\ c.auto
    <3> DEFINE x == [c EXCEPT !.flag = TRUE, !.auto = FALSE]
    <3>1. x \in ConnType /\ x.run = c.run /\ x.proc = c.proc /\ x.todo = c.todo /\ ~x.auto
      BY Zenon DEF ConnType
    <3>2. Finish(t, x, Tail(c.left), "yes")
      BY <1>5, <2>2 DEF beginTransaction
    <3>3. c.proc = "append" => Tail(c.left) = <<"write", "write", "commit">>
      BY <1>3, <2>1, AppendFacts, Zenon
    <3> HIDE DEF x
    <3> QED BY <1>1, <1>4, <2>1, <3>1, <3>2, <3>3, FinishMine, Zenon
  <2>3. CASE ~(~c.flag /\ c.auto)
    <3> DEFINE x == [c EXCEPT !.flag = TRUE]
    <3>1. x \in ConnType /\ x.run = c.run /\ x.proc = c.proc /\ x.todo = c.todo
      BY Zenon DEF ConnType
    <3>2. Finish(t, x, <<>>, "no")
      BY <1>5, <2>3 DEF beginTransaction
    <3> HIDE DEF x
    <3> QED BY <1>1, <1>4, <2>1, <3>1, <3>2, FinishMine
  <2> QED BY <2>2, <2>3
<1>6. CASE rollbackTransaction(t)
  <2> DEFINE x == [c EXCEPT !.flag = FALSE, !.auto = TRUE, !.trans = "none", !.todo = {}]
  <2>1. c.at = "ready" /\ Head(c.left) = "rollback" /\ committed' = committed
    BY <1>6 DEF rollbackTransaction, Op
  <2>2. x \in ConnType /\ x.run = c.run /\ x.proc = c.proc /\ x.todo = {} /\ x.left = c.left
    BY ZenonT(30) DEF ConnType
  <2>3. Succeed(t, x)
    BY <1>6 DEF rollbackTransaction
  <2> HIDE DEF x
  <2>4. \E r : Finish(t, x, Tail(c.left), r)
    BY <2>2, <2>3 DEF Succeed
  <2>5. c.proc = "append" => Tail(c.left) = <<>>
    BY <1>3, <2>1, AppendFacts
  <2> QED BY <1>1, <2>1, <2>2, <2>4, <2>5, FinishMine, Zenon
<1>7. CASE commitTransaction(t)
  <2> DEFINE x == [c EXCEPT !.flag = FALSE]
             y == [x EXCEPT !.at = "halt"]
  <2>1. c.at = "ready" /\ Head(c.left) = "commit" /\ committed' = committed
    BY <1>7 DEF commitTransaction, Op
  <2>2. CASE c.auto
    <3>1. x \in ConnType /\ x.run = c.run /\ x.proc = c.proc /\ x.todo = c.todo /\ x.left = c.left
      BY Zenon DEF ConnType
    <3>2. Succeed(t, x)
      BY <1>7, <2>2 DEF commitTransaction
    <3> HIDE DEF x
    <3>3. \E r : Finish(t, x, Tail(c.left), r)
      BY <3>1, <3>2 DEF Succeed
    <3>4. c.proc = "append" => Tail(c.left) = <<>>
      BY <1>3, <2>1, AppendFacts
    <3> QED BY <1>1, <1>4, <2>1, <3>1, <3>3, <3>4, FinishMine, Zenon
  <2>3. CASE ~c.auto
    <3>1. /\ y.at = "halt" /\ y.run = c.run /\ y.proc = c.proc /\ y.todo = c.todo
          /\ y.left = c.left /\ y.auto = c.auto
      BY DEF ConnType
    <3>2. conn' = [conn EXCEPT ![t] = y]
      BY <1>7, <2>3 DEF commitTransaction
    <3> HIDE DEF x, y
    <3> QED BY <1>1, <2>1, <3>1, <3>2, Stay, Zenon
  <2> QED BY <2>2, <2>3
<1>8. CASE HaltRead(t)
  <2> DEFINE x == [c EXCEPT !.auto = TRUE, !.trans = "none"]
  <2>1. c.at = "halt" /\ c.trans # "write" /\ committed' = committed
    BY <1>8 DEF HaltRead
  <2>2. c.todo = {} /\ Head(c.left) = "commit"
    BY <1>2, <2>1 DEF Shape, Locked
  <2>3. x \in ConnType /\ x.run = c.run /\ x.proc = c.proc /\ x.todo = c.todo /\ x.left = c.left
    BY Zenon DEF ConnType
  <2>4. Succeed(t, x)
    BY <1>8 DEF HaltRead
  <2> HIDE DEF x
  <2>5. \E r : Finish(t, x, Tail(c.left), r)
    BY <2>3, <2>4 DEF Succeed
  <2>6. c.proc = "append" => Tail(c.left) = <<>>
    BY <1>3, <2>2, AppendFacts
  <2> QED BY <1>1, <2>1, <2>2, <2>3, <2>5, <2>6, FinishMine, Zenon
<1>9. CASE HaltWrite(t)
  <2> DEFINE x == [c EXCEPT !.auto = TRUE, !.trans = "none", !.todo = {}]
  <2>1. c.at = "halt" /\ committed' = committed \cup c.todo
    BY <1>9 DEF HaltWrite
  <2>2. (Head(c.left) = "write" /\ c.auto) \/ Head(c.left) = "commit"
    BY <1>2, <2>1 DEF Shape
  <2>3. x \in ConnType /\ x.run = c.run /\ x.proc = c.proc /\ x.todo = {} /\ x.left = c.left
    BY ZenonT(30) DEF ConnType
  <2>4. Succeed(t, x)
    BY <1>9 DEF HaltWrite
  <2> HIDE DEF x
  <2>5. \E r : Finish(t, x, Tail(c.left), r)
    BY <2>3, <2>4 DEF Succeed
  <2>6. c.proc = "append" => Head(c.left) = "commit"
    BY <1>3, <2>2
  <2>7. c.proc = "append" => Tail(c.left) = <<>> /\ c.left \notin {Halfway, <<"rollback">>}
    BY <1>3, <2>6, AppendFacts
  <2>8. \A n \in 1 .. Len(log) : log[n].proc = "append" => Whole(c.todo, n)
    BY <1>2, <2>1, <2>7 DEF Mine
  <2> QED BY <1>1, <2>1, <2>3, <2>5, <2>7, <2>8, FinishMine, Zenon
<1>10. CASE Interrupt(t)
  <2> DEFINE x == [c EXCEPT !.marred = TRUE]
  <2>1. c.at = "ready" /\ c.proc = "updateDB" /\ committed' = committed
    BY <1>10 DEF Interrupt
  <2>2. x \in ConnType /\ x.run = c.run /\ x.proc = c.proc /\ x.todo = c.todo
    BY Zenon DEF ConnType
  <2>3. Finish(t, x, <<>>, "raised")
    BY <1>10 DEF Interrupt
  <2> HIDE DEF x
  <2> QED BY <1>1, <2>1, <2>2, <2>3, FinishMine
<1> QED BY <1>5, <1>6, <1>7, <1>8, <1>9, <1>10

\* The steps of a statement that reads or writes tables.
LEMMA StatementMine ==
  ASSUME Inv, AppendInv, LogTyped, NEW t \in Conns,
         \/ Prepare(t) \/ LoadSchema(t) \/ StepShared(t) \/ StepRead(t)
         \/ StepReserve(t) \/ StepRun(t) \/ Pend(t) \/ StepSpill(t)
  PROVE  AppendInv'
<1> SUFFICES ASSUME NEW c \in ConnType, c = conn[t] PROVE AppendInv'
  BY At
<1>1. SameRuns(log, log')
  BY StepLog DEF Step
<1>2. Shape(c) /\ Mine(c, log) /\ c.at # "idle"
  BY At DEF AppendInv, Prepare, LoadSchema, StepShared, StepRead, StepReserve,
            StepRun, Pend, StepSpill
<1>3. committed' = committed
  BY SMTT(30) DEF Prepare, LoadSchema, StepShared, StepRead, StepReserve, StepRun, Pend, StepSpill
<1>4. ASSUME Fail(t, c) PROVE AppendInv'
  BY <1>1, <1>2, <1>3, <1>4, FailMine, SMTT(30)
<1>5. ASSUME NEW p \in {"load", "step", "locked", "run", "spill"}, Goto(t, p)
      PROVE  AppendInv'
  BY <1>1, <1>2, <1>3, <1>5, StayGoto
<1>6. ASSUME Refused(t) PROVE AppendInv'
  <2> SUFFICES ASSUME NEW n \in Nat, n = Counted(c.busy) PROVE AppendInv'
    BY DEF ConnType, Counted
  <2> DEFINE d == [c EXCEPT !.busy = n, !.at = "step"]
  <2>1. /\ d.at = "step" /\ d.run = c.run /\ d.proc = c.proc /\ d.todo = c.todo
        /\ d.left = c.left /\ d.auto = c.auto
    BY DEF ConnType
  <2>2. Fail(t, c) \/ conn' = [conn EXCEPT ![t] = d]
    BY <1>6, SMTT(30) DEF Refused
  <2> HIDE DEF d
  <2> QED BY <1>1, <1>2, <1>3, <1>4, <2>1, <2>2, Stay, SMTT(30)
<1>7. CASE Prepare(t)
  BY <1>4, <1>5, <1>7 DEF Prepare
<1>8. CASE LoadSchema(t)
  <2> SUFFICES ASSUME NEW tr, tr = IF c.auto THEN "none" ELSE "read" PROVE AppendInv'
    OBVIOUS
  <2> DEFINE d == [c EXCEPT !.schema = TRUE, !.at = "step", !.trans = tr]
  <2>1. /\ d.at = "step" /\ d.run = c.run /\ d.proc = c.proc /\ d.todo = c.todo
        /\ d.left = c.left /\ d.auto = c.auto
    BY DEF ConnType
  <2>2. conn' = [conn EXCEPT ![t] = d]
    BY <1>8 DEF LoadSchema
  <2> HIDE DEF d
  <2> QED BY <1>1, <1>2, <1>3, <2>1, <2>2, Stay, ZenonT(30)
<1>9. CASE StepShared(t)
  BY <1>5, <1>6, <1>9 DEF StepShared
<1>10. CASE StepRead(t)
  <2> DEFINE e == IF conn[t].auto \/ conn[t].trans = "write" THEN conn[t]
                                       ELSE [conn[t] EXCEPT !.trans = "read"]
             x == IF c.auto \/ c.trans = "write" THEN c ELSE [c EXCEPT !.trans = "read"]
  <2>1. \/ Succeed(t, e)
        \/ conn[t].proc = "resetNewStatus" /\ Finish(t, e, <<"commit">>, "yes")
    BY <1>10, Zenon DEF StepRead
  <2>2. e = x
    OBVIOUS
  <2>3. x \in ConnType /\ x.run = c.run /\ x.proc = c.proc /\ x.todo = c.todo
    BY SMTT(30) DEF ConnType
  <2>4. Head(c.left) = "read"
    BY <1>10 DEF StepRead, Op
  <2>5. c.proc # "append"
    BY <1>2, <2>4, AppendFacts DEF Mine
  <2> HIDE DEF e, x
  <2>6. \E rest, r : Finish(t, x, rest, r)
    BY <2>1, <2>2, Zenon DEF Succeed
  <2> QED BY <1>1, <1>2, <1>3, <2>3, <2>5, <2>6, FinishMine
<1>11. CASE StepReserve(t)
  <2> DEFINE d == [c EXCEPT !.at = "run", !.trans = "write"]
  <2>1. /\ d.at = "run" /\ d.run = c.run /\ d.proc = c.proc /\ d.todo = c.todo
        /\ d.left = c.left /\ d.auto = c.auto
    BY DEF ConnType
  <2>2. Goto(t, "run") \/ Refused(t) \/ conn' = [conn EXCEPT ![t] = d]
    BY <1>11 DEF StepReserve
  <2> HIDE DEF d
  <2> QED BY <1>1, <1>2, <1>3, <1>5, <1>6, <2>1, <2>2, Stay
<1>12. CASE StepRun(t)
  <2>1. Head(c.left) = "write"
    BY <1>2, <1>12 DEF Shape, StepRun
  <2>2. \/ conn[t].auto /\ conn' = [conn EXCEPT ![t] = [Change(conn[t]) EXCEPT !.at = "halt"]]
        \/ ~conn[t].auto /\ Succeed(t, Change(conn[t]))
        \/ Goto(t, "spill")
    BY <1>12 DEF StepRun
  <2> QED BY <1>1, <1>2, <1>3, <1>5, <2>1, <2>2, ChangeMine
<1>13. CASE Pend(t)
  <2>1. conn' = [conn EXCEPT ![t] = c]
    BY <1>13 DEF Pend, Inv, Typed
  <2> QED BY <1>1, <1>2, <1>3, <2>1, Stay, Zenon
<1>14. CASE StepSpill(t)
  <2> DEFINE w == [conn[t] EXCEPT !.auto = TRUE, !.trans = "none", !.todo = {}]
             x == [c EXCEPT !.auto = TRUE, !.trans = "none", !.todo = {}]
  <2>1. Head(c.left) = "write"
    BY <1>2, <1>14 DEF Shape, StepSpill
  <2>2. \/ conn[t].auto /\ conn' = [conn EXCEPT ![t] = [Change(conn[t]) EXCEPT !.at = "halt"]]
        \/ ~conn[t].auto /\ Succeed(t, Change(conn[t]))
        \/ held[t] = EXCLUSIVE_LOCK /\ Succeed(t, Change(conn[t]))
        \/ Fail(t, w)
        \/ Fail(t, conn[t])
    BY <1>14, Zenon DEF StepSpill
  <2>3. w = x
    OBVIOUS
  <2>4. x \in ConnType /\ x.run = c.run /\ x.proc = c.proc /\ x.todo = {}
    BY ZenonT(30) DEF ConnType
  <2> HIDE DEF w, x
  <2>5. CASE Fail(t, w)
    BY <1>1, <1>2, <1>3, <2>3, <2>4, <2>5, FailMine
  <2>6. CASE held[t] = EXCLUSIVE_LOCK /\ Succeed(t, Change(conn[t]))
    <3>1. ~conn[t].auto
      BY <1>14, <2>6, At DEF Locked, StepSpill
    <3> QED BY <1>1, <1>2, <1>3, <2>1, <2>6, <3>1, ChangeMine
  <2>7. CASE Fail(t, conn[t])
    BY <1>4, <2>7
  <2> QED BY <1>1, <1>2, <1>3, <2>1, <2>2, <2>5, <2>6, <2>7, ChangeMine
<1> QED BY <1>7, <1>8, <1>9, <1>10, <1>11, <1>12, <1>13, <1>14

\* A commit that waits for its lock, or gives up.
LEMMA HaltLockMine ==
  ASSUME Inv, AppendInv, LogTyped, NEW t \in Conns, HaltLock(t)
  PROVE  AppendInv'
<1> SUFFICES ASSUME NEW c \in ConnType, c = conn[t],
                    NEW n \in Nat, n = Counted(c.busy) PROVE AppendInv'
  BY At DEF ConnType, Counted
<1> DEFINE d == [c EXCEPT !.busy = n]
           w == [conn[t] EXCEPT !.trans = "none", !.todo = {}]
           x == [c EXCEPT !.trans = "none", !.todo = {}]
<1>1. SameRuns(log, log')
  BY StepLog DEF Step
<1>2. Shape(c) /\ Mine(c, log) /\ c.at = "halt" /\ committed' = committed
  BY At DEF AppendInv, HaltLock
<1>3. /\ d.at = c.at /\ d.run = c.run /\ d.proc = c.proc /\ d.todo = c.todo
      /\ d.left = c.left /\ d.auto = c.auto
  BY DEF ConnType
<1>4. x \in ConnType /\ x.run = c.run /\ x.proc = c.proc /\ x.todo = {}
  BY ZenonT(30) DEF ConnType
<1>6. CASE UNCHANGED conn
  <2>1. conn' = [conn EXCEPT ![t] = c]
    BY <1>6 DEF Inv, Typed
  <2> HIDE DEF d, x, w
  <2> QED BY <1>1, <1>2, <2>1, Stay, Zenon
<1>7. CASE conn' = [conn EXCEPT ![t] = d]
  <2> HIDE DEF d, x, w
  <2> QED BY <1>1, <1>2, <1>3, <1>7, Stay, Zenon
<1>8. CASE Fail(t, w)
  <2>1. w = x
    OBVIOUS
  <2> HIDE DEF d, x, w
  <2> QED BY <1>1, <1>2, <1>4, <1>8, <2>1, FailMine
<1>9. CASE /\ ~c.auto
           /\ conn' = [conn EXCEPT ![t] = [c EXCEPT !.left = <<>>, !.at = "idle",
                          !.proc = "none", !.run = 0, !.busy = 0, !.marred = TRUE]]
  <2> DEFINE z == [c EXCEPT !.left = <<>>, !.at = "idle",
                          !.proc = "none", !.run = 0, !.busy = 0, !.marred = TRUE]
  <2>1. Head(c.left) = "commit"
    BY <1>2, <1>9 DEF Shape
  <2>2. c.proc = "append" => c.left \notin {Halfway, <<"rollback">>}
    BY <2>1, AppendFacts
  <2>3. z.left = <<>> /\ z.at = "idle" /\ z.proc = "none" /\ z.run = 0 /\ z.todo = c.todo
    BY DEF ConnType
  <2>4. conn' = [conn EXCEPT ![t] = z]
    BY <1>9
  <2> HIDE DEF d, x, w, z
  <2>5. Mine(z, log)
    BY <1>2, <2>2, <2>3, SMTT(30) DEF Mine
  <2> QED BY <1>1, <1>2, <2>4, <2>5, OneMine, Zenon
<1> QED
  <2>1. \/ UNCHANGED conn
        \/ conn' = [conn EXCEPT ![t].busy = Counted(@)]
        \/ Fail(t, w)
        \/ /\ ~conn[t].auto
           /\ conn' = [conn EXCEPT ![t] = [conn[t] EXCEPT !.left = <<>>, !.at = "idle",
                          !.proc = "none", !.run = 0, !.busy = 0, !.marred = TRUE]]
    BY Zenon DEF HaltLock
  <2> QED BY <1>6, <1>7, <1>8, <1>9, <2>1

\* A procedure that starts finds none of its changes anywhere.
LEMMA StartMine ==
  ASSUME Inv, AppendInv, LogTyped, NEW t \in Conns, NEW p \in Procedures, Start(t, p),
         LogTyped'
  PROVE  AppendInv'
<1> SUFFICES ASSUME NEW c \in ConnType, c = conn[t], NEW m \in Nat, m = Len(log)
             PROVE  AppendInv'
  BY At DEF LogTyped
<1> DEFINE d == [c EXCEPT !.proc = p, !.run = m + 1, !.left = Script(p), !.at = "ready"]
<1>1. /\ Len(log') = m + 1 /\ log'[m + 1].proc = p
      /\ \A n \in 1 .. m : log'[n] = log[n]
  BY DEF Start, LogTyped
<1>2. /\ d.at = "ready" /\ d.proc = p /\ d.run = m + 1 /\ d.left = Script(p)
      /\ d.todo = c.todo
  BY DEF ConnType
<1>3. \A u \in Conns : conn'[u] = IF u = t THEN d ELSE conn[u]
  BY DEF Start, Inv, Typed
<1>4. \A s \in SUBSET (Nat \X Nat) : (\A e \in s : e[1] <= m) => Whole(s, m + 1)
  BY SMTT(30) DEF Whole, Both
<1>5. ASSUME NEW u \in Conns PROVE conn[u].todo \in SUBSET (Nat \X Nat) /\ Mine(conn[u], log)
  BY At, SMTT(30) DEF ConnType, AppendInv
<1>6. ASSUME NEW u \in Conns, u # t PROVE Mine(conn[u], log')
  <2>1. \A n \in 1 .. m + 1 : n = m + 1 \/ n \in 1 .. m
    OBVIOUS
  <2>2. Whole(conn[u].todo, m + 1)
    BY <1>4, <1>5, Zenon DEF Mine
  <2>a. /\ \A e \in conn[u].todo : e[1] <= m
        /\ conn[u].at # "idle" => conn[u].run \in 1 .. m /\ log[conn[u].run].proc = conn[u].proc
    BY <1>5, Zenon DEF Mine
  <2>b. \A s \in SUBSET (Nat \X Nat) : (\A e \in s : e[1] <= m) => \A e \in s : e[1] <= m + 1
    OBVIOUS
  <2>3. \A e \in conn[u].todo : e[1] <= m + 1
    BY <1>5, <2>a, <2>b
  <2>4. conn[u].at # "idle" => conn[u].run \in 1 .. m + 1 /\ log'[conn[u].run].proc = conn[u].proc
    <3> SUFFICES ASSUME NEW k \in 1 .. m, k = conn[u].run, log[k].proc = conn[u].proc
                 PROVE  k \in 1 .. m + 1 /\ log'[k].proc = conn[u].proc
      BY <2>a, SMTT(30)
    <3> QED BY <1>1
  <2>5. \A n \in 1 .. m + 1 : log'[n].proc = "append" =>
          Whole(conn[u].todo, n) \/ (n = conn[u].run /\ conn[u].left \in {Halfway, <<"rollback">>})
    BY <1>1, <1>5, <2>1, <2>2, ZenonT(30) DEF Mine
  <2> QED BY <1>1, <1>5, <2>3, <2>4, <2>5 DEF Mine
<1>7. Mine(d, log')
  <2>1. c.at = "idle" /\ c.run = 0 /\ Mine(c, log) /\ c.todo \in SUBSET (Nat \X Nat)
    BY <1>5 DEF Start, Mine
  <2>2. \A e \in c.todo : e[1] <= m
    BY <2>1 DEF Mine
  <2>3. Whole(c.todo, m + 1)
    BY <1>4, <2>1, <2>2, SMTT(30)
  <2>4. \A n \in 1 .. m : log[n].proc = "append" => Whole(c.todo, n)
    BY <2>1 DEF Mine
  <2>5. p = "append" => /\ Script(p) \in AppendLefts /\ Head(Script(p)) = "begin"
                        /\ Script(p) # Halfway
    <3>1. /\ Head(<<"begin", "write", "write", "commit">>) = "begin"
          /\ <<"begin", "write", "write", "commit">> # Halfway
      BY DEF Halfway
    <3> QED BY <3>1 DEF Script, AppendScript, AppendLefts
  <2>6. \A n \in 1 .. m + 1 : log'[n].proc = "append" => Whole(c.todo, n)
    BY <1>1, <2>3, <2>4, SMTT(30)
  <2> HIDE DEF d
  <2>7. \A e \in c.todo : e[1] <= m + 1
    BY <2>1, <2>2
  <2> QED BY <1>1, <1>2, <2>5, <2>6, <2>7 DEF Mine
<1> HIDE DEF d
<1>8. StoredWhole(committed', log')
  <2>1. committed' = committed /\ StoredWhole(committed, log)
    BY DEF Start, AppendInv
  <2>2. Whole(committed, m + 1)
    BY <1>4, <2>1 DEF StoredWhole
  <2> QED BY <1>1, <2>1, <2>2 DEF StoredWhole
<1> QED BY <1>3, <1>6, <1>7, <1>8 DEF AppendInv

\* A connection closed takes its changes with it.
LEMMA ExitMine ==
  ASSUME Inv, AppendInv, LogTyped, NEW t \in Conns, Exit(t)
  PROVE  AppendInv'
<1>1. SameRuns(log, log')
  BY StepLog
<1>2. conn' = [conn EXCEPT ![t] = Fresh] /\ committed' = committed
  BY DEF Exit
<1>3. Mine(Fresh, log)
  BY DEF Fresh, Mine, Whole
<1> QED BY <1>1, <1>2, <1>3, OneMine, Zenon

\* Every step keeps what is stored whole.
LEMMA AppendStep ==
  ASSUME Inv, LogTyped, AppendInv, [Next]_vars PROVE AppendInv'
<1>1. ASSUME NEW t \in Conns, Step(t) \/ Interrupt(t) PROVE AppendInv'
  BY <1>1, TransactionMine, StatementMine, HaltLockMine DEF Step
<1>2. ASSUME NEW t \in Conns, NEW p \in Duties[t], Start(t, p) PROVE AppendInv'
  <2>1. p \in Procedures /\ LogTyped'
    BY Bounds, LogStep
  <2> QED BY <1>2, <2>1, StartMine
<1>3. ASSUME NEW t \in Conns, Exit(t) PROVE AppendInv'
  BY <1>3, ExitMine
<1>4. CASE UNCHANGED vars
  BY <1>4 DEF vars, AppendInv
<1> QED BY <1>1, <1>2, <1>3, <1>4 DEF Next

\* appendFavoriteThreadIdentifier: changes both tables or none, for any number of
\* threads, retries and procedures, whatever statement fails and whoever ends
\* the transaction.
THEOREM AppendIsAtomic == Spec => []AllOrNothing
<1> DEFINE IInv == Inv /\ LogTyped /\ AppendInv
<1>1. Init => IInv
  <2> SUFFICES ASSUME Init PROVE IInv
    OBVIOUS
  <2>1. Inv /\ LogTyped
    BY InitInv DEF Init, LogTyped
  <2>2. Mine(Fresh, <<>>)
    BY DEF Fresh, Mine
  <2>3. \A t \in Conns : Mine(conn[t], log)
    BY <2>2 DEF Init
  <2>4. StoredWhole(committed, log)
    BY DEF Init, StoredWhole
  <2> QED BY <2>1, <2>3, <2>4 DEF AppendInv
<1>2. IInv /\ [Next]_vars => IInv'
  BY NextInv, LogStep, AppendStep
<1>3. IInv => AllOrNothing
  <2> SUFFICES ASSUME IInv, NEW n \in DOMAIN log, log[n].proc = "append"
               PROVE  committed \cap Changes(n) \in {{}, Changes(n)}
    BY DEF AllOrNothing
  <2>1. n \in 1 .. Len(log)
    BY DEF LogTyped
  <2>2. Changes(n) = Both(n)
    BY DEF Changes, Both
  <2> QED BY <2>1, <2>2 DEF AppendInv, StoredWhole, Whole
<1> HIDE DEF IInv
<1> QED BY <1>1, <1>2, <1>3, PTL DEF Spec

-----------------------------------------------------------------------------
(* What a procedure answers.  Its changes are in the database only once it  *)
(* has answered YES, and when it answers NO they are in no transaction that  *)
(* could still be committed.                                                 *)

Answering == {"register", "append"}

\* A procedure in progress: whose changes its transaction has, and when it has
\* all of its own.
Owned(c, l) ==
  /\ c.at # "idle" => l[c.run].result = "none" /\ l[c.run].marred = c.marred
  /\ \A e \in c.todo : /\ e[1] \in 1 .. Len(l)
                       /\ l[e[1]].proc \in Answering /\ e[1] # c.run => l[e[1]].result = "yes"
  /\ c.proc = "append" /\ c.left = <<"commit">> => ~c.auto /\ Both(c.run) \subseteq c.todo
  /\ c.proc = "append" /\ Head(c.left) = "begin" => \A e \in c.todo : e[1] # c.run
  /\ c.proc = "register" => /\ c.left = <<"write">>
                            /\ c.at = "halt" => <<c.run, 1>> \in c.todo
                            /\ c.at # "halt" => \A e \in c.todo : e[1] # c.run

\* Two threads never run the same run.
Apart == \A t, u \in Conns : t # u /\ conn[t].at # "idle" => conn[t].run # conn[u].run

Told(s, l) ==
  /\ \A e \in s : e[1] \in 1 .. Len(l) /\ (l[e[1]].proc \in Answering => l[e[1]].result = "yes")
  /\ \A n \in 1 .. Len(l) : l[n].result = "yes" /\ ~l[n].marred =>
       /\ l[n].proc = "register" => <<n, 1>> \in s
       /\ l[n].proc = "append" => Both(n) \subseteq s

ResultInv == Apart /\ Told(committed, log) /\ \A t \in Conns : Owned(conn[t], log)

ResultIInv == Inv /\ LogTyped /\ AppendInv /\ ResultInv

\* What the invariants say of one thread.
LEMMA OwnedAt ==
  ASSUME ResultIInv, NEW t \in Conns
  PROVE  /\ conn[t] \in ConnType /\ Shape(conn[t]) /\ Locked(conn[t], held[t]) /\ Flagged(conn[t])
         /\ Mine(conn[t], log) /\ Owned(conn[t], log)
         /\ conn[t].at # "idle" => /\ conn[t].run \in 1 .. Len(log)
                                   /\ log[conn[t].run].proc = conn[t].proc
<1>1. Mine(conn[t], log) /\ Owned(conn[t], log)
  BY DEF ResultIInv, AppendInv, ResultInv
<1>2. Inv
  BY DEF ResultIInv
<1>3. conn[t].at # "idle" => /\ conn[t].run \in 1 .. Len(log)
                             /\ log[conn[t].run].proc = conn[t].proc
  BY <1>1 DEF Mine
<1> QED BY <1>1, <1>2, <1>3, At

\* A thread that goes on with its procedure.
LEMMA GoesOn ==
  ASSUME ResultIInv, NEW t \in Conns, NEW d, conn' = [conn EXCEPT ![t] = d], log' = log,
         conn[t].at # "idle", d.at # "idle", d.run = conn[t].run, Owned(d, log),
         \/ committed' = committed
         \/ committed' = committed \cup conn[t].todo /\ conn[t].proc \notin Answering
  PROVE  ResultInv'
<1>1. \A u \in Conns : conn'[u] = IF u = t THEN d ELSE conn[u]
  BY DEF ResultIInv, Inv, Typed
<1>2. \A u \in Conns : Owned(conn'[u], log')
  BY <1>1 DEF ResultIInv, ResultInv
<1>3. Apart'
  BY <1>1 DEF ResultIInv, ResultInv, Apart
<1>4. Told(committed', log')
  <2>1. Told(committed, log)
    BY DEF ResultIInv, ResultInv
  <2>2. CASE committed' = committed
    BY <2>1, <2>2
  <2>3. CASE committed' = committed \cup conn[t].todo /\ conn[t].proc \notin Answering
    <3>1. \A e \in conn[t].todo :
             e[1] \in 1 .. Len(log) /\ (log[e[1]].proc \in Answering => log[e[1]].result = "yes")
      <4>1. Owned(conn[t], log) /\ log[conn[t].run].proc = conn[t].proc
        BY OwnedAt
      <4>2. \A e \in conn[t].todo : log[e[1]].proc \in Answering => e[1] # conn[t].run
        BY <2>3, <4>1
      <4> QED BY <4>1, <4>2 DEF Owned
    <3> QED BY <2>1, <2>3, <3>1 DEF Told
  <2> QED BY <2>2, <2>3
<1> QED BY <1>2, <1>3, <1>4 DEF ResultInv

\* A procedure ends and answers r: what that does to the log, to the changes
\* still pending and to those stored.
Ended(c, d, r, m) ==
  /\ c.at # "idle" /\ d.at = "idle" /\ d.run = 0 /\ d.proc = "none"
  /\ SameRuns(log, log')
  /\ \A n \in 1 .. Len(log) : n # c.run => log'[n] = log[n]
  /\ log'[c.run].result = r /\ log'[c.run].marred = m
  /\ \A e \in d.todo : e \in c.todo \/ e[1] = c.run
  /\ c.proc \in Answering /\ r # "yes" => \A e \in d.todo : e[1] # c.run
  /\ r = "yes" /\ ~m => /\ c.proc = "register" => <<c.run, 1>> \in committed'
                        /\ c.proc = "append" => Both(c.run) \subseteq committed'
  /\ \/ committed' = committed
     \/ committed' = committed \cup c.todo /\ (c.proc \in Answering => r = "yes")

\* Such an end keeps the invariant.
LEMMA Answers ==
  ASSUME ResultIInv, NEW t \in Conns, NEW d, NEW r, NEW m,
         conn' = [conn EXCEPT ![t] = d], Ended(conn[t], d, r, m)
  PROVE  ResultInv'
<1> USE DEF Ended
<1>0. PICK c : c = conn[t]
  OBVIOUS
<1>1. \A u \in Conns : conn'[u] = IF u = t THEN d ELSE conn[u]
  BY DEF ResultIInv, Inv, Typed
<1>2. /\ c.run \in 1 .. Len(log) /\ log[c.run].proc = c.proc
      /\ log[c.run].result = "none" /\ Owned(c, log)
  BY <1>0, OwnedAt DEF Owned
<1>3. /\ Len(log') = Len(log)
      /\ \A n \in 1 .. Len(log) : log'[n].proc = log[n].proc /\ (n # c.run => log'[n] = log[n])
  BY <1>0 DEF SameRuns
<1>4. \A e \in c.todo : /\ e[1] \in 1 .. Len(log)
                        /\ log[e[1]].proc \in Answering /\ e[1] # c.run => log[e[1]].result = "yes"
  BY <1>2 DEF Owned
<1>5. Owned(d, log')
  <2>1. \A e \in d.todo : /\ e[1] \in 1 .. Len(log')
                          /\ log'[e[1]].proc \in Answering => log'[e[1]].result = "yes"
    <3> SUFFICES ASSUME NEW e \in d.todo
                 PROVE  /\ e[1] \in 1 .. Len(log)
                        /\ log[e[1]].proc \in Answering => log'[e[1]].result = "yes"
      BY <1>2, <1>3, <1>4, <1>0
    <3>1. CASE e[1] = c.run
      BY <1>0, <1>2, <3>1
    <3>2. CASE e[1] # c.run
      <4>1. e \in c.todo
        BY <1>0, <3>2
      <4>2. /\ e[1] \in 1 .. Len(log)
            /\ log[e[1]].proc \in Answering => log[e[1]].result = "yes"
        BY <1>4, <3>2, <4>1
      <4> QED BY <1>3, <3>2, <4>2
    <3> QED BY <3>1, <3>2
  <2> QED BY <2>1 DEF Owned
<1>6. ASSUME NEW u \in Conns, u # t PROVE Owned(conn[u], log')
  <2>1. PICK b : b = conn[u]
    OBVIOUS
  <2>2. Owned(b, log) /\ b.run # c.run /\ (b.at # "idle" => b.run \in 1 .. Len(log))
    BY <1>0, <1>6, <2>1, OwnedAt DEF ResultIInv, ResultInv, Apart
  <2>3. b.at # "idle" => log'[b.run] = log[b.run]
    BY <1>3, <2>2
  <2>4. \A e \in b.todo :
          /\ e[1] \in 1 .. Len(log)
          /\ log[e[1]].proc \in Answering /\ e[1] # b.run =>
                log'[e[1]] = log[e[1]] /\ log[e[1]].result = "yes"
    <3> SUFFICES ASSUME NEW e \in b.todo
                 PROVE  /\ e[1] \in 1 .. Len(log)
                        /\ log[e[1]].proc \in Answering /\ e[1] # b.run =>
                             log'[e[1]] = log[e[1]] /\ log[e[1]].result = "yes"
      OBVIOUS
    <3>1. /\ e[1] \in 1 .. Len(log)
          /\ log[e[1]].proc \in Answering /\ e[1] # b.run => log[e[1]].result = "yes"
      BY <2>2 DEF Owned
    <3> QED BY <1>2, <1>3, <3>1
  <2>5. \A e \in b.todo :
          /\ e[1] \in 1 .. Len(log')
          /\ log'[e[1]].proc \in Answering /\ e[1] # b.run => log'[e[1]].result = "yes"
    BY <1>3, <2>4
  <2>6. Owned(b, log')
    BY <2>2, <2>3, <2>5, Zenon DEF Owned
  <2> QED BY <2>1, <2>6
<1>7. Apart'
  <2>1. ASSUME NEW u \in Conns, conn[u].at # "idle" PROVE conn[u].run # 0
    <3>1. conn[u].run \in 1 .. Len(log)
      BY <2>1, OwnedAt
    <3> QED BY <3>1
  <2> QED BY <1>1, <2>1, SMTT(30) DEF ResultIInv, ResultInv, Apart
<1>8. Told(committed', log')
  <2>1. Told(committed, log)
    BY DEF ResultIInv, ResultInv
  <2>2. committed \subseteq committed'
    OBVIOUS
  <2>3. \A e \in committed' : /\ e[1] \in 1 .. Len(log)
                              /\ log[e[1]].proc \in Answering => log'[e[1]].result = "yes"
    <3>1. \A e \in committed : /\ e[1] \in 1 .. Len(log)
                               /\ log[e[1]].proc \in Answering => log'[e[1]].result = "yes"
      BY <1>2, <1>3, <2>1 DEF Told
    <3>2. ASSUME NEW e \in c.todo, c.proc \in Answering => r = "yes"
          PROVE  /\ e[1] \in 1 .. Len(log)
                 /\ log[e[1]].proc \in Answering => log'[e[1]].result = "yes"
      <4>1. /\ e[1] \in 1 .. Len(log)
            /\ log[e[1]].proc \in Answering /\ e[1] # c.run => log[e[1]].result = "yes"
        BY <1>4, <3>2
      <4>2. CASE e[1] = c.run
        BY <1>0, <1>2, <3>2, <4>1, <4>2
      <4>3. CASE e[1] # c.run
        BY <1>3, <4>1, <4>3
      <4> QED BY <4>2, <4>3
    <3> QED BY <1>0, <3>1, <3>2
  <2>4. \A n \in 1 .. Len(log) : log'[n].result = "yes" /\ ~log'[n].marred =>
          /\ log'[n].proc = "register" => <<n, 1>> \in committed'
          /\ log'[n].proc = "append" => Both(n) \subseteq committed'
    <3> SUFFICES ASSUME NEW n \in 1 .. Len(log), log'[n].result = "yes", ~log'[n].marred
                 PROVE  /\ log'[n].proc = "register" => <<n, 1>> \in committed'
                        /\ log'[n].proc = "append" => Both(n) \subseteq committed'
      OBVIOUS
    <3>1. CASE n = c.run
      BY <1>0, <1>2, <1>3, <3>1
    <3>2. CASE n # c.run
      BY <1>3, <2>1, <2>2, <3>2 DEF Told
    <3> QED BY <3>1, <3>2
  <2>5. \A e \in committed' : /\ e[1] \in 1 .. Len(log')
                              /\ log'[e[1]].proc \in Answering => log'[e[1]].result = "yes"
    BY <1>3, <2>3
  <2>6. 1 .. Len(log') = 1 .. Len(log)
    BY <1>3
  <2> QED BY <2>4, <2>5, <2>6 DEF Told
<1> QED BY <1>1, <1>5, <1>6, <1>7, <1>8 DEF ResultInv

\* The end of a statement.
LEMMA FinishOwned ==
  ASSUME ResultIInv, NEW t \in Conns, NEW x \in ConnType, NEW rest,
         NEW r \in {"none", "yes", "no", "raised"},
         Finish(t, x, rest, r), conn[t].at # "idle",
         x.run = conn[t].run, x.proc = conn[t].proc,
         \A e \in x.todo : e \in conn[t].todo \/ e[1] = conn[t].run,
         rest # <<>> =>
           /\ x.marred = conn[t].marred /\ x.proc # "register"
           /\ x.proc = "append" =>
                /\ Head(rest) # "begin"
                /\ rest = <<"commit">> => ~x.auto /\ Both(x.run) \subseteq x.todo,
         rest = <<>> =>
           /\ x.proc \in Answering /\ r # "yes" => \A e \in x.todo : e[1] # x.run
           /\ r = "yes" /\ ~conn[t].marred =>
                /\ x.proc = "register" => <<x.run, 1>> \in committed'
                /\ x.proc = "append" => Both(x.run) \subseteq committed',
         \/ committed' = committed
         \/ /\ committed' = committed \cup conn[t].todo
            /\ x.proc \in Answering => r = "yes" /\ rest = <<>>
  PROVE  ResultInv'
<1>1. PICK d : d = Done(x, rest)
  OBVIOUS
<1>2. conn' = [conn EXCEPT ![t] = d]
  BY <1>1 DEF Finish, Done
<1>3. CASE rest = <<>>
  <2>1. d.at = "idle" /\ d.run = 0 /\ d.proc = "none" /\ d.todo = x.todo
    BY <1>1, <1>3 DEF Done, ConnType
  <2>2. log' = [log EXCEPT ![x.run].result = r]
    BY <1>3 DEF Finish
  <2>3. SameRuns(log, log')
    BY <2>2, LogUpdate, Zenon DEF ResultIInv, LogTyped
  <2>4. /\ x.run \in 1 .. Len(log) /\ log[x.run].marred = conn[t].marred
    BY OwnedAt DEF Owned
  <2>5. log \in Seq(LogEntry) /\ log[x.run] \in LogEntry
    <3>1. log \in Seq(LogEntry)
      BY DEF ResultIInv, LogTyped
    <3> QED BY <2>4, <3>1
  <2>6. \A e \in LogEntry : /\ [e EXCEPT !.result = r].result = r
                            /\ [e EXCEPT !.result = r].marred = e.marred
    BY DEF LogEntry
  <2>7. /\ log'[x.run] = [log[x.run] EXCEPT !.result = r]
        /\ \A n \in 1 .. Len(log) : n # x.run => log'[n] = log[n]
    BY <2>2, <2>4, <2>5
  <2>8. log'[x.run].result = r /\ log'[x.run].marred = conn[t].marred
    BY <2>4, <2>5, <2>6, <2>7
  <2>9. PICK m \in BOOLEAN : m = conn[t].marred
    BY OwnedAt DEF ConnType
  <2>10. /\ \A n \in 1 .. Len(log) : n # conn[t].run => log'[n] = log[n]
         /\ log'[conn[t].run].result = r /\ log'[conn[t].run].marred = m
    BY <2>7, <2>8, <2>9
  <2>11. /\ \A e \in d.todo : e \in conn[t].todo \/ e[1] = conn[t].run
         /\ conn[t].proc \in Answering /\ r # "yes" => \A e \in d.todo : e[1] # conn[t].run
    BY <1>3, <2>1
  <2>12. r = "yes" /\ ~m =>
           /\ conn[t].proc = "register" => <<conn[t].run, 1>> \in committed'
           /\ conn[t].proc = "append" => Both(conn[t].run) \subseteq committed'
    BY <1>3, <2>9
  <2>13. \/ committed' = committed
         \/ /\ committed' = committed \cup conn[t].todo
            /\ conn[t].proc \in Answering => r = "yes"
    OBVIOUS
  <2>14. Ended(conn[t], d, r, m)
    BY <2>1, <2>3, <2>10, <2>11, <2>12, <2>13 DEF Ended
  <2> QED BY <1>2, <2>14, Answers
<1>4. CASE rest # <<>>
  <2>1. /\ d.left = rest /\ d.at = "ready" /\ d.proc = x.proc /\ d.run = x.run
        /\ d.todo = x.todo /\ d.auto = x.auto /\ d.marred = x.marred
    BY <1>1, <1>4 DEF Done, ConnType
  <2>2. log' = log
    BY <1>4 DEF Finish
  <2>3. Owned(conn[t], log) /\ conn[t].run \in 1 .. Len(log)
    BY OwnedAt
  <2>4. \A e \in x.todo :
          /\ e[1] \in 1 .. Len(log)
          /\ log[e[1]].proc \in Answering /\ e[1] # x.run => log[e[1]].result = "yes"
    BY <2>3 DEF Owned
  <2>5. Owned(d, log)
    BY <1>4, <2>1, <2>3, <2>4 DEF Owned
  <2> QED BY <1>2, <1>4, <2>1, <2>2, <2>5, GoesOn
<1> QED BY <1>3, <1>4

\* A failed statement of a transaction or of a procedure of one statement.
LEMMA FailOwned ==
  ASSUME ResultIInv, NEW t \in Conns, NEW x \in ConnType, Fail(t, x), conn[t].at # "idle",
         committed' = committed, x.run = conn[t].run, x.proc = conn[t].proc,
         x.left = conn[t].left, x.marred = conn[t].marred,
         x.todo \in {{}, conn[t].todo},
         x.todo # {} => conn[t].at # "halt"
  PROVE  ResultInv'
<1>1. PICK rest : rest = AfterFailure(x.proc, Tail(x.left))
  OBVIOUS
<1>2. Finish(t, x, rest, "no")
  BY <1>1 DEF Fail
<1>3. Owned(conn[t], log)
  BY OwnedAt
<1>4. x.proc = "append" => rest = <<"rollback">> /\ rest # <<>> /\ rest # <<"commit">>
                           /\ Head(rest) # "begin"
  BY <1>1, AppendFacts DEF AfterFailure
<1>5. x.proc = "register" => rest = <<>>
  <2>1. Tail(<<"write">>) = <<>>
    OBVIOUS
  <2>2. x.proc = "register" => x.left = <<"write">>
    BY <1>3 DEF Owned
  <2> QED BY <1>1, <2>1, <2>2 DEF AfterFailure
<1>6. x.proc = "register" => \A e \in x.todo : e[1] # x.run
  BY <1>3 DEF Owned
<1> QED BY <1>2, <1>4, <1>5, <1>6, FinishOwned DEF Answering

\* A thread that stays at the same statement.
LEMMA StayOwned ==
  ASSUME ResultIInv, NEW t \in Conns, NEW d, conn' = [conn EXCEPT ![t] = d], log' = log,
         committed' = committed, conn[t].at # "idle", d.at # "idle", d.todo = conn[t].todo,
         d.run = conn[t].run, d.proc = conn[t].proc, d.left = conn[t].left,
         d.auto = conn[t].auto, d.marred = conn[t].marred,
         d.proc = "register" => (d.at = "halt" <=> conn[t].at = "halt")
  PROVE  ResultInv'
<1>1. Owned(conn[t], log)
  BY OwnedAt
<1>2. Owned(d, log)
  BY <1>1 DEF Owned
<1> QED BY <1>2, GoesOn

\* A statement that succeeds, by the answer a last one gives.
LEMMA SucceedForm ==
  ASSUME ResultIInv, NEW t \in Conns, NEW x \in ConnType, Succeed(t, x),
         x.left = conn[t].left
  PROVE  /\ Head(conn[t].left) = "rollback" => Finish(t, x, Tail(conn[t].left), "no")
         /\ Head(conn[t].left) # "rollback" => Finish(t, x, Tail(conn[t].left), "yes")
BY DEF Succeed, Op

\* The statements of the two procedures.
LEMMA AnsweringLefts ==
  ASSUME ResultIInv, NEW t \in Conns, conn[t].proc \in Answering
  PROVE  LET c == conn[t]
         IN  /\ c.proc = "register" => /\ c.left = <<"write">> /\ Head(c.left) = "write"
                                       /\ Tail(c.left) = <<>>
             /\ c.proc = "append" => /\ c.left \in AppendLefts
                                     /\ Head(c.left) = "write" => ~c.auto
<1>1. Mine(conn[t], log) /\ Owned(conn[t], log)
  BY OwnedAt
<1>2. Head(<<"write">>) = "write" /\ Tail(<<"write">>) = <<>>
  OBVIOUS
<1> QED BY <1>1, <1>2 DEF Mine, Owned

\* The statements that open, end or abandon a transaction.
LEMMA TransactionOwned ==
  ASSUME ResultIInv, NEW t \in Conns,
         \/ beginTransaction(t) \/ rollbackTransaction(t) \/ commitTransaction(t)
         \/ HaltRead(t) \/ HaltWrite(t) \/ Interrupt(t)
  PROVE  ResultInv'
<1> SUFFICES ASSUME NEW c \in ConnType, c = conn[t] PROVE ResultInv'
  BY OwnedAt
<1>1. Shape(c) /\ Locked(c, held[t]) /\ Owned(c, log) /\ Mine(c, log)
  BY OwnedAt
<1>2. /\ c.proc = "register" => /\ c.left = <<"write">> /\ Head(c.left) = "write"
                                /\ Tail(c.left) = <<>>
      /\ c.proc = "append" => /\ c.left \in AppendLefts
                              /\ Head(c.left) = "write" => ~c.auto
  BY AnsweringLefts DEF Answering
<1>3. Answering = {"register", "append"}
  BY DEF Answering
<1>4. CASE beginTransaction(t)
  <2>1. c.at = "ready" /\ Head(c.left) = "begin" /\ committed' = committed
    BY <1>4, SMTT(30) DEF beginTransaction, Op
  <2>2. c.proc # "register"
    BY <1>2, <2>1
  <2>3. CASE ~c.flag /\ c.auto
    <3> DEFINE x == [c EXCEPT !.flag = TRUE, !.auto = FALSE]
    <3>1. /\ x \in ConnType /\ x.run = c.run /\ x.proc = c.proc /\ x.todo = c.todo
          /\ x.marred = c.marred
      BY Zenon DEF ConnType
    <3>2. Finish(t, x, Tail(c.left), "yes")
      BY <1>4, <2>3 DEF beginTransaction
    <3>3. c.proc = "append" => /\ Tail(c.left) # <<>> /\ Tail(c.left) # <<"commit">>
                               /\ Head(Tail(c.left)) # "begin"
      <4>1. <<"write", "write", "commit">> # <<"commit">>
        OBVIOUS
      <4> QED BY <1>2, <2>1, <4>1, AppendFacts
    <3> HIDE DEF x
    <3> QED BY <1>3, <2>1, <2>2, <3>1, <3>2, <3>3, FinishOwned
  <2>4. CASE ~(~c.flag /\ c.auto)
    <3> DEFINE x == [c EXCEPT !.flag = TRUE]
    <3>1. x \in ConnType /\ x.run = c.run /\ x.proc = c.proc /\ x.todo = c.todo
      BY Zenon DEF ConnType
    <3>2. Finish(t, x, <<>>, "no")
      BY <1>4, <2>4 DEF beginTransaction
    <3>3. c.proc = "append" => \A e \in c.todo : e[1] # c.run
      BY <1>1, <2>1 DEF Owned
    <3> HIDE DEF x
    <3> QED BY <1>3, <2>1, <2>2, <3>1, <3>2, <3>3, FinishOwned
  <2> QED BY <2>3, <2>4
<1>5. CASE rollbackTransaction(t)
  <2> DEFINE x == [c EXCEPT !.flag = FALSE, !.auto = TRUE, !.trans = "none", !.todo = {}]
  <2>1. c.at = "ready" /\ Head(c.left) = "rollback" /\ committed' = committed
    BY <1>5 DEF rollbackTransaction, Op
  <2>2. /\ x \in ConnType /\ x.run = c.run /\ x.proc = c.proc /\ x.todo = {} /\ x.left = c.left
        /\ x.marred = c.marred
    BY ZenonT(30) DEF ConnType
  <2>3. Succeed(t, x)
    BY <1>5 DEF rollbackTransaction
  <2> HIDE DEF x
  <2>4. Finish(t, x, Tail(c.left), "no")
    BY <2>1, <2>2, <2>3, SucceedForm
  <2>5. c.proc # "register" /\ (c.proc = "append" => Tail(c.left) = <<>>)
    BY <1>2, <2>1, AppendFacts
  <2> QED BY <1>3, <2>1, <2>2, <2>4, <2>5, FinishOwned
<1>6. CASE commitTransaction(t)
  <2> DEFINE x == [c EXCEPT !.flag = FALSE]
             y == [x EXCEPT !.at = "halt"]
  <2>1. c.at = "ready" /\ Head(c.left) = "commit" /\ committed' = committed
    BY <1>6 DEF commitTransaction, Op
  <2>2. c.proc # "register"
    BY <1>2, <2>1
  <2>3. CASE c.auto
    <3>1. /\ x \in ConnType /\ x.run = c.run /\ x.proc = c.proc /\ x.todo = c.todo
          /\ x.left = c.left /\ x.marred = c.marred
      BY Zenon DEF ConnType
    <3>2. Succeed(t, x)
      BY <1>6, <2>3 DEF commitTransaction
    <3> HIDE DEF x
    <3>3. Finish(t, x, Tail(c.left), "yes")
      BY <2>1, <3>1, <3>2, SucceedForm
    <3>4. c.proc # "append"
      BY <1>1, <1>2, <2>1, <2>3, AppendFacts DEF Owned
    <3> QED BY <1>3, <2>1, <2>2, <3>1, <3>3, <3>4, FinishOwned
  <2>4. CASE ~c.auto
    <3>1. /\ y.at = "halt" /\ y.run = c.run /\ y.proc = c.proc /\ y.todo = c.todo
          /\ y.left = c.left /\ y.auto = c.auto /\ y.marred = c.marred
      BY DEF ConnType
    <3>2. conn' = [conn EXCEPT ![t] = y] /\ log' = log
      BY <1>6, <2>4 DEF commitTransaction
    <3> HIDE DEF x, y
    <3> QED BY <2>1, <2>2, <3>1, <3>2, StayOwned
  <2> QED BY <2>3, <2>4
<1>7. CASE HaltRead(t)
  <2> DEFINE x == [c EXCEPT !.auto = TRUE, !.trans = "none"]
  <2>1. c.at = "halt" /\ c.trans # "write" /\ committed' = committed
    BY <1>7 DEF HaltRead
  <2>2. c.todo = {} /\ Head(c.left) = "commit"
    BY <1>1, <2>1 DEF Shape, Locked
  <2>3. /\ x \in ConnType /\ x.run = c.run /\ x.proc = c.proc /\ x.todo = c.todo
        /\ x.left = c.left /\ x.marred = c.marred
    BY Zenon DEF ConnType
  <2>4. Succeed(t, x)
    BY <1>7 DEF HaltRead
  <2> HIDE DEF x
  <2>5. Finish(t, x, Tail(c.left), "yes")
    BY <2>2, <2>3, <2>4, SucceedForm
  <2>6. c.proc \notin Answering
    BY <1>1, <1>2, <1>3, <2>2, AppendFacts DEF Owned, Both
  <2> QED BY <1>3, <2>1, <2>2, <2>3, <2>5, <2>6, FinishOwned
<1>8. CASE HaltWrite(t)
  <2> DEFINE x == [c EXCEPT !.auto = TRUE, !.trans = "none", !.todo = {}]
  <2>1. c.at = "halt" /\ committed' = committed \cup c.todo
    BY <1>8 DEF HaltWrite
  <2>2. (Head(c.left) = "write" /\ c.auto) \/ Head(c.left) = "commit"
    BY <1>1, <2>1 DEF Shape
  <2>3. /\ x \in ConnType /\ x.run = c.run /\ x.proc = c.proc /\ x.todo = {} /\ x.left = c.left
        /\ x.marred = c.marred
    BY ZenonT(30) DEF ConnType
  <2>4. Succeed(t, x)
    BY <1>8 DEF HaltWrite
  <2> HIDE DEF x
  <2>5. Finish(t, x, Tail(c.left), "yes")
    BY <2>2, <2>3, <2>4, SucceedForm
  <2>6. c.proc = "append" => Tail(c.left) = <<>> /\ Both(c.run) \subseteq c.todo
    BY <1>1, <1>2, <2>2, AppendFacts DEF Owned
  <2>7. c.proc = "register" => Tail(c.left) = <<>> /\ <<c.run, 1>> \in c.todo
    BY <1>1, <1>2, <2>1 DEF Owned
  <2>8. c.proc \in Answering => Tail(c.left) = <<>>
    BY <1>3, <2>6, <2>7
  <2> QED BY <1>3, <2>1, <2>3, <2>5, <2>6, <2>7, <2>8, FinishOwned
<1>9. CASE Interrupt(t)
  <2> DEFINE x == [c EXCEPT !.marred = TRUE]
  <2>1. c.at = "ready" /\ c.proc = "updateDB" /\ committed' = committed
    BY <1>9 DEF Interrupt
  <2>2. x \in ConnType /\ x.run = c.run /\ x.proc = c.proc /\ x.todo = c.todo
    BY Zenon DEF ConnType
  <2>3. Finish(t, x, <<>>, "raised")
    BY <1>9 DEF Interrupt
  <2> HIDE DEF x
  <2> QED BY <1>3, <2>1, <2>2, <2>3, FinishOwned
<1> QED BY <1>4, <1>5, <1>6, <1>7, <1>8, <1>9

\* A statement that changes rows: of a transaction, or the only one.
LEMMA ChangeOwned ==
  ASSUME ResultIInv, NEW t \in Conns, committed' = committed,
         conn[t].at \in {"run", "spill"}, Head(conn[t].left) = "write",
         \/ /\ conn[t].auto /\ log' = log
            /\ conn' = [conn EXCEPT ![t] = [Change(conn[t]) EXCEPT !.at = "halt"]]
         \/ ~conn[t].auto /\ Succeed(t, Change(conn[t]))
  PROVE  ResultInv'
<1> SUFFICES ASSUME NEW c \in ConnType, c = conn[t] PROVE ResultInv'
  BY OwnedAt
<1> SUFFICES ASSUME NEW x \in ConnType, x = Change(c),
                    x.todo = c.todo \cup {<<c.run, Len(c.left)>>}, x.run = c.run,
                    x.proc = c.proc, x.left = c.left, x.auto = c.auto, x.marred = c.marred
             PROVE  ResultInv'
  <2>1. Inv
    BY DEF ResultIInv
  <2>2. Change(c).marred = c.marred
    BY DEF Change, ConnType
  <2> QED BY <2>1, <2>2, At, ChangeFacts
<1>1. Flagged(c) /\ Owned(c, log) /\ Mine(c, log) /\ c.run \in 1 .. Len(log)
  BY OwnedAt
<1>2. /\ c.proc = "register" => /\ c.left = <<"write">> /\ Head(c.left) = "write"
                                /\ Tail(c.left) = <<>>
      /\ c.proc = "append" => c.left \in AppendLefts /\ ~c.auto
  BY AnsweringLefts DEF Answering
<1>3. \A e \in x.todo : e \in c.todo \/ e[1] = c.run
  OBVIOUS
<1>4. CASE c.auto /\ log' = log /\ conn' = [conn EXCEPT ![t] = [x EXCEPT !.at = "halt"]]
  <2> DEFINE d == [x EXCEPT !.at = "halt"]
  <2>1. /\ d.at = "halt" /\ d.todo = x.todo /\ d.run = x.run /\ d.proc = x.proc
        /\ d.left = x.left /\ d.marred = x.marred
    BY DEF ConnType
  <2>2. c.proc # "append"
    BY <1>2, <1>4
  <2> HIDE DEF d
  <2>3. c.proc = "register" => <<c.run, 1>> \in x.todo
    <3>1. Len(<<"write">>) = 1
      OBVIOUS
    <3> QED BY <1>2, <3>1
  <2>4. \A e \in x.todo :
          /\ e[1] \in 1 .. Len(log)
          /\ log[e[1]].proc \in Answering /\ e[1] # c.run => log[e[1]].result = "yes"
    BY <1>1, <1>3 DEF Owned
  <2>5. Owned(d, log)
    BY <1>1, <1>2, <2>1, <2>2, <2>3, <2>4 DEF Owned
  <2> QED BY <1>4, <2>1, <2>5, GoesOn DEF d
<1>5. CASE ~c.auto /\ Succeed(t, x)
  <2>1. Finish(t, x, Tail(c.left), "yes")
    BY <1>5, SucceedForm
  <2>2. c.proc = "register" => conn[t].marred
    BY <1>1, <1>5 DEF Flagged
  <2>3. c.proc = "append" => /\ Tail(c.left) # <<>> /\ Head(Tail(c.left)) # "begin"
                             /\ Tail(c.left) = <<"commit">> => c.left = Halfway
    BY <1>2, AppendFacts
  <2>4. c.proc = "append" /\ c.left = Halfway => Both(c.run) \subseteq x.todo
    BY <1>1, AppendFacts DEF Mine, Both
  <2> QED BY <1>2, <1>3, <1>5, <2>1, <2>2, <2>3, <2>4, FinishOwned DEF Answering
<1> QED BY <1>4, <1>5

\* The steps of a statement that reads or writes tables.
LEMMA StatementOwned ==
  ASSUME ResultIInv, NEW t \in Conns,
         \/ Prepare(t) \/ LoadSchema(t) \/ StepShared(t) \/ StepRead(t)
         \/ StepReserve(t) \/ StepRun(t) \/ Pend(t) \/ StepSpill(t)
  PROVE  ResultInv'
<1> SUFFICES ASSUME NEW c \in ConnType, c = conn[t] PROVE ResultInv'
  BY OwnedAt
<1>2. Shape(c) /\ Locked(c, held[t]) /\ Mine(c, log) /\ Owned(c, log) /\ c.at # "idle"
  BY OwnedAt DEF Prepare, LoadSchema, StepShared, StepRead, StepReserve, StepRun, Pend, StepSpill
<1>3. committed' = committed
  BY SMTT(30) DEF Prepare, LoadSchema, StepShared, StepRead, StepReserve, StepRun, Pend, StepSpill
<1>4. ASSUME c.at # "halt", Fail(t, c) PROVE ResultInv'
  BY <1>2, <1>3, <1>4, FailOwned
<1>5. ASSUME NEW p \in {"load", "step", "locked", "run", "spill"}, c.at # "halt",
             Goto(t, p), log' = log
      PROVE  ResultInv'
  <2> DEFINE d == [c EXCEPT !.at = p]
  <2>1. /\ d.at = p /\ d.todo = c.todo /\ d.run = c.run /\ d.proc = c.proc
        /\ d.left = c.left /\ d.auto = c.auto /\ d.marred = c.marred
    BY DEF ConnType
  <2>2. conn' = [conn EXCEPT ![t] = d]
    BY <1>5 DEF Goto
  <2> HIDE DEF d
  <2> QED BY <1>2, <1>3, <1>5, <2>1, <2>2, StayOwned
<1>6. ASSUME c.at # "halt", Refused(t) PROVE ResultInv'
  <2>0. PICK n : n = Counted(c.busy)
    OBVIOUS
  <2> DEFINE d == [c EXCEPT !.busy = n, !.at = "step"]
  <2>1. /\ d.at = "step" /\ d.run = c.run /\ d.proc = c.proc /\ d.todo = c.todo
        /\ d.left = c.left /\ d.auto = c.auto /\ d.marred = c.marred
    BY DEF ConnType
  <2>2. Fail(t, c) \/ (conn' = [conn EXCEPT ![t] = d] /\ log' = log)
    BY <1>6, <2>0, Zenon DEF Refused
  <2> HIDE DEF d
  <2> QED BY <1>2, <1>3, <1>4, <1>6, <2>1, <2>2, StayOwned
<1>7. CASE Prepare(t)
  <2>1. c.at # "halt" /\ (Fail(t, c) \/ (log' = log /\ (Goto(t, "step") \/ Goto(t, "load"))))
    <3>1. c.at = "ready"
      BY <1>7, Zenon DEF Prepare
    <3>2. Fail(t, c) \/ (log' = log /\ (Goto(t, "step") \/ Goto(t, "load")))
      BY <1>7, Zenon DEF Prepare
    <3> QED BY <3>1, <3>2
  <2> QED BY <1>4, <1>5, <2>1
<1>8. CASE LoadSchema(t)
  <2> SUFFICES ASSUME NEW tr, tr = IF c.auto THEN "none" ELSE "read" PROVE ResultInv'
    OBVIOUS
  <2> DEFINE d == [c EXCEPT !.schema = TRUE, !.at = "step", !.trans = tr]
  <2>1. /\ d.at = "step" /\ d.run = c.run /\ d.proc = c.proc /\ d.todo = c.todo
        /\ d.left = c.left /\ d.auto = c.auto /\ d.marred = c.marred
    BY DEF ConnType
  <2>2. conn' = [conn EXCEPT ![t] = d] /\ log' = log /\ c.at # "halt"
    BY <1>8 DEF LoadSchema
  <2> HIDE DEF d
  <2> QED BY <1>2, <1>3, <2>1, <2>2, StayOwned
<1>9. CASE StepShared(t)
  <2>1. c.at # "halt" /\ (Refused(t) \/ (log' = log /\ Goto(t, "locked")))
    BY <1>9, SMTT(30) DEF StepShared
  <2> QED BY <1>5, <1>6, <2>1
<1>10. CASE StepRead(t)
  <2> DEFINE e == IF conn[t].auto \/ conn[t].trans = "write" THEN conn[t]
                                       ELSE [conn[t] EXCEPT !.trans = "read"]
             x == IF c.auto \/ c.trans = "write" THEN c ELSE [c EXCEPT !.trans = "read"]
  <2>1. \/ Succeed(t, e)
        \/ conn[t].proc = "resetNewStatus" /\ Finish(t, e, <<"commit">>, "yes")
    BY <1>10, Zenon DEF StepRead
  <2>2. e = x
    OBVIOUS
  <2>3. /\ x \in ConnType /\ x.run = c.run /\ x.proc = c.proc /\ x.todo = c.todo
        /\ x.left = c.left /\ x.marred = c.marred
    BY SMTT(30) DEF ConnType
  <2>4. Head(c.left) = "read"
    BY <1>10 DEF StepRead, Op
  <2>5. c.proc \notin Answering
    BY <2>4, AnsweringLefts, AppendFacts DEF Answering
  <2> HIDE DEF e, x
  <2>6. \E rest : Finish(t, x, rest, "yes")
    BY <2>1, <2>2, <2>3, <2>4, SucceedForm
  <2> QED BY <1>2, <1>3, <2>3, <2>5, <2>6, FinishOwned DEF Answering
<1>11. CASE StepReserve(t)
  <2> DEFINE d == [c EXCEPT !.at = "run", !.trans = "write"]
  <2>1. /\ d.at = "run" /\ d.run = c.run /\ d.proc = c.proc /\ d.todo = c.todo
        /\ d.left = c.left /\ d.auto = c.auto /\ d.marred = c.marred
    BY DEF ConnType
  <2>2. c.at # "halt" /\ (Refused(t) \/ (log' = log /\ (Goto(t, "run") \/ conn' = [conn EXCEPT ![t] = d])))
    BY <1>11, SMTT(30) DEF StepReserve
  <2> HIDE DEF d
  <2> QED BY <1>2, <1>3, <1>5, <1>6, <2>1, <2>2, StayOwned
<1>12. CASE StepRun(t)
  <2>1. Head(c.left) = "write" /\ c.at = "run"
    BY <1>2, <1>12 DEF Shape, StepRun
  <2>2. \/ /\ conn[t].auto /\ log' = log
           /\ conn' = [conn EXCEPT ![t] = [Change(conn[t]) EXCEPT !.at = "halt"]]
        \/ ~conn[t].auto /\ Succeed(t, Change(conn[t]))
        \/ Goto(t, "spill") /\ log' = log
    BY <1>12 DEF StepRun
  <2> QED BY <1>3, <1>5, <2>1, <2>2, ChangeOwned
<1>13. CASE Pend(t)
  <2>1. conn' = [conn EXCEPT ![t] = c] /\ log' = log
    BY <1>13 DEF Pend, ResultIInv, Inv, Typed
  <2> QED BY <1>2, <1>3, <2>1, StayOwned
<1>14. CASE StepSpill(t)
  <2> DEFINE w == [conn[t] EXCEPT !.auto = TRUE, !.trans = "none", !.todo = {}]
             x == [c EXCEPT !.auto = TRUE, !.trans = "none", !.todo = {}]
  <2>1. Head(c.left) = "write" /\ c.at = "spill"
    BY <1>2, <1>14 DEF Shape, StepSpill
  <2>2. \/ /\ conn[t].auto /\ log' = log
           /\ conn' = [conn EXCEPT ![t] = [Change(conn[t]) EXCEPT !.at = "halt"]]
        \/ ~conn[t].auto /\ Succeed(t, Change(conn[t]))
        \/ held[t] = EXCLUSIVE_LOCK /\ Succeed(t, Change(conn[t]))
        \/ Fail(t, w)
        \/ Fail(t, conn[t])
    BY <1>14, Zenon DEF StepSpill
  <2>3. w = x
    OBVIOUS
  <2>4. /\ x \in ConnType /\ x.run = c.run /\ x.proc = c.proc /\ x.todo = {}
        /\ x.left = c.left /\ x.marred = c.marred
    BY ZenonT(30) DEF ConnType
  <2> HIDE DEF w, x
  <2>5. CASE Fail(t, w)
    BY <1>2, <1>3, <2>3, <2>4, <2>5, FailOwned
  <2>6. CASE held[t] = EXCLUSIVE_LOCK /\ Succeed(t, Change(conn[t]))
    <3>1. ~conn[t].auto
      BY <1>2, <2>1, <2>6 DEF Locked
    <3> QED BY <1>3, <2>1, <2>6, <3>1, ChangeOwned
  <2>7. CASE Fail(t, conn[t])
    BY <1>4, <2>1, <2>7
  <2> QED BY <1>3, <2>1, <2>2, <2>5, <2>6, <2>7, ChangeOwned
<1> QED BY <1>7, <1>8, <1>9, <1>10, <1>11, <1>12, <1>13, <1>14

\* A commit that waits for its lock, or gives up.
LEMMA HaltLockOwned ==
  ASSUME ResultIInv, NEW t \in Conns, HaltLock(t)
  PROVE  ResultInv'
<1> SUFFICES ASSUME NEW c \in ConnType, c = conn[t],
                    NEW n \in Nat, n = Counted(c.busy) PROVE ResultInv'
  BY OwnedAt DEF ConnType, Counted
<1> DEFINE d == [c EXCEPT !.busy = n]
           w == [conn[t] EXCEPT !.trans = "none", !.todo = {}]
           x == [c EXCEPT !.trans = "none", !.todo = {}]
           z == [c EXCEPT !.left = <<>>, !.at = "idle",
                          !.proc = "none", !.run = 0, !.busy = 0, !.marred = TRUE]
<1>1. Shape(c) /\ Owned(c, log) /\ c.at = "halt" /\ committed' = committed
  BY OwnedAt DEF HaltLock
<1>2. c.run \in 1 .. Len(log) /\ log[c.run].proc = c.proc
  BY <1>1, OwnedAt
<1>3. /\ d.at = c.at /\ d.run = c.run /\ d.proc = c.proc /\ d.todo = c.todo
      /\ d.left = c.left /\ d.auto = c.auto /\ d.marred = c.marred
  BY DEF ConnType
<1>4. /\ x \in ConnType /\ x.run = c.run /\ x.proc = c.proc /\ x.todo = {}
      /\ x.left = c.left /\ x.marred = c.marred
  BY ZenonT(30) DEF ConnType
<1>5. z.at = "idle" /\ z.proc = "none" /\ z.run = 0 /\ z.todo = c.todo
  BY DEF ConnType
<1>6. w = x
  OBVIOUS
<1>7. \/ UNCHANGED <<conn, log>>
      \/ conn' = [conn EXCEPT ![t].busy = Counted(@)] /\ log' = log
      \/ Fail(t, w)
      \/ /\ conn' = [conn EXCEPT ![t] = [conn[t] EXCEPT !.left = <<>>, !.at = "idle",
                        !.proc = "none", !.run = 0, !.busy = 0, !.marred = TRUE]]
         /\ log' = [log EXCEPT ![conn[t].run] = [@ EXCEPT !.result = "yes", !.marred = TRUE]]
  BY Zenon DEF HaltLock
<1>8. CASE UNCHANGED <<conn, log>>
  <2>1. conn' = [conn EXCEPT ![t] = c]
    BY <1>8 DEF ResultIInv, Inv, Typed
  <2> HIDE DEF d, w, x, z
  <2> QED BY <1>1, <1>8, <2>1, StayOwned
<1>9. CASE conn' = [conn EXCEPT ![t].busy = Counted(@)] /\ log' = log
  <2>1. conn' = [conn EXCEPT ![t] = d]
    BY <1>9
  <2> HIDE DEF d, w, x, z
  <2>2. conn[t].at # "idle" /\ d.at # "idle" /\ d.at = conn[t].at /\ d.todo = conn[t].todo
    BY <1>1, <1>3
  <2>3. /\ d.run = conn[t].run /\ d.proc = conn[t].proc /\ d.left = conn[t].left
        /\ d.auto = conn[t].auto /\ d.marred = conn[t].marred
    BY <1>3
  <2>4. d.proc = "register" => (d.at = "halt" <=> conn[t].at = "halt")
    BY <2>2
  <2>5. log' = log /\ committed' = committed
    BY <1>1, <1>9
  <2> QED BY <2>1, <2>2, <2>3, <2>4, <2>5, StayOwned
<1>10. CASE Fail(t, w)
  <2> HIDE DEF d, w, x, z
  <2> QED BY <1>1, <1>4, <1>6, <1>10, FailOwned
<1>11. CASE /\ conn' = [conn EXCEPT ![t] = z]
            /\ log' = [log EXCEPT ![c.run] = [@ EXCEPT !.result = "yes", !.marred = TRUE]]
  <2>1. SameRuns(log, log')
    BY <1>11, LogUpdate, Zenon DEF ResultIInv, LogTyped
  <2>2. log \in Seq(LogEntry) /\ log[c.run] \in LogEntry
    BY <1>2 DEF ResultIInv, LogTyped
  <2>3. \A e \in LogEntry : /\ [e EXCEPT !.result = "yes", !.marred = TRUE].result = "yes"
                            /\ [e EXCEPT !.result = "yes", !.marred = TRUE].marred = TRUE
    BY DEF LogEntry
  <2>4. /\ log'[c.run] = [log[c.run] EXCEPT !.result = "yes", !.marred = TRUE]
        /\ \A k \in 1 .. Len(log) : k # c.run => log'[k] = log[k]
    <3>1. PICK e : e = [log[c.run] EXCEPT !.result = "yes", !.marred = TRUE]
      OBVIOUS
    <3>2. log' = [log EXCEPT ![c.run] = e]
      BY <1>11, <3>1
    <3>3. DOMAIN log = 1 .. Len(log)
      BY <2>2
    <3>4. /\ log'[c.run] = e
          /\ \A k \in 1 .. Len(log) : k # c.run => log'[k] = log[k]
      BY <1>2, <3>2, <3>3, Zenon
    <3> QED BY <3>1, <3>4, Zenon
  <2>5. log'[c.run].result = "yes" /\ log'[c.run].marred = TRUE
    BY <2>2, <2>3, <2>4
  <2> HIDE DEF d, w, x, z
  <2>6. Ended(conn[t], z, "yes", TRUE)
    BY <1>1, <1>5, <2>1, <2>4, <2>5 DEF Ended
  <2> QED BY <1>11, <2>6, Answers
<1> QED BY <1>7, <1>8, <1>9, <1>10, <1>11

\* A procedure that starts has no change in any transaction.
LEMMA StartOwned ==
  ASSUME ResultIInv, NEW t \in Conns, NEW p \in Procedures, Start(t, p)
  PROVE  ResultInv'
<1> SUFFICES ASSUME NEW c \in ConnType, c = conn[t], NEW m \in Nat, m = Len(log)
             PROVE  ResultInv'
  BY OwnedAt DEF ResultIInv, LogTyped
<1> DEFINE d == [c EXCEPT !.proc = p, !.run = m + 1, !.left = Script(p), !.at = "ready"]
<1>1. /\ Len(log') = m + 1
      /\ log'[m + 1].proc = p /\ log'[m + 1].result = "none" /\ log'[m + 1].marred = c.marred
      /\ \A n \in 1 .. m : log'[n] = log[n]
  BY DEF Start, ResultIInv, LogTyped
<1>2. /\ d.at = "ready" /\ d.proc = p /\ d.run = m + 1 /\ d.left = Script(p)
      /\ d.todo = c.todo /\ d.marred = c.marred
  BY DEF ConnType
<1>3. \A u \in Conns : conn'[u] = IF u = t THEN d ELSE conn[u]
  BY DEF Start, ResultIInv, Inv, Typed
<1>4. c.at = "idle" /\ Mine(c, log) /\ Owned(c, log)
  BY OwnedAt DEF Start
<1>5. /\ p = "append" => Script(p) # <<"commit">>
      /\ p = "register" => Script(p) = <<"write">>
  <2>1. <<"begin", "write", "write", "commit">> # <<"commit">>
    OBVIOUS
  <2> QED BY <2>1 DEF Script, AppendScript, RegisterScript
<1> HIDE DEF d
<1>6. Owned(d, log')
  <2>1. \A e \in c.todo : /\ e[1] \in 1 .. m /\ e[1] # m + 1
                          /\ log[e[1]].proc \in Answering => log[e[1]].result = "yes"
    <3>1. c.run = 0
      BY <1>4 DEF Mine
    <3>2. \A e \in c.todo :
            /\ e[1] \in 1 .. m
            /\ log[e[1]].proc \in Answering /\ e[1] # 0 => log[e[1]].result = "yes"
      BY <1>4, <3>1 DEF Owned
    <3>3. \A k \in 1 .. m : k # 0 /\ k # m + 1
      OBVIOUS
    <3> QED BY <3>2, <3>3
  <2>2. \A e \in c.todo : /\ e[1] \in 1 .. Len(log') /\ e[1] # m + 1
                          /\ log'[e[1]].proc \in Answering => log'[e[1]].result = "yes"
    <3>1. \A k \in 1 .. m : k \in 1 .. Len(log') /\ log'[k] = log[k]
      BY <1>1
    <3> QED BY <2>1, <3>1
  <2> QED BY <1>1, <1>2, <1>5, <2>2 DEF Owned
<1>7. ASSUME NEW u \in Conns, u # t PROVE Owned(conn[u], log')
  <2>1. PICK b : b = conn[u]
    OBVIOUS
  <2>2. Owned(b, log) /\ (b.at # "idle" => b.run \in 1 .. m)
    BY <2>1, OwnedAt
  <2>3. b.at # "idle" => log'[b.run] = log[b.run]
    BY <1>1, <2>2
  <2>4. \A e \in b.todo :
          /\ e[1] \in 1 .. m
          /\ log[e[1]].proc \in Answering /\ e[1] # b.run => log[e[1]].result = "yes"
    BY <2>2 DEF Owned
  <2>5. \A e \in b.todo :
          /\ e[1] \in 1 .. Len(log')
          /\ log'[e[1]].proc \in Answering /\ e[1] # b.run => log'[e[1]].result = "yes"
    BY <1>1, <2>4
  <2>6. Owned(b, log')
    BY <2>2, <2>3, <2>5 DEF Owned
  <2> QED BY <2>1, <2>6
<1>8. Apart'
  <2>1. \A u \in Conns : conn[u].run # m + 1 /\ (conn[u].at # "idle" => conn[u].run # 0)
    <3>1. ASSUME NEW u \in Conns
          PROVE  /\ conn[u].at = "idle" => conn[u].run = 0
                 /\ conn[u].at # "idle" => conn[u].run \in 1 .. m
      BY OwnedAt DEF Mine
    <3> QED BY <3>1
  <2> QED BY <1>2, <1>3, <1>4, <2>1 DEF ResultIInv, ResultInv, Apart
<1>9. Told(committed', log')
  <2>1. Told(committed, log) /\ committed' = committed
    BY DEF ResultIInv, ResultInv, Start
  <2>2. \A n \in 1 .. m + 1 : n = m + 1 \/ n \in 1 .. m
    OBVIOUS
  <2>3. \A e \in committed : /\ e[1] \in 1 .. m
                             /\ log[e[1]].proc \in Answering => log[e[1]].result = "yes"
    BY <2>1 DEF Told
  <2>4. \A e \in committed : /\ e[1] \in 1 .. Len(log')
                             /\ log'[e[1]].proc \in Answering => log'[e[1]].result = "yes"
    BY <1>1, <2>3
  <2>5. \A n \in 1 .. m + 1 : log'[n].result = "yes" /\ ~log'[n].marred =>
          /\ log'[n].proc = "register" => <<n, 1>> \in committed
          /\ log'[n].proc = "append" => Both(n) \subseteq committed
    BY <1>1, <2>1, <2>2 DEF Told
  <2> QED BY <1>1, <2>1, <2>4, <2>5 DEF Told
<1> QED BY <1>3, <1>6, <1>7, <1>8, <1>9 DEF ResultInv

\* A connection closed takes its changes with it.
LEMMA ExitOwned ==
  ASSUME ResultIInv, NEW t \in Conns, Exit(t)
  PROVE  ResultInv'
<1>1. log' = log /\ committed' = committed
  BY DEF Exit
<1>2. \A u \in Conns : conn'[u] = IF u = t THEN Fresh ELSE conn[u]
  BY DEF Exit, ResultIInv, Inv, Typed
<1>3. Owned(Fresh, log) /\ Fresh.at = "idle" /\ Fresh.run = 0
  BY DEF Fresh, Owned
<1>4. ASSUME NEW u \in Conns, conn[u].at # "idle" PROVE conn[u].run # 0
  <2>1. conn[u].run \in 1 .. Len(log)
    BY <1>4, OwnedAt
  <2> QED BY <2>1
<1>5. Apart'
  BY <1>2, <1>3, <1>4 DEF ResultIInv, ResultInv, Apart
<1> QED BY <1>1, <1>2, <1>3, <1>5 DEF ResultIInv, ResultInv

\* A procedure that returned YES has its changes in the database and one that
\* returned NO has none there, for any number of threads, retries and
\* procedures, as long as no COMMIT was given up on the connection.
THEOREM AnswersAreTrue == Spec => []ResultIsTrue
<1>1. Init => ResultIInv
  <2> SUFFICES ASSUME Init PROVE ResultIInv
    OBVIOUS
  <2>1. Inv /\ LogTyped
    BY InitInv DEF Init, LogTyped
  <2>2. Mine(Fresh, <<>>) /\ Owned(Fresh, <<>>) /\ Fresh.at = "idle"
    <3>1. /\ Fresh.at = "idle" /\ Fresh.todo = {} /\ Fresh.run = 0 /\ Fresh.proc = "none"
      BY DEF Fresh
    <3>2. Len(<<>>) = 0
      OBVIOUS
    <3> QED BY <3>1, <3>2 DEF Mine, Owned
  <2>3. AppendInv
    BY <2>2 DEF Init, AppendInv, StoredWhole
  <2>4. ResultInv
    BY <2>2 DEF Init, ResultInv, Told, Apart
  <2> QED BY <2>1, <2>3, <2>4 DEF ResultIInv
<1>2. ResultIInv /\ [Next]_vars => ResultIInv'
  <2> SUFFICES ASSUME ResultIInv, [Next]_vars PROVE ResultInv'
    <3> SUFFICES ASSUME Inv, LogTyped, AppendInv, [Next]_vars
                 PROVE  Inv' /\ LogTyped' /\ AppendInv'
      BY DEF ResultIInv
    <3> QED BY NextInv, LogStep, AppendStep
  <2>1. ASSUME NEW t \in Conns, Step(t) \/ Interrupt(t) PROVE ResultInv'
    BY <2>1, TransactionOwned, StatementOwned, HaltLockOwned DEF Step
  <2>2. ASSUME NEW t \in Conns, NEW p \in Duties[t], Start(t, p) PROVE ResultInv'
    <3>1. p \in Procedures
      BY Bounds
    <3> QED BY <2>2, <3>1, StartOwned
  <2>3. ASSUME NEW t \in Conns, Exit(t) PROVE ResultInv'
    BY <2>3, ExitOwned
  <2>4. CASE UNCHANGED vars
    BY <2>4 DEF vars, ResultIInv, ResultInv, Apart
  <2> QED BY <2>1, <2>2, <2>3, <2>4 DEF Next
<1>3. ResultIInv => ResultIsTrue
  <2> SUFFICES ASSUME ResultIInv, NEW n \in DOMAIN log
               PROVE  /\ log[n].result = "yes" /\ ~log[n].marred => Changes(n) \subseteq committed
                      /\ log[n].result = "no" => Changes(n) \cap committed = {}
    BY DEF ResultIsTrue
  <2>1. n \in 1 .. Len(log) /\ Told(committed, log)
    BY DEF ResultIInv, LogTyped, ResultInv
  <2>2. Changes(n) = IF log[n].proc = "register" THEN {<<n, 1>>}
                     ELSE IF log[n].proc = "append" THEN Both(n) ELSE {}
    BY DEF Changes, Both
  <2>3. \A e \in Changes(n) : e[1] = n /\ log[n].proc \in Answering
    BY <2>2 DEF Both, Answering
  <2>4. log[n].result = "no" => \A e \in Changes(n) : e \notin committed
    BY <2>1, <2>3 DEF Told
  <2>5. ASSUME log[n].result = "yes", ~log[n].marred PROVE Changes(n) \subseteq committed
    <3>1. /\ log[n].proc = "register" => <<n, 1>> \in committed
          /\ log[n].proc = "append" => Both(n) \subseteq committed
      BY <2>1, <2>5 DEF Told
    <3> QED BY <2>2, <3>1
  <2> QED BY <2>4, <2>5
<1> QED BY <1>1, <1>2, <1>3, PTL DEF Spec
=============================================================================
