------------------------------ MODULE SQLiteDB ------------------------------
(***************************************************************************)
(* How the threads of BathyScaphe share one SQLite database                *)
(* (application/source/manager/SQLiteDB.m, DatabaseManager.m and the        *)
(* procedures that call them): each thread has a connection of its own,     *)
(* runs database procedures on it one after another, and retries a          *)
(* statement that meets the lock of another thread a bounded number of      *)
(* times.  The locks are those of FileLock; what SQLite does with a         *)
(* statement is taken from misc/sqlite/vdbe.c, vdbeaux.c and btree.c.       *)
(***************************************************************************)
EXTENDS FileLock, Sequences, FiniteSets

CONSTANTS Duties,    \* the procedures each thread runs
          MaxBusy,   \* refusals of one statement that are retried (1000)
          MaxRuns    \* bound on the number of procedures started

VARIABLES conn,       \* the SQLiteDB of each thread and the procedure it runs
          committed,  \* the changes stored in the database, as <<run, number>>
          log         \* for each procedure started: its name, what it returned,
                      \* and whether its connection was marred

vars == <<held, reserver, conn, committed, log>>

-----------------------------------------------------------------------------
(* The procedures, as the statements they send.                            *)

Procedures == {"query", "register", "append", "updateDB", "resetNewStatus"}

ASSUME Bounds == Duties \in [Conns -> SUBSET Procedures] /\ {MaxBusy, MaxRuns} \subseteq Nat

\* A SELECT like that of boardIDForURLStringExceptingHistory:, and the single
\* INSERT of registerBoardName:URLString:.
QueryScript == <<"read">>
RegisterScript == <<"write">>

\* appendFavoriteThreadIdentifier:onBoardID: changes two tables; updateDB: and
\* resetNewStatus change a row per thread found, here two.
AppendScript == <<"begin", "write", "write", "commit">>
UpdateScript == <<"begin", "write", "write", "commit">>
ResetScript == <<"begin", "read", "write", "write", "commit">>

Script(p) ==
    CASE p = "query"          -> QueryScript
      [] p = "register"       -> RegisterScript
      [] p = "append"         -> AppendScript
      [] p = "updateDB"       -> UpdateScript
      [] p = "resetNewStatus" -> ResetScript

SkipsRollback(p, rest) ==
    CASE p = "append"                             -> <<>>
      [] p = "resetNewStatus" /\ Len(rest) = 3    -> <<"commit">>
      [] OTHER                                    -> rest

IgnoresFailure(p, rest) == IF p = "resetNewStatus" /\ Len(rest) = 3 THEN <<"commit">> ELSE rest

\* What is left to do after a statement failed and `rest' would follow.
\* appendFavoriteThreadIdentifier asks lastErrorID and rolls back; updateDB does
\* not ask; resetNewStatus takes a failed SELECT for one without rows.
AfterFailure(p, rest) ==
    CASE p = "append"                             -> <<"rollback">>
      [] p = "resetNewStatus" /\ Len(rest) = 3    -> <<"commit">>
      [] OTHER                                    -> rest

-----------------------------------------------------------------------------
\* A connection just opened by databaseForCurrentThread.  The schema is loaded
\* by the first statement that needs it.
Fresh == [ proc   |-> "none",  \* the procedure running
           run    |-> 0,       \* its number
           left   |-> <<>>,    \* its statements, the current one first
           at     |-> "idle",  \* what the current statement does next
           busy   |-> 0,       \* busyCount of valuesForSTMT
           flag   |-> FALSE,   \* _transaction
           auto   |-> TRUE,    \* sqlite3.autoCommit
           trans  |-> "none",  \* Btree.inTrans
           schema |-> FALSE,   \* DB_SchemaLoaded
           todo   |-> {},      \* changes not committed yet
           marred |-> FALSE ]  \* a COMMIT given up or an exception passed

Init ==
    /\ LockInit
    /\ conn = [t \in Conns |-> Fresh]
    /\ committed = {}
    /\ log = <<>>

Op(t) == Head(conn[t].left)

Busy(t) == \E d \in Others(t) : held[d] >= PENDING_LOCK

Keep == UNCHANGED lockVars
UnlockAll(t) == IF held[t] = NO_LOCK THEN Keep ELSE Unlock(t, NO_LOCK)

\* The current statement is over; `c' is the connection then and `rest' what
\* the procedure does next.
Finish(t, c, rest, result) ==
    IF rest = <<>>
    THEN /\ conn' = [conn EXCEPT ![t] = [c EXCEPT !.left = <<>>, !.at = "idle",
                                                  !.proc = "none", !.run = 0, !.busy = 0]]
         /\ log' = [log EXCEPT ![c.run].result = result]
    ELSE /\ conn' = [conn EXCEPT ![t] = [c EXCEPT !.left = rest, !.at = "ready", !.busy = 0]]
         /\ UNCHANGED log

\* A procedure that reaches its end answers YES unless it rolled back.
Succeed(t, c) ==
    Finish(t, c, Tail(c.left), IF Op(t) = "rollback" THEN "no" ELSE "yes")

FailsUnnoticed(t, c) == Succeed(t, c)

\* The statement returned nil and lastErrorID is not 0.
Fail(t, c) == Finish(t, c, AfterFailure(c.proc, Tail(c.left)), "no")

-----------------------------------------------------------------------------
Start(t, p) ==
    /\ conn[t].at = "idle"
    /\ Len(log) < MaxRuns
    /\ log' = Append(log, [proc |-> p, result |-> "none",
                            marred |-> conn[t].marred])
    /\ conn' = [conn EXCEPT ![t] = [@ EXCEPT !.proc = p, !.run = Len(log) + 1,
                                             !.left = Script(p), !.at = "ready"]]
    /\ UNCHANGED <<held, reserver, committed>>

\* The thread ends: its dictionary releases the connection, and sqlite3_close
\* rolls back what is open.
Exit(t) ==
    /\ conn[t].at = "idle"
    /\ conn[t] # Fresh
    /\ conn' = [conn EXCEPT ![t] = Fresh]
    /\ UnlockAll(t)
    /\ UNCHANGED <<committed, log>>

\* beginTransaction.  The flag is set before BEGIN is sent, and stays set when
\* BEGIN is refused because a transaction is open.
beginTransaction(t) ==
    LET c == conn[t]
    IN  /\ c.at = "ready" /\ Op(t) = "begin"
        /\ IF ~c.flag /\ c.auto
           THEN Finish(t, [c EXCEPT !.flag = TRUE, !.auto = FALSE], Tail(c.left), "yes")
           ELSE Finish(t, [c EXCEPT !.flag = TRUE], <<>>, "no")
        /\ Keep
        /\ UNCHANGED committed

\* rollbackTransaction.  ROLLBACK fails, harmlessly, if SQLite has rolled the
\* transaction back already.
rollbackTransaction(t) ==
    LET c == conn[t]
    IN  /\ c.at = "ready" /\ Op(t) = "rollback"
        /\ Succeed(t, [c EXCEPT !.flag = FALSE, !.auto = TRUE, !.trans = "none", !.todo = {}])
        /\ UnlockAll(t)
        /\ UNCHANGED committed

\* commitTransaction up to OP_AutoCommit.  Without an open transaction COMMIT is
\* an error that nobody asks for.
commitTransaction(t) ==
    LET c == conn[t]
        d == [c EXCEPT !.flag = FALSE]
    IN  /\ c.at = "ready" /\ Op(t) = "commit"
        /\ IF c.auto
           THEN Succeed(t, d)
           ELSE /\ conn' = [conn EXCEPT ![t] = [d EXCEPT !.at = "halt"]]
                /\ UNCHANGED log
        /\ Keep
        /\ UNCHANGED committed

-----------------------------------------------------------------------------
(* A statement that reads or writes tables.                                *)

Goto(t, at) == conn' = [conn EXCEPT ![t].at = at]
Statement(t) == Op(t) \in {"read", "write"}

\* sqlite3_prepare.  The first statement of a connection reads the schema under
\* a SHARED lock; if that is refused, cursorForSQL returns nil without a retry.
Prepare(t) ==
    /\ conn[t].at = "ready" /\ Statement(t)
    /\ IF conn[t].schema
       THEN Goto(t, "step") /\ Keep /\ UNCHANGED log
       ELSE IF Busy(t)
       THEN Fail(t, conn[t]) /\ Keep
       ELSE Goto(t, "load") /\ LockShared(t) /\ UNCHANGED log
    /\ UNCHANGED committed

\* The schema is read; the SHARED lock stays if a transaction is open.
LoadSchema(t) ==
    LET c == conn[t]
    IN  /\ c.at = "load"
        /\ conn' = [conn EXCEPT ![t] = [c EXCEPT !.schema = TRUE, !.at = "step",
                                           !.trans = IF c.auto THEN "none" ELSE "read"]]
        /\ IF c.auto THEN Unlock(t, NO_LOCK) ELSE Keep
        /\ UNCHANGED <<committed, log>>

NeverCounts(n) == n

\* busyCount++
Counted(n) == n + 1

\* The statement was refused as often as valuesForSTMT puts up with.
GivesUp(n) == n = MaxBusy

\* sqlite3_step returned SQLITE_BUSY to a statement that is not yet running.
Refused(t) ==
    LET c == conn[t]
    IN  IF GivesUp(c.busy)
        THEN Fail(t, c)
        ELSE /\ conn' = [conn EXCEPT ![t] = [c EXCEPT !.busy = Counted(@), !.at = "step"]]
             /\ UNCHANGED log

\* OP_Transaction: the SHARED lock, which an open transaction has already if it
\* has read.
StepShared(t) ==
    /\ conn[t].at = "step"
    /\ IF held[t] # NO_LOCK
       THEN Goto(t, "locked") /\ Keep /\ UNCHANGED log
       ELSE IF Busy(t)
       THEN Refused(t) /\ Keep
       ELSE Goto(t, "locked") /\ LockShared(t) /\ UNCHANGED log
    /\ UNCHANGED committed

\* A SELECT delivers its rows.  Autocommit ends the read transaction.
\* resetNewStatus may find no row, and commits at once.
StepRead(t) ==
    LET c == conn[t]
        d == IF c.auto \/ c.trans = "write" THEN c ELSE [c EXCEPT !.trans = "read"]
    IN  /\ c.at = "locked" /\ Op(t) = "read"
        /\ \/ Succeed(t, d)
           \/ /\ c.proc = "resetNewStatus"
              /\ Finish(t, d, <<"commit">>, "yes")
        /\ IF c.auto THEN UnlockAll(t) ELSE Keep
        /\ UNCHANGED committed

\* OP_Transaction: the RESERVED lock.  When it is refused, the SHARED lock is
\* released unless the transaction has read before.
StepReserve(t) ==
    LET c == conn[t]
    IN  /\ c.at = "locked" /\ Op(t) = "write"
        /\ IF c.trans = "write"
           THEN Goto(t, "run") /\ Keep /\ UNCHANGED log
           ELSE IF reserver = {}
           THEN /\ conn' = [conn EXCEPT ![t] = [c EXCEPT !.at = "run", !.trans = "write"]]
                /\ LockReserved(t)
                /\ UNCHANGED log
           ELSE /\ Refused(t)
                /\ IF c.trans = "none" THEN UnlockAll(t) ELSE Keep
        /\ UNCHANGED committed

\* The statement changes its rows in the cache.
Change(c) == [c EXCEPT !.todo = @ \cup {<<c.run, Len(c.left)>>}]

\* The statement runs: in the cache, or it needs the file for a page the cache
\* has no room for.
StepRun(t) ==
    LET c == conn[t]
    IN  /\ c.at = "run"
        /\ \/ IF c.auto
              THEN /\ conn' = [conn EXCEPT ![t] = [Change(c) EXCEPT !.at = "halt"]]
                   /\ UNCHANGED log
              ELSE Succeed(t, Change(c))
           \/ Goto(t, "spill") /\ UNCHANGED log
        /\ Keep
        /\ UNCHANGED committed

\* pager_wait_on_lock(EXCLUSIVE_LOCK), the PENDING lock first.
Pend(t) ==
    /\ conn[t].at \in {"spill", "halt"}
    /\ held[t] = RESERVED_LOCK
    /\ LockPending(t)
    /\ UNCHANGED <<conn, committed, log>>

\* A spilling statement gets the file to itself, or fails: either its own
\* changes are undone or SQLite rolls the whole transaction back and returns to
\* autocommit.
StepSpill(t) ==
    LET c == conn[t]
        whole == [c EXCEPT !.auto = TRUE, !.trans = "none", !.todo = {}]
    IN  /\ c.at = "spill"
        /\ held[t] >= PENDING_LOCK
        /\ \/ /\ LockExclusive(t)
              /\ IF c.auto
                 THEN /\ conn' = [conn EXCEPT ![t] = [Change(c) EXCEPT !.at = "halt"]]
                      /\ UNCHANGED log
                 ELSE Succeed(t, Change(c))
           \/ /\ held[t] = EXCLUSIVE_LOCK
              /\ Succeed(t, Change(c))
              /\ Keep
           \/ /\ \E d \in Others(t) : held[d] # NO_LOCK
              /\ \/ Fail(t, whole) /\ UnlockAll(t)
                 \/ ~c.auto /\ Fail(t, c) /\ Keep
        /\ UNCHANGED committed

-----------------------------------------------------------------------------
(* The end of a transaction (vdbeCommit).                                  *)

\* A transaction that wrote nothing only releases its lock.
HaltRead(t) ==
    LET c == conn[t]
    IN  /\ c.at = "halt" /\ c.trans # "write"
        /\ Succeed(t, [c EXCEPT !.auto = TRUE, !.trans = "none"])
        /\ UnlockAll(t)
        /\ UNCHANGED committed

\* The EXCLUSIVE lock.  Refused, the statement is retried; given up, an
\* autocommit statement is rolled back, but COMMIT leaves the transaction open.
HaltLock(t) ==
    LET c == conn[t]
    IN  /\ c.at = "halt" /\ held[t] = PENDING_LOCK
        /\ IF \A d \in Others(t) : held[d] = NO_LOCK
           THEN LockExclusive(t) /\ UNCHANGED <<conn, log>>
           ELSE IF ~GivesUp(c.busy)
           THEN conn' = [conn EXCEPT ![t].busy = Counted(@)] /\ Keep /\ UNCHANGED log
           ELSE IF c.auto
           THEN Fail(t, [c EXCEPT !.trans = "none", !.todo = {}]) /\ UnlockAll(t)
           ELSE /\ conn' = [conn EXCEPT ![t] = [c EXCEPT !.left = <<>>, !.at = "idle",
                               !.proc = "none", !.run = 0, !.busy = 0, !.marred = TRUE]]
                /\ log' = [log EXCEPT ![c.run] = [@ EXCEPT !.result = "yes", !.marred = TRUE]]
                /\ Keep
        /\ UNCHANGED committed

\* The transaction is in the database and the locks are released.
HaltWrite(t) ==
    LET c == conn[t]
    IN  /\ c.at = "halt" /\ held[t] = EXCLUSIVE_LOCK
        /\ committed' = committed \cup c.todo
        /\ Succeed(t, [c EXCEPT !.auto = TRUE, !.trans = "none", !.todo = {}])
        /\ Unlock(t, NO_LOCK)

\* updateDB: checks before each UPDATE whether its task was cancelled, by an
\* exception that leaves the transaction open.
Interrupt(t) ==
    LET c == conn[t]
    IN  /\ c.at = "ready" /\ c.proc = "updateDB" /\ Op(t) = "write"
        /\ Finish(t, [c EXCEPT !.marred = TRUE], <<>>, "raised")
        /\ Keep
        /\ UNCHANGED committed

-----------------------------------------------------------------------------
Step(t) ==
    \/ beginTransaction(t) \/ rollbackTransaction(t) \/ commitTransaction(t)
    \/ Prepare(t) \/ LoadSchema(t) \/ StepShared(t) \/ StepRead(t)
    \/ StepReserve(t) \/ StepRun(t) \/ Pend(t) \/ StepSpill(t)
    \/ HaltRead(t) \/ HaltLock(t) \/ HaltWrite(t)

Next ==
    \E t \in Conns : \/ Step(t)
                     \/ \E p \in Duties[t] : Start(t, p)
                     \/ Exit(t)
                     \/ Interrupt(t)

Spec == Init /\ [][Next]_vars

\* Every thread keeps running while it has a statement to finish.
FairSpec == Spec /\ \A t \in Conns : WF_vars(Step(t))

-----------------------------------------------------------------------------
TypeOK ==
    /\ LockTypeOK
    /\ \A t \in Conns :
         /\ conn[t].proc \in Procedures \cup {"none"}
         /\ conn[t].at \in {"idle", "ready", "load", "step", "locked", "run", "spill", "halt"}
         /\ conn[t].busy \in 0 .. MaxBusy
         /\ conn[t].trans \in {"none", "read", "write"}

\* The changes that run n makes when all its statements succeed.
Changes(n) ==
    CASE log[n].proc = "register" -> {<<n, 1>>}
      [] log[n].proc = "append"   -> {<<n, 3>>, <<n, 2>>}
      [] OTHER                    -> {}

\* Between procedures a thread has no transaction open, no lock on the file and
\* the flag of beginTransaction clear, whatever was refused, given up or rolled
\* back by SQLite on the way: no procedure fails because of an earlier one.  The
\* exceptions are a COMMIT given up and an interrupted updateDB:, whose
\* connection keeps its transaction until the thread ends.
RestsClean ==
    \A t \in Conns :
        LET c == conn[t]
        IN  c.at = "idle" /\ ~c.marred =>
                /\ ~c.flag /\ c.auto /\ c.trans = "none" /\ c.todo = {}
                /\ held[t] = NO_LOCK

\* appendFavoriteThreadIdentifier: changes both tables or none, also when a
\* statement between BEGIN and COMMIT fails and when SQLite itself has ended
\* the transaction.
AllOrNothing ==
    \A n \in DOMAIN log :
        log[n].proc = "append" => committed \cap Changes(n) \in {{}, Changes(n)}

\* A procedure that returned YES has its changes in the database, one that
\* returned NO has none there, on a connection no earlier failure has marred.
ResultIsTrue ==
    \A n \in DOMAIN log :
        /\ log[n].result = "yes" /\ ~log[n].marred => Changes(n) \subseteq committed
        /\ log[n].result = "no" => Changes(n) \cap committed = {}

\* Every procedure ends, also when two transactions wait for each other: one
\* has read and wants to write, the other wants the readers to leave.
ProceduresEnd == \A t \in Conns : conn[t].at # "idle" ~> conn[t].at = "idle"
=============================================================================
