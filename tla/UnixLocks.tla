----------------------------- MODULE UnixLocks ------------------------------
(***************************************************************************)
(* SQLite's file locks on Unix (src/misc/sqlite/os_unix.c), at the          *)
(* granularity of fcntl().  POSIX locks belong to a process, so all         *)
(* connections of a process share a lockInfo (pLock) under one mutex, and   *)
(* closing any descriptor of the file drops every lock of the process,      *)
(* which is why a close is deferred while locks are held (openCnt).         *)
(* A call that returns SQLITE_BUSY before it has changed anything is not a  *)
(* step.  Not modelled: fcntl() failing to release a lock.                  *)
(*                                                                          *)
(* A definition without a comment is a faulty variant of the next one.      *)
(***************************************************************************)
EXTENDS Integers, FiniteSets

CONSTANTS Conns, Procs, Proc, NoConn,
          MaxDeferred   \* descriptors a process may keep only because their
                        \* close is deferred

ASSUME ConnsAssumption == /\ Proc \in [Conns -> Procs]
                          /\ IsFiniteSet(Conns)
                          /\ NoConn \notin Conns
                          /\ MaxDeferred \in Nat

VARIABLES isOpen,    \* connections that are open
          locktype,  \* pFile->locktype of each connection
          plock,     \* pLock->locktype of each process
          cnt,       \* pLock->cnt: connections of the process with a lock
          nLock,     \* pOpen->nLock: locks that forbid closing a descriptor
          nPending,  \* pOpen->nPending: descriptors whose close is deferred
          mutex,     \* the connection in enterMutex() of each process
          bytes,     \* the POSIX locks of each process
          pc         \* where each connection is in unixLock or unixUnlock

vars == <<isOpen, locktype, plock, cnt, nLock, nPending, mutex, bytes, pc>>

NO_LOCK == 0
SHARED_LOCK == 1
RESERVED_LOCK == 2
PENDING_LOCK == 3
EXCLUSIVE_LOCK == 4
Levels == NO_LOCK .. EXCLUSIVE_LOCK

\* The two single bytes and the range of bytes that stand for the locks.
Bytes == {"pending", "reserved", "shared"}
Unlocked == [b \in Bytes |-> "none"]

Init ==
    /\ isOpen = {}
    /\ locktype = [c \in Conns |-> NO_LOCK]
    /\ plock = [p \in Procs |-> NO_LOCK]
    /\ cnt = [p \in Procs |-> 0]
    /\ nLock = [p \in Procs |-> 0]
    /\ nPending = [p \in Procs |-> 0]
    /\ mutex = [p \in Procs |-> NoConn]
    /\ bytes = [p \in Procs |-> Unlocked]
    /\ pc = [c \in Conns |-> "idle"]

-----------------------------------------------------------------------------
\* fcntl(F_SETLK) grants a lock unless another process holds a conflicting one.
CanRead(p, b) == \A q \in Procs \ {p} : bytes[q][b] # "write"
CanWrite(p, b) == \A q \in Procs \ {p} : bytes[q][b] = "none"

Idle(c) == c \in isOpen /\ pc[c] = "idle" /\ mutex[Proc[c]] = NoConn

Go(c, to) == pc' = [pc EXCEPT ![c] = to]
Enter(c) == mutex' = [mutex EXCEPT ![Proc[c]] = c]
Leave(c) == mutex' = [mutex EXCEPT ![Proc[c]] = NoConn]
SetLocks(c, level) ==
    /\ locktype' = [locktype EXCEPT ![c] = level]
    /\ plock' = [plock EXCEPT ![Proc[c]] = level]

\* Another connection of the process has a lock that precludes this one.
Precluded(c, level) ==
    /\ locktype[c] # plock[Proc[c]]
    /\ plock[Proc[c]] >= PENDING_LOCK \/ level > SHARED_LOCK

\* unixOpen: the connection joins the lockInfo and openCnt of its process.
Open(c) ==
    /\ c \notin isOpen
    /\ nPending[Proc[c]] < MaxDeferred
    /\ isOpen' = isOpen \cup {c}
    /\ UNCHANGED <<locktype, plock, cnt, nLock, nPending, mutex, bytes, pc>>

\* unixLock(SHARED_LOCK) in a process that is reading already.
JoinShared(c) ==
    /\ Idle(c)
    /\ locktype[c] = NO_LOCK
    /\ ~Precluded(c, SHARED_LOCK)
    /\ plock[Proc[c]] \in {SHARED_LOCK, RESERVED_LOCK}
    /\ locktype' = [locktype EXCEPT ![c] = SHARED_LOCK]
    /\ cnt' = [cnt EXCEPT ![Proc[c]] = @ + 1]
    /\ nLock' = [nLock EXCEPT ![Proc[c]] = @ + 1]
    /\ UNCHANGED <<isOpen, plock, nPending, mutex, bytes, pc>>

NeedsNoPendingByte(c) ==
    /\ Idle(c)
    /\ locktype[c] = NO_LOCK
    /\ ~Precluded(c, SHARED_LOCK)
    /\ plock[Proc[c]] \notin {SHARED_LOCK, RESERVED_LOCK}
    /\ Enter(c)
    /\ Go(c, "shared")
    /\ UNCHANGED <<isOpen, locktype, plock, cnt, nLock, nPending, bytes>>
\* unixLock(SHARED_LOCK): read-lock the pending byte, which a waiting writer
\* of another process holds for itself.
SharedPending(c) ==
    /\ Idle(c)
    /\ locktype[c] = NO_LOCK
    /\ ~Precluded(c, SHARED_LOCK)
    /\ plock[Proc[c]] \notin {SHARED_LOCK, RESERVED_LOCK}
    /\ CanRead(Proc[c], "pending")
    /\ bytes' = [bytes EXCEPT ![Proc[c]]["pending"] = "read"]
    /\ Enter(c)
    /\ Go(c, "shared")
    /\ UNCHANGED <<isOpen, locktype, plock, cnt, nLock, nPending>>

\* ... read-lock the shared range, which may fail ...
SharedRange(c) ==
    /\ pc[c] = "shared"
    /\ IF CanRead(Proc[c], "shared")
       THEN /\ bytes' = [bytes EXCEPT ![Proc[c]]["shared"] = "read"]
            /\ Go(c, "granted")
       ELSE /\ Go(c, "refused")
            /\ UNCHANGED bytes
    /\ UNCHANGED <<isOpen, locktype, plock, cnt, nLock, nPending, mutex>>

\* ... and drop the pending byte; only then is the result recorded.
SharedDone(c) ==
    /\ pc[c] \in {"granted", "refused"}
    /\ bytes' = [bytes EXCEPT ![Proc[c]]["pending"] = "none"]
    /\ IF pc[c] = "granted"
       THEN /\ SetLocks(c, SHARED_LOCK)
            /\ cnt' = [cnt EXCEPT ![Proc[c]] = 1]
            /\ nLock' = [nLock EXCEPT ![Proc[c]] = @ + 1]
       ELSE UNCHANGED <<locktype, plock, cnt, nLock>>
    /\ Leave(c)
    /\ Go(c, "idle")
    /\ UNCHANGED <<isOpen, nPending>>

\* unixLock(RESERVED_LOCK): write-lock the reserved byte.
Reserve(c) ==
    /\ Idle(c)
    /\ locktype[c] = SHARED_LOCK
    /\ ~Precluded(c, RESERVED_LOCK)
    /\ CanWrite(Proc[c], "reserved")
    /\ bytes' = [bytes EXCEPT ![Proc[c]]["reserved"] = "write"]
    /\ SetLocks(c, RESERVED_LOCK)
    /\ UNCHANGED <<isOpen, cnt, nLock, nPending, mutex, pc>>

\* unixLock(EXCLUSIVE_LOCK): write-lock the pending byte, unless an earlier
\* call that failed has left it locked ...
ExclusivePending(c) ==
    /\ Idle(c)
    /\ locktype[c] \in SHARED_LOCK .. PENDING_LOCK
    /\ ~Precluded(c, EXCLUSIVE_LOCK)
    /\ IF locktype[c] < PENDING_LOCK
       THEN /\ CanWrite(Proc[c], "pending")
            /\ bytes' = [bytes EXCEPT ![Proc[c]]["pending"] = "write"]
       ELSE UNCHANGED bytes
    /\ Enter(c)
    /\ Go(c, "exclusive")
    /\ UNCHANGED <<isOpen, locktype, plock, cnt, nLock, nPending>>

IgnoresThreads(c) == CanWrite(Proc[c], "shared")
\* No connection of this process, and no other process, is reading.
ReadersGone(c) ==
    /\ cnt[Proc[c]] <= 1
    /\ CanWrite(Proc[c], "shared")

\* ... and write-lock the shared range.  Failing here leaves PENDING_LOCK.
ExclusiveRange(c) ==
    /\ pc[c] = "exclusive"
    /\ IF ReadersGone(c)
       THEN /\ bytes' = [bytes EXCEPT ![Proc[c]]["shared"] = "write"]
            /\ SetLocks(c, EXCLUSIVE_LOCK)
       ELSE /\ SetLocks(c, PENDING_LOCK)
            /\ UNCHANGED bytes
    /\ Leave(c)
    /\ Go(c, "idle")
    /\ UNCHANGED <<isOpen, cnt, nLock, nPending>>

-----------------------------------------------------------------------------
\* unixUnlock(SHARED_LOCK): back to a read-lock on the shared range ...
UnlockToShared(c) ==
    /\ Idle(c)
    /\ locktype[c] > SHARED_LOCK
    /\ bytes' = [bytes EXCEPT ![Proc[c]]["shared"] = "read"]
    /\ Enter(c)
    /\ Go(c, "toShared")
    /\ UNCHANGED <<isOpen, locktype, plock, cnt, nLock, nPending>>

BytesReleased(c) ==
    /\ bytes' = [bytes EXCEPT ![Proc[c]]["pending"] = "none",
                              ![Proc[c]]["reserved"] = "none"]
    /\ plock' = [plock EXCEPT ![Proc[c]] = SHARED_LOCK]

\* ... and release the pending and the reserved byte.
ReleaseBytes(c) ==
    /\ pc[c] = "toShared"
    /\ BytesReleased(c)
    /\ Leave(c)
    /\ Go(c, "nowShared")
    /\ UNCHANGED <<isOpen, locktype, cnt, nLock, nPending>>

\* unixUnlock(NO_LOCK) releases the two bytes at once.
UnlockToNone(c) ==
    /\ Idle(c)
    /\ locktype[c] > SHARED_LOCK
    /\ BytesReleased(c)
    /\ Enter(c)
    /\ Go(c, "toNone")
    /\ UNCHANGED <<isOpen, locktype, cnt, nLock, nPending>>

\* ... and counts down; the last one of the process releases everything and
\* closes the descriptors whose close was deferred.
CountDown(c) ==
    LET p == Proc[c]
    IN  /\ pc[c] = "toNone" \/ (Idle(c) /\ locktype[c] = SHARED_LOCK)
        /\ cnt' = [cnt EXCEPT ![p] = @ - 1]
        /\ IF cnt[p] = 1
           THEN /\ bytes' = [bytes EXCEPT ![p] = Unlocked]
                /\ plock' = [plock EXCEPT ![p] = NO_LOCK]
           ELSE UNCHANGED <<bytes, plock>>
        /\ nLock' = [nLock EXCEPT ![p] = @ - 1]
        /\ nPending' = [nPending EXCEPT ![p] = IF nLock[p] = 1 THEN 0 ELSE @]
        /\ Leave(c)
        /\ Go(c, "nowNone")
        /\ UNCHANGED <<isOpen, locktype>>

\* The connection's own field is written after leaveMutex().
UnlockDone(c) ==
    /\ pc[c] \in {"nowShared", "nowNone"}
    /\ locktype' = [locktype EXCEPT ![c] = IF pc[c] = "nowNone" THEN NO_LOCK
                                           ELSE SHARED_LOCK]
    /\ Go(c, "idle")
    /\ UNCHANGED <<isOpen, plock, cnt, nLock, nPending, mutex, bytes>>

ClosesAtOnce(c) ==
    /\ Idle(c)
    /\ locktype[c] = NO_LOCK
    /\ isOpen' = isOpen \ {c}
    /\ bytes' = [bytes EXCEPT ![Proc[c]] = Unlocked]
    /\ UNCHANGED <<locktype, plock, cnt, nLock, nPending, mutex, pc>>
\* unixClose, after its unixUnlock(NO_LOCK): the descriptor is closed, which
\* drops all POSIX locks of the process, only when there are none.
Close(c) ==
    LET p == Proc[c]
    IN  /\ Idle(c)
        /\ locktype[c] = NO_LOCK
        /\ isOpen' = isOpen \ {c}
        /\ IF nLock[p] > 0
           THEN /\ nPending' = [nPending EXCEPT ![p] = @ + 1]
                /\ UNCHANGED bytes
           ELSE /\ bytes' = [bytes EXCEPT ![p] = Unlocked]
                /\ UNCHANGED nPending
        /\ UNCHANGED <<locktype, plock, cnt, nLock, mutex, pc>>

\* The process ends at any point: its memory and its POSIX locks are gone.
Exit(p) ==
    LET mine == {c \in Conns : Proc[c] = p}
    IN  /\ isOpen' = isOpen \ mine
        /\ locktype' = [c \in Conns |-> IF c \in mine THEN NO_LOCK ELSE locktype[c]]
        /\ pc' = [c \in Conns |-> IF c \in mine THEN "idle" ELSE pc[c]]
        /\ plock' = [plock EXCEPT ![p] = NO_LOCK]
        /\ cnt' = [cnt EXCEPT ![p] = 0]
        /\ nLock' = [nLock EXCEPT ![p] = 0]
        /\ nPending' = [nPending EXCEPT ![p] = 0]
        /\ mutex' = [mutex EXCEPT ![p] = NoConn]
        /\ bytes' = [bytes EXCEPT ![p] = Unlocked]

UnixLock(c) ==
    \/ JoinShared(c) \/ SharedPending(c) \/ SharedRange(c) \/ SharedDone(c)
    \/ Reserve(c)
    \/ ExclusivePending(c) \/ ExclusiveRange(c)

UnixUnlock(c) ==
    \/ UnlockToShared(c) \/ ReleaseBytes(c)
    \/ UnlockToNone(c) \/ CountDown(c)
    \/ UnlockDone(c)

Next ==
    \/ \E c \in Conns : Open(c) \/ UnixLock(c) \/ UnixUnlock(c) \/ Close(c)
    \/ \E p \in Procs : Exit(p)

Spec == Init /\ [][Next]_vars

-----------------------------------------------------------------------------
\* The level a connection has as seen by the others: from the fcntl() that
\* takes a lock, and until the one that gives it back.
Held(c) ==
    CASE pc[c] \in {"granted", "nowShared", "toNone"} -> SHARED_LOCK
      [] pc[c] = "exclusive" -> PENDING_LOCK
      [] pc[c] = "nowNone" -> NO_LOCK
      [] OTHER -> locktype[c]

Reservers == {c \in Conns : /\ Held(c) > SHARED_LOCK
                            /\ bytes[Proc[c]]["reserved"] = "write"}

Locks == INSTANCE FileLock WITH held <- [c \in Conns |-> Held(c)],
                                reserver <- Reservers

TypeOK ==
    /\ isOpen \subseteq Conns
    /\ locktype \in [Conns -> Levels]
    /\ plock \in [Procs -> Levels]
    /\ cnt \in [Procs -> Nat] /\ nLock \in [Procs -> Nat]
    /\ nPending \in [Procs -> Nat]
    /\ mutex \in [Procs -> Conns \cup {NoConn}]
    /\ bytes \in [Procs -> [Bytes -> {"none", "read", "write"}]]
    /\ pc \in [Conns -> {"idle", "shared", "granted", "refused", "exclusive",
                         "toShared", "nowShared", "toNone", "nowNone"}]

\* unixLock and unixUnlock give each connection of each process the levels of
\* FileLock, one legal transition at a time, though POSIX knows no connections.
FileLockImplemented == Locks!LockSpec

\* What FileLock promises, for the levels as the callers see them: the writer
\* of the database file is alone, whichever threads and processes compete.
Exclusive == Locks!Exclusion /\ Locks!Reservation

\* The close of a descriptor never drops a lock some connection relies on: a
\* connection that may read has its process's read- or write-lock in place.
LocksInPlace ==
    \A c \in Conns :
        /\ Held(c) >= SHARED_LOCK => bytes[Proc[c]]["shared"] # "none"
        /\ (Held(c) = EXCLUSIVE_LOCK /\ pc[c] # "toShared")
               => bytes[Proc[c]]["shared"] = "write"
        /\ Held(c) >= PENDING_LOCK => bytes[Proc[c]]["pending"] = "write"
=============================================================================
