------------------------------ MODULE FileLock ------------------------------
(***************************************************************************)
(* What SQLite's locks on the database file promise to the pager           *)
(* (src/misc/sqlite/os.h, os_unix.c), without processes and byte ranges:   *)
(* one level per connection, raised one level at a time and lowered to     *)
(* SHARED_LOCK or NO_LOCK.  A call that cannot be served returns           *)
(* SQLITE_BUSY and changes nothing.  UnixLocks implements this             *)
(* specification, Pager is built on it.                                    *)
(***************************************************************************)
EXTENDS Integers, TLAPS

CONSTANTS Conns,   \* the open connections (unixFile)
          Procs,   \* the processes that hold them
          Proc     \* the process of each connection

ASSUME ProcAssumption == Proc \in [Conns -> Procs]

VARIABLES held,      \* the lock level of each connection
          reserver   \* the connections that hold the RESERVED byte

lockVars == <<held, reserver>>

NO_LOCK == 0
SHARED_LOCK == 1
RESERVED_LOCK == 2
PENDING_LOCK == 3
EXCLUSIVE_LOCK == 4
Levels == NO_LOCK .. EXCLUSIVE_LOCK

LockInit ==
    /\ held = [c \in Conns |-> NO_LOCK]
    /\ reserver = {}

Others(c) == Conns \ {c}

\* Some other connection of the same process is reading.
ProcessReads(c) == \E d \in Others(c) : Proc[d] = Proc[c] /\ held[d] # NO_LOCK

\* A new reader is refused while a writer waits for the readers to leave,
\* except that it may join a process that is reading already if the writer is
\* in another process.
LockShared(c) ==
    /\ held[c] = NO_LOCK
    /\ \A d \in Others(c) : held[d] >= PENDING_LOCK =>
           held[d] = PENDING_LOCK /\ Proc[d] # Proc[c] /\ ProcessReads(c)
    /\ held' = [held EXCEPT ![c] = SHARED_LOCK]
    /\ UNCHANGED reserver

\* One connection at a time reserves the file.  A connection that waits for
\* EXCLUSIVE_LOCK without a reservation does not hinder it.
LockReserved(c) ==
    /\ held[c] = SHARED_LOCK
    /\ reserver = {}
    /\ held' = [held EXCEPT ![c] = RESERVED_LOCK]
    /\ reserver' = {c}

LockPending(c) ==
    /\ held[c] \in {SHARED_LOCK, RESERVED_LOCK}
    /\ \A d \in Others(c) : held[d] < PENDING_LOCK
    /\ held' = [held EXCEPT ![c] = PENDING_LOCK]
    /\ UNCHANGED reserver

LockExclusive(c) ==
    /\ held[c] = PENDING_LOCK
    /\ \A d \in Others(c) : held[d] = NO_LOCK
    /\ held' = [held EXCEPT ![c] = EXCLUSIVE_LOCK]
    /\ UNCHANGED reserver

Unlock(c, level) ==
    /\ held[c] > level
    /\ held' = [held EXCEPT ![c] = level]
    /\ reserver' = reserver \ {c}

\* The end of a process drops the locks of all its connections.
DropLocks(cs) ==
    /\ held' = [c \in Conns |-> IF c \in cs THEN NO_LOCK ELSE held[c]]
    /\ reserver' = reserver \ cs

LockNext ==
    \/ \E c \in Conns : \/ LockShared(c)
                        \/ LockReserved(c)
                        \/ LockPending(c)
                        \/ LockExclusive(c)
                        \/ \E level \in {NO_LOCK, SHARED_LOCK} : Unlock(c, level)
    \/ \E p \in Procs : DropLocks({c \in Conns : Proc[c] = p})

LockSpec == LockInit /\ [][LockNext]_lockVars

-----------------------------------------------------------------------------
LockTypeOK ==
    /\ held \in [Conns -> Levels]
    /\ reserver \subseteq Conns

\* A connection with EXCLUSIVE_LOCK, which alone writes the database file, is
\* the only one with any lock; at most one waits for it with PENDING_LOCK;
\* at most one has RESERVED_LOCK, and so one rollback journal is being written.
Exclusion ==
    \A c, d \in Conns : c # d =>
        /\ held[c] = EXCLUSIVE_LOCK => held[d] = NO_LOCK
        /\ held[c] >= PENDING_LOCK => held[d] < PENDING_LOCK
        /\ held[c] = RESERVED_LOCK => held[d] # RESERVED_LOCK

\* A reservation belongs to a connection above SHARED_LOCK.
Reservation ==
    /\ \A c \in Conns : held[c] = RESERVED_LOCK => c \in reserver
    /\ \A c \in reserver : held[c] >= RESERVED_LOCK
    /\ \A c, d \in reserver : c = d

\* The three together are inductive.
LockInv == LockTypeOK /\ Exclusion /\ Reservation

-----------------------------------------------------------------------------
USE DEF NO_LOCK, SHARED_LOCK, RESERVED_LOCK, PENDING_LOCK, EXCLUSIVE_LOCK,
        Levels, Others

\* One transition of one connection, or the end of a process, keeps the
\* invariant.
LEMMA LockStep == LockInv /\ [LockNext]_lockVars => LockInv'
<1> SUFFICES ASSUME LockInv, [LockNext]_lockVars PROVE LockInv'
  OBVIOUS
<1> USE DEF LockInv, LockTypeOK, Exclusion, Reservation
<1>1. ASSUME NEW c \in Conns, LockShared(c) PROVE LockInv'
  BY <1>1 DEF LockShared
<1>2. ASSUME NEW c \in Conns, LockReserved(c) PROVE LockInv'
  BY <1>2 DEF LockReserved
<1>3. ASSUME NEW c \in Conns, LockPending(c) PROVE LockInv'
  BY <1>3 DEF LockPending
<1>4. ASSUME NEW c \in Conns, LockExclusive(c) PROVE LockInv'
  BY <1>4 DEF LockExclusive
<1>5. ASSUME NEW c \in Conns, NEW level \in {NO_LOCK, SHARED_LOCK},
             Unlock(c, level)
      PROVE  LockInv'
  BY <1>5 DEF Unlock
<1>6. ASSUME NEW p \in Procs, DropLocks({c \in Conns : Proc[c] = p})
      PROVE  LockInv'
  BY <1>6 DEF DropLocks
<1>7. CASE UNCHANGED lockVars
  BY <1>7 DEF lockVars
<1> QED
  BY <1>1, <1>2, <1>3, <1>4, <1>5, <1>6, <1>7 DEF LockNext

\* The lock levels exclude each other as the pager relies on: a writer is
\* alone, at most one waits to write and at most one has a reservation.
THEOREM LocksExclude == LockSpec => [](Exclusion /\ Reservation)
<1>1. LockInit => LockInv
  BY DEF LockInit, LockInv, LockTypeOK, Exclusion, Reservation
<1>2. LockInv => Exclusion /\ Reservation
  BY DEF LockInv
<1> QED
  BY <1>1, <1>2, LockStep, PTL DEF LockSpec
=============================================================================
