------------------------- MODULE UnixLocksInvariant -------------------------
(***************************************************************************)
(* The inductive invariant with which UnixLocks implements FileLock, for any*)
(* connections and processes, and its preservation by unixLock.             *)
(***************************************************************************)
EXTENDS UnixLocks, FiniteSetTheorems, TLAPS

\* Connections of a process that pLock->cnt counts.
Counted(p) == {c \in Conns : /\ Proc[c] = p
                             /\ Held(c) >= SHARED_LOCK
                             /\ pc[c] # "granted"}

\* Who is inside the mutex is what the program counters say.
MutexInv ==
    \A c \in Conns :
        pc[c] \in {"shared", "granted", "refused", "exclusive", "toShared", "toNone"}
            <=> mutex[Proc[c]] = c

\* How the fields of a connection and of its process agree at each point.
PcInv ==
    \A c \in Conns : LET p == Proc[c] IN
        /\ c \notin isOpen => pc[c] = "idle" /\ locktype[c] = NO_LOCK
        /\ pc[c] \in {"shared", "granted", "refused"} =>
               /\ locktype[c] = NO_LOCK
               /\ plock[p] = NO_LOCK
               /\ bytes[p]["pending"] = "read"
        /\ pc[c] = "exclusive" =>
               /\ locktype[c] \in SHARED_LOCK .. PENDING_LOCK
               /\ plock[p] = locktype[c]
        /\ pc[c] = "toShared" => locktype[c] > SHARED_LOCK
        /\ pc[c] = "toNone" => locktype[c] > SHARED_LOCK /\ plock[p] = SHARED_LOCK
        /\ pc[c] \in {"nowShared", "nowNone"} => locktype[c] > NO_LOCK

\* pLock sums up the connections of its process.
CountInv ==
    \A p \in Procs :
        /\ cnt[p] = Cardinality(Counted(p))
        /\ nLock[p] = cnt[p]
        /\ plock[p] = NO_LOCK <=> Counted(p) = {}

\* A level above SHARED_LOCK is that of the process, and nobody else's in it.
LevelInv ==
    \A c \in Conns : Held(c) > SHARED_LOCK =>
        /\ pc[c] # "exclusive" => plock[Proc[c]] = Held(c)
        /\ \A d \in Conns : (Proc[d] = Proc[c] /\ d # c) => Held(d) <= SHARED_LOCK

\* The POSIX locks a process has are those its connections need; only the
\* reserved byte may be missing, above RESERVED_LOCK.
HasBytes ==
    \A c \in Conns : LET held == Held(c)
                         posix == bytes[Proc[c]] IN
        /\ held >= SHARED_LOCK => posix["shared"] # "none"
        /\ held = RESERVED_LOCK => posix["reserved"] = "write"
        /\ held >= PENDING_LOCK => posix["pending"] = "write"
        /\ (held = EXCLUSIVE_LOCK /\ pc[c] # "toShared") => posix["shared"] = "write"

\* The reserved byte is released with the level that took it.
ReservedByte ==
    \A p \in Procs : bytes[p]["reserved"] # "none" =>
        \E c \in Conns : Proc[c] = p /\ Held(c) > SHARED_LOCK

\* fcntl() never grants conflicting locks.
NoConflict ==
    \A p, q \in Procs : p # q => \A b \in Bytes :
        bytes[p][b] = "write" => bytes[q][b] = "none"

\* What holds of the implementation; Inv adds what FileLock promises.
Impl == /\ TypeOK /\ MutexInv /\ PcInv /\ CountInv /\ LevelInv
        /\ HasBytes /\ ReservedByte /\ NoConflict

Inv == Impl /\ Exclusive

-----------------------------------------------------------------------------
USE DEF NO_LOCK, SHARED_LOCK, RESERVED_LOCK, PENDING_LOCK, EXCLUSIVE_LOCK,
        Levels, Bytes, Locks!NO_LOCK, Locks!SHARED_LOCK, Locks!RESERVED_LOCK,
        Locks!PENDING_LOCK, Locks!EXCLUSIVE_LOCK, Locks!Levels
USE ConnsAssumption

\* A level is a level, before and after a step.
LEMMA HeldType ==
    /\ TypeOK => \A c \in Conns : Held(c) \in Levels
    /\ TypeOK' => \A c \in Conns : Held(c)' \in Levels
<1>1. TypeOK => \A c \in Conns : Held(c) \in Levels
  BY DEF TypeOK, Held
<1>2. TypeOK' => \A c \in Conns : Held(c)' \in Levels
  BY DEF TypeOK, Held
<1> QED
  BY <1>1, <1>2

\* FileLock's own invariant carries over to the mapped levels.
LEMMA LockStep ==
    ASSUME TypeOK, Exclusive, [Locks!LockNext]_Locks!lockVars
    PROVE  Exclusive'
<1>1. Locks!LockTypeOK
  BY HeldType DEF Locks!LockTypeOK, Reservers
<1> QED
  BY <1>1, Locks!LockStep DEF Exclusive, Locks!LockInv

\* A step that leaves every level and the reservation alone is a stutter.
LEMMA Stutter ==
    ASSUME \A d \in Conns : Held(d)' = Held(d), Reservers' = Reservers
    PROVE  UNCHANGED Locks!lockVars
  BY DEF Locks!lockVars

\* One POSIX lock of one process changes.
LEMMA SetByte ==
    ASSUME TypeOK, NEW p \in Procs, NEW b \in Bytes, NEW v \in {"none", "read", "write"},
           bytes' = [bytes EXCEPT ![p][b] = v]
    PROVE  /\ bytes' \in [Procs -> [Bytes -> {"none", "read", "write"}]]
           /\ bytes'[p][b] = v
           /\ \A a \in Bytes \ {b} : bytes'[p][a] = bytes[p][a]
           /\ \A q \in Procs \ {p} : bytes'[q] = bytes[q]
  BY DEF TypeOK

\* A process without a level has no connection with one.
LEMMA NoneHeld ==
    ASSUME TypeOK, CountInv, NEW p \in Procs, plock[p] = NO_LOCK,
           NEW d \in Conns, Proc[d] = p, pc[d] # "granted"
    PROVE  Held(d) = NO_LOCK
<1>1. d \notin Counted(p)
  BY DEF CountInv
<1> QED
  BY <1>1, HeldType DEF Counted

\* A step after which the same connections are counted keeps CountInv.
LEMMA CountSame ==
    ASSUME CountInv,
           \A q \in Procs : /\ Counted(q)' = Counted(q)
                            /\ cnt'[q] = cnt[q] /\ nLock'[q] = nLock[q]
                            /\ plock'[q] = NO_LOCK <=> plock[q] = NO_LOCK
    PROVE  CountInv'
  BY DEF CountInv

\* The process p counts anew, the others as before.
LEMMA CountOthers ==
    ASSUME CountInv, NEW p \in Procs,
           \A q \in Procs \ {p} : /\ Counted(q)' = Counted(q)
                                  /\ cnt'[q] = cnt[q] /\ nLock'[q] = nLock[q]
                                  /\ plock'[q] = plock[q],
           cnt'[p] = Cardinality(Counted(p)') /\ nLock'[p] = cnt'[p],
           plock'[p] = NO_LOCK <=> Counted(p)' = {}
    PROVE  CountInv'
<1>1. ASSUME NEW q \in Procs \ {p}
      PROVE  /\ cnt'[q] = Cardinality(Counted(q)') /\ nLock'[q] = cnt'[q]
             /\ plock'[q] = NO_LOCK <=> Counted(q)' = {}
  BY DEF CountInv
<1> QED
  BY <1>1 DEF CountInv

\* The counted connections of a process are finitely many.
LEMMA CountFinite ==
    ASSUME NEW p \in Procs
    PROVE  IsFiniteSet(Counted(p)) /\ Cardinality(Counted(p)) \in Nat
  BY FS_Subset, FS_CardinalityType DEF Counted

\* A connection that joins a reading process gets what FileLock grants: the
\* process reads, and its own writer, if any, is not yet waiting.
LEMMA JoinStep ==
    ASSUME Inv, NEW c \in Conns, JoinShared(c)
    PROVE  Impl' /\ Locks!LockShared(c)
<1> DEFINE p == Proc[c]
<1> USE DEF Inv, Impl
<1>0. p \in Procs
  OBVIOUS
<1>1. TypeOK'
  BY DEF TypeOK, JoinShared
<1>2. /\ c \in isOpen /\ pc[c] = "idle" /\ mutex[p] = NoConn
      /\ locktype[c] = NO_LOCK /\ plock[p] \in {SHARED_LOCK, RESERVED_LOCK}
      /\ locktype'[c] = SHARED_LOCK
      /\ \A d \in Conns \ {c} : locktype'[d] = locktype[d]
      /\ cnt'[p] = cnt[p] + 1 /\ nLock'[p] = nLock[p] + 1
      /\ \A q \in Procs \ {p} : cnt'[q] = cnt[q] /\ nLock'[q] = nLock[q]
      /\ UNCHANGED <<isOpen, plock, nPending, mutex, bytes, pc>>
  BY DEF TypeOK, JoinShared, Idle
<1>3. /\ Held(c) = NO_LOCK /\ Held(c)' = SHARED_LOCK
      /\ \A d \in Conns \ {c} : Held(d)' = Held(d)
  BY <1>2 DEF Held
<1>4. \A d \in Conns : Held(d) \in Levels /\ Held(d)' \in Levels
  BY HeldType, <1>1
<1>5. Reservers' = Reservers
  BY <1>2, <1>3, <1>4 DEF Reservers
<1>6. MutexInv'
  BY <1>2 DEF MutexInv
<1>7. PcInv'
  BY <1>2 DEF PcInv
<1>8. CountInv'
  <2>1. Counted(p)' = Counted(p) \cup {c} /\ c \notin Counted(p)
    BY <1>2, <1>3 DEF Counted
  <2>2. \A q \in Procs \ {p} : Counted(q)' = Counted(q)
    BY <1>2, <1>3 DEF Counted
  <2>4. Cardinality(Counted(p)') = Cardinality(Counted(p)) + 1
    BY Zenon, <1>0, <2>1, CountFinite, FS_AddElement
  <2>5. Counted(p)' # {} /\ plock'[p] # NO_LOCK
    BY <1>2, <2>1
  <2>6. cnt'[p] = Cardinality(Counted(p)') /\ nLock'[p] = cnt'[p]
    BY <1>0, <1>2, <2>4 DEF CountInv
  <2> QED
    BY <1>0, <1>2, <2>2, <2>5, <2>6, CountOthers
<1>9. LevelInv'
  BY <1>2, <1>3, <1>4 DEF LevelInv
<1>10. PICK e \in Conns : e # c /\ Proc[e] = p /\ Held(e) # NO_LOCK
  <2>1. Counted(p) # {}
    BY <1>0, <1>2 DEF CountInv
  <2> QED
    BY <2>1, <1>3, <1>4 DEF Counted
<1>11. HasBytes'
  <2>1. bytes[p]["shared"] # "none"
    BY <1>10, <1>4 DEF HasBytes
  <2> QED
    BY <2>1, <1>2, <1>3, <1>4 DEF HasBytes
<1>12. ReservedByte'
  BY <1>2, <1>3, <1>4 DEF ReservedByte
<1>13. NoConflict'
  BY <1>2 DEF NoConflict
<1>14. Locks!LockShared(c)
  <2>1. ASSUME NEW d \in Conns, d # c, Held(d) >= PENDING_LOCK
        PROVE  Held(d) = PENDING_LOCK /\ Proc[d] # p
    <3>1. Proc[d] # p
      BY <1>2, <1>4, <2>1 DEF LevelInv, MutexInv
    <3>2. Held(d) # EXCLUSIVE_LOCK
      BY <1>10, <2>1, <3>1 DEF Exclusive, Locks!Exclusion
    <3> QED
      BY <1>4, <3>1, <3>2, <2>1
  <2> QED
    BY Zenon, <2>1, <1>3, <1>5, <1>10 DEF Locks!LockShared, Locks!Others, Locks!ProcessReads
<1> QED
  BY <1>1, <1>6, <1>7, <1>8, <1>9, <1>11, <1>12, <1>13, <1>14 DEF Impl

\* The read-lock on the pending byte is not yet a level.
LEMMA SharedPendingStep ==
    ASSUME Inv, NEW c \in Conns, SharedPending(c)
    PROVE  Impl' /\ UNCHANGED Locks!lockVars
<1> DEFINE p == Proc[c]
<1> USE DEF Inv, Impl
<1>0. p \in Procs
  OBVIOUS
<1>1. TypeOK'
  BY DEF TypeOK, SharedPending, Enter, Go
<1>2. /\ c \in isOpen /\ pc[c] = "idle" /\ mutex[p] = NoConn
      /\ locktype[c] = NO_LOCK /\ plock[p] = NO_LOCK
      /\ mutex'[p] = c /\ \A q \in Procs \ {p} : mutex'[q] = mutex[q]
      /\ pc'[c] = "shared" /\ \A d \in Conns \ {c} : pc'[d] = pc[d]
      /\ bytes'[p]["pending"] = "read"
      /\ bytes'[p]["shared"] = bytes[p]["shared"]
      /\ bytes'[p]["reserved"] = bytes[p]["reserved"]
      /\ \A q \in Procs \ {p} : bytes'[q] = bytes[q]
      /\ UNCHANGED <<isOpen, locktype, plock, cnt, nLock>>
  BY DEF TypeOK, SharedPending, Idle, Enter, Go, Precluded
<1>3. \A d \in Conns : Held(d)' = Held(d)
  BY <1>2 DEF Held
<1>4. \A d \in Conns : Held(d) \in Levels
  BY HeldType
<1>5. \A d \in Conns : Proc[d] = p => Held(d) = NO_LOCK
  BY <1>0, <1>2, NoneHeld DEF MutexInv
<1>6. Reservers' = Reservers
  BY <1>2, <1>3 DEF Reservers
<1>7. MutexInv'
  BY <1>2 DEF MutexInv
<1>8. PcInv'
  BY <1>2 DEF PcInv, MutexInv
<1>9. CountInv'
  <2>1. \A q \in Procs : Counted(q)' = Counted(q)
    BY <1>2, <1>3, <1>5 DEF Counted
  <2> QED
    BY <1>2, <2>1, CountSame
<1>10. LevelInv'
  BY <1>2, <1>3, <1>4 DEF LevelInv
<1>11. HasBytes'
  BY <1>2, <1>3, <1>4, <1>5 DEF HasBytes
<1>12. ReservedByte'
  BY <1>2, <1>3 DEF ReservedByte
<1>13. NoConflict'
  <2>1. \A q \in Procs \ {p} : bytes[q]["pending"] # "write"
    BY DEF SharedPending, CanRead
  <2> QED
    BY <1>2, <2>1 DEF NoConflict
<1> QED
  BY <1>1, <1>3, <1>6, <1>7, <1>8, <1>9, <1>10, <1>11, <1>12, <1>13, Stutter

\* With the pending byte read-locked no other process waits to write.
LEMMA SharedRangeStep ==
    ASSUME Inv, NEW c \in Conns, SharedRange(c)
    PROVE  Impl' /\ (Locks!LockShared(c) \/ UNCHANGED Locks!lockVars)
<1> DEFINE p == Proc[c]
<1> USE DEF Inv, Impl
<1>0. p \in Procs
  OBVIOUS
<1>1. TypeOK'
  BY SMTT(20) DEF TypeOK, SharedRange, Go
<1>2. /\ pc[c] = "shared" /\ pc'[c] \in {"granted", "refused"}
      /\ \A d \in Conns \ {c} : pc'[d] = pc[d]
      /\ bytes'[p]["pending"] = bytes[p]["pending"]
      /\ bytes'[p]["reserved"] = bytes[p]["reserved"]
      /\ pc'[c] = "granted" => bytes'[p]["shared"] = "read" /\ CanRead(p, "shared")
      /\ pc'[c] = "refused" => bytes'[p]["shared"] = bytes[p]["shared"]
      /\ \A q \in Procs \ {p} : bytes'[q] = bytes[q]
      /\ UNCHANGED <<isOpen, locktype, plock, cnt, nLock, mutex>>
  BY SMTT(20) DEF TypeOK, SharedRange, Go
<1>3. /\ mutex[p] = c /\ locktype[c] = NO_LOCK /\ plock[p] = NO_LOCK
      /\ bytes[p]["pending"] = "read"
  BY <1>2 DEF MutexInv, PcInv
<1>4. /\ Held(c) = NO_LOCK
      /\ pc'[c] = "granted" => Held(c)' = SHARED_LOCK
      /\ pc'[c] = "refused" => Held(c)' = NO_LOCK
      /\ \A d \in Conns \ {c} : Held(d)' = Held(d)
  BY <1>2, <1>3 DEF Held
<1>5. \A d \in Conns : Held(d) \in Levels /\ Held(d)' \in Levels
  BY HeldType, <1>1
<1>6. \A d \in Conns : Proc[d] = p => Held(d) = NO_LOCK
  <2>1. \A d \in Conns : Proc[d] = p => pc[d] # "granted"
    BY <1>2, <1>3 DEF MutexInv
  <2> QED
    BY <1>0, <1>3, <2>1, NoneHeld
<1>7. Reservers' = Reservers
  BY <1>2, <1>4, <1>5, <1>6 DEF Reservers
<1>8. MutexInv'
  BY <1>2 DEF MutexInv
<1>9. PcInv'
  BY <1>2, <1>3 DEF PcInv
<1>10. CountInv'
  <2>1. \A q \in Procs : Counted(q)' = Counted(q)
    BY <1>2, <1>4, <1>6 DEF Counted
  <2> QED
    BY <1>2, <2>1, CountSame
<1>11. LevelInv'
  BY <1>2, <1>4, <1>5, <1>6 DEF LevelInv
<1>12. HasBytes'
  BY <1>2, <1>4, <1>5, <1>6 DEF HasBytes
<1>13. ReservedByte'
  BY <1>2, <1>4, <1>6 DEF ReservedByte
<1>14. NoConflict'
  BY <1>2 DEF NoConflict, CanRead
<1>15. CASE pc'[c] = "granted"
  <2>1. ASSUME NEW d \in Conns PROVE Held(d) < PENDING_LOCK
    <3>1. CASE Proc[d] = p
      BY <3>1, <1>6
    <3>2. CASE Proc[d] # p
      <4>1. bytes[Proc[d]]["pending"] # "write"
        BY <1>0, <1>3, <3>2 DEF NoConflict
      <4> QED
        BY <1>5, <4>1 DEF HasBytes
    <3> QED
      BY <3>1, <3>2
  <2>2. /\ Held(c) = NO_LOCK /\ Held(c)' = SHARED_LOCK
        /\ \A d \in Conns \ {c} : Held(d)' = Held(d)
        /\ \A d \in Conns : ~(Held(d) >= PENDING_LOCK)
    BY <1>4, <1>5, <1>15, <2>1
  <2>3. Locks!LockShared(c)
    BY Zenon, <1>7, <2>2 DEF Locks!LockShared, Locks!Others
  <2> QED
    BY <2>3, <1>1, <1>8, <1>9, <1>10, <1>11, <1>12, <1>13, <1>14
<1>16. CASE pc'[c] = "refused"
  BY <1>16, <1>1, <1>4, <1>7, <1>8, <1>9, <1>10, <1>11, <1>12, <1>13, <1>14, Stutter
<1> QED
  BY <1>2, <1>15, <1>16

\* Recording the result of unixLock changes no level.
LEMMA SharedDoneStep ==
    ASSUME Inv, NEW c \in Conns, SharedDone(c)
    PROVE  Impl' /\ UNCHANGED Locks!lockVars
<1> DEFINE p == Proc[c]
<1> USE DEF Inv, Impl
<1>0. p \in Procs
  OBVIOUS
<1>1. TypeOK'
  <2>1. CASE pc[c] = "granted"
    <3>0. SetLocks(c, SHARED_LOCK)
      BY <2>1 DEF SharedDone
    <3>1. locktype' \in [Conns -> Levels] /\ plock' \in [Procs -> Levels]
      BY <3>0 DEF TypeOK, SetLocks
    <3>2. cnt' \in [Procs -> Nat] /\ nLock' \in [Procs -> Nat]
      BY <2>1 DEF TypeOK, SharedDone
    <3> QED
      BY Zenon, <3>1, <3>2 DEF TypeOK, SharedDone, Leave, Go
  <2>2. CASE pc[c] # "granted"
    BY <2>2 DEF TypeOK, SharedDone, Leave, Go
  <2> QED
    BY <2>1, <2>2
<1>2. /\ pc[c] \in {"granted", "refused"} /\ pc'[c] = "idle"
      /\ \A d \in Conns \ {c} : pc'[d] = pc[d] /\ locktype'[d] = locktype[d]
      /\ mutex'[p] = NoConn /\ \A q \in Procs \ {p} : mutex'[q] = mutex[q]
      /\ bytes'[p]["pending"] = "none"
      /\ bytes'[p]["reserved"] = bytes[p]["reserved"]
      /\ bytes'[p]["shared"] = bytes[p]["shared"]
      /\ \A q \in Procs \ {p} : /\ bytes'[q] = bytes[q] /\ plock'[q] = plock[q]
                                /\ cnt'[q] = cnt[q] /\ nLock'[q] = nLock[q]
      /\ pc[c] = "granted" =>
             /\ locktype'[c] = SHARED_LOCK /\ plock'[p] = SHARED_LOCK
             /\ cnt'[p] = 1 /\ nLock'[p] = nLock[p] + 1
      /\ pc[c] = "refused" => UNCHANGED <<locktype, plock, cnt, nLock>>
      /\ isOpen' = isOpen
  BY DEF TypeOK, SharedDone, SetLocks, Leave, Go
<1>3. /\ mutex[p] = c /\ locktype[c] = NO_LOCK /\ plock[p] = NO_LOCK
      /\ c \in isOpen
  BY <1>2 DEF MutexInv, PcInv
<1>4. /\ \A d \in Conns : Held(d)' = Held(d)
      /\ pc[c] = "granted" => Held(c) = SHARED_LOCK
      /\ pc[c] = "refused" => Held(c) = NO_LOCK
  BY <1>2, <1>3 DEF Held
<1>5. \A d \in Conns : Held(d) \in Levels
  BY HeldType
<1>6. \A d \in Conns \ {c} : Proc[d] = p => Held(d) = NO_LOCK
  <2>1. \A d \in Conns \ {c} : Proc[d] = p => pc[d] # "granted"
    BY <1>2, <1>3 DEF MutexInv
  <2> QED
    BY <1>0, <1>3, <2>1, NoneHeld
<1>7. Reservers' = Reservers
  BY <1>2, <1>4 DEF Reservers
<1>8. MutexInv'
  BY <1>2, <1>3 DEF MutexInv
<1>9. PcInv'
  BY <1>2, <1>3 DEF PcInv, MutexInv
<1>10. CountInv'
  <2>1. \A q \in Procs \ {p} : Counted(q)' = Counted(q)
    BY <1>2, <1>4 DEF Counted
  <2>2. Counted(p) = {} /\ cnt[p] = Cardinality(Counted(p)) /\ nLock[p] = cnt[p]
    BY <1>0, <1>3 DEF CountInv
  <2>3. cnt[p] = 0
    BY <2>2, FS_EmptySet
  <2>4. CASE pc[c] = "granted"
    <3>1. Counted(p)' = {c}
      BY <2>4, <1>2, <1>4, <1>6 DEF Counted
    <3>2. Cardinality(Counted(p)') = 1
      BY Zenon, <3>1, FS_Singleton
    <3>3. /\ cnt'[p] = Cardinality(Counted(p)') /\ nLock'[p] = cnt'[p]
          /\ plock'[p] = NO_LOCK <=> Counted(p)' = {}
      BY <1>2, <2>2, <2>3, <2>4, <3>1, <3>2
    <3> QED
      BY <1>0, <1>2, <2>1, <3>3, CountOthers
  <2>5. CASE pc[c] = "refused"
    <3>1. Counted(p)' = {}
      BY <2>5, <1>2, <1>4, <1>6 DEF Counted
    <3>2. /\ cnt'[p] = Cardinality(Counted(p)') /\ nLock'[p] = cnt'[p]
          /\ plock'[p] = NO_LOCK <=> Counted(p)' = {}
      BY <1>2, <1>3, <2>2, <2>5, <3>1
    <3> QED
      BY <1>0, <1>2, <2>1, <3>2, CountOthers
  <2> QED
    BY <1>2, <2>4, <2>5
<1>11. LevelInv'
  BY <1>2, <1>4, <1>5, <1>6, SMTT(30) DEF LevelInv
<1>12. HasBytes'
  BY <1>2, <1>4, <1>5, <1>6 DEF HasBytes
<1>13. ReservedByte'
  BY <1>2, <1>4 DEF ReservedByte
<1>14. NoConflict'
  BY <1>2 DEF NoConflict
<1> QED
  BY <1>1, <1>4, <1>7, <1>8, <1>9, <1>10, <1>11, <1>12, <1>13, <1>14, Stutter

-----------------------------------------------------------------------------
(* unixLock of the levels above SHARED_LOCK. *)

\* The reserved byte excludes other processes, pLock the other threads.
LEMMA ReserveStep ==
    ASSUME Inv, NEW c \in Conns, Reserve(c)
    PROVE  Impl' /\ Locks!LockReserved(c)
<1> DEFINE p == Proc[c]
<1> USE DEF Inv, Impl
<1>0. p \in Procs
  OBVIOUS
<1>1. TypeOK'
  BY DEF TypeOK, Reserve, SetLocks
<1>2. /\ c \in isOpen /\ pc[c] = "idle" /\ mutex[p] = NoConn
      /\ locktype[c] = SHARED_LOCK /\ plock[p] = SHARED_LOCK
      /\ locktype'[c] = RESERVED_LOCK /\ plock'[p] = RESERVED_LOCK
      /\ \A d \in Conns \ {c} : locktype'[d] = locktype[d]
      /\ bytes'[p]["reserved"] = "write"
      /\ bytes'[p]["pending"] = bytes[p]["pending"]
      /\ bytes'[p]["shared"] = bytes[p]["shared"]
      /\ \A q \in Procs \ {p} : bytes'[q] = bytes[q] /\ plock'[q] = plock[q]
      /\ \A q \in Procs \ {p} : bytes[q]["reserved"] = "none"
      /\ UNCHANGED <<isOpen, cnt, nLock, mutex, pc>>
  BY DEF TypeOK, Reserve, SetLocks, Idle, Precluded, CanWrite
<1>3. /\ Held(c) = SHARED_LOCK /\ Held(c)' = RESERVED_LOCK
      /\ \A d \in Conns \ {c} : Held(d)' = Held(d)
  BY <1>2 DEF Held
<1>4. \A d \in Conns : Held(d) \in Levels /\ Held(d)' \in Levels
  BY HeldType, <1>1
<1>5. \A d \in Conns : Proc[d] = p => pc[d] # "exclusive" /\ Held(d) <= SHARED_LOCK
  BY <1>0, <1>2, <1>4 DEF LevelInv, MutexInv
<1>6. MutexInv'
  BY <1>2 DEF MutexInv
<1>7. PcInv'
  BY <1>2 DEF PcInv, MutexInv
<1>8. CountInv'
  <2>1. \A q \in Procs : Counted(q)' = Counted(q)
    BY <1>2, <1>3 DEF Counted
  <2>2. \A q \in Procs : plock'[q] = NO_LOCK <=> plock[q] = NO_LOCK
    BY <1>2
  <2> QED
    BY <1>2, <2>1, <2>2, CountSame
<1>9. LevelInv'
  BY <1>2, <1>3, <1>4, <1>5 DEF LevelInv
<1>10. HasBytes'
  BY <1>2, <1>3, <1>4 DEF HasBytes
<1>11. ReservedByte'
  BY <1>2, <1>3, <1>4 DEF ReservedByte
<1>12. NoConflict'
  BY <1>2 DEF NoConflict
<1>13. Reservers = {}
  BY <1>2, <1>4, <1>5 DEF Reservers
<1>14. Reservers' = {c}
  BY <1>2, <1>3, <1>4, <1>5 DEF Reservers
<1>15. Locks!LockReserved(c)
  BY Zenon, <1>3, <1>13, <1>14 DEF Locks!LockReserved
<1> QED
  BY <1>1, <1>6, <1>7, <1>8, <1>9, <1>10, <1>11, <1>12, <1>15

\* The pending byte excludes another waiting writer.
LEMMA ExclusivePendingStep ==
    ASSUME Inv, NEW c \in Conns, ExclusivePending(c)
    PROVE  Impl' /\ (Locks!LockPending(c) \/ UNCHANGED Locks!lockVars)
<1> DEFINE p == Proc[c]
<1> USE DEF Inv, Impl
<1>0. p \in Procs
  OBVIOUS
<1>1. TypeOK'
  <2>1. bytes' \in [Procs -> [Bytes -> {"none", "read", "write"}]]
    <3>1. CASE locktype[c] < PENDING_LOCK
      BY <1>0, <3>1, SetByte DEF ExclusivePending
    <3>2. CASE ~(locktype[c] < PENDING_LOCK)
      BY <3>2 DEF ExclusivePending, TypeOK
    <3> QED
      BY <3>1, <3>2
  <2> QED
    BY Zenon, <2>1 DEF TypeOK, ExclusivePending, Enter, Go
<1>2. /\ c \in isOpen /\ pc[c] = "idle" /\ mutex[p] = NoConn
      /\ locktype[c] \in SHARED_LOCK .. PENDING_LOCK /\ plock[p] = locktype[c]
      /\ mutex'[p] = c /\ \A q \in Procs \ {p} : mutex'[q] = mutex[q]
      /\ pc'[c] = "exclusive" /\ \A d \in Conns \ {c} : pc'[d] = pc[d]
      /\ locktype[c] < PENDING_LOCK =>
             /\ bytes'[p]["pending"] = "write"
             /\ \A q \in Procs \ {p} : bytes[q]["pending"] = "none"
      /\ locktype[c] = PENDING_LOCK => bytes' = bytes
      /\ bytes'[p]["reserved"] = bytes[p]["reserved"]
      /\ bytes'[p]["shared"] = bytes[p]["shared"]
      /\ \A q \in Procs \ {p} : bytes'[q] = bytes[q]
      /\ UNCHANGED <<isOpen, locktype, plock, cnt, nLock>>
  BY SMTT(20) DEF TypeOK, ExclusivePending, Enter, Go, Idle, Precluded, CanWrite
<1>3. /\ Held(c) = locktype[c] /\ Held(c)' = PENDING_LOCK
      /\ \A d \in Conns \ {c} : Held(d)' = Held(d)
  BY <1>2 DEF Held
<1>4. \A d \in Conns : Held(d) \in Levels /\ Held(d)' \in Levels
  BY HeldType, <1>1
<1>5. bytes'[p]["pending"] = "write"
  BY <1>2, <1>3, <1>4, SMTT(30) DEF HasBytes
<1>6. \A d \in Conns \ {c} : Proc[d] = p => pc[d] # "exclusive" /\ Held(d) <= SHARED_LOCK
  <2>1. \A d \in Conns \ {c} : Proc[d] = p => pc[d] # "exclusive"
    BY <1>2 DEF MutexInv
  <2>2. CASE plock[p] = SHARED_LOCK
    BY <1>4, <2>1, <2>2 DEF LevelInv
  <2>3. CASE plock[p] > SHARED_LOCK
    BY <1>2, <1>3, <2>1, <2>3, SMTT(30) DEF LevelInv
  <2> QED
    BY <1>2, <2>2, <2>3
<1>7. MutexInv'
  BY <1>2, SMTT(30) DEF MutexInv
<1>8. PcInv'
  BY <1>2 DEF PcInv, MutexInv
<1>9. CountInv'
  <2>1. \A q \in Procs : Counted(q)' = Counted(q)
    BY <1>2, <1>3, <1>4 DEF Counted
  <2> QED
    BY <1>2, <2>1, CountSame
<1>10. LevelInv'
  BY <1>2, <1>3, <1>4, <1>6 DEF LevelInv
<1>11. HasBytes'
  BY <1>2, <1>3, <1>4, <1>5, <1>6 DEF HasBytes
<1>12. ReservedByte'
  BY <1>2, <1>3, <1>4 DEF ReservedByte
<1>13. NoConflict'
  BY <1>2 DEF NoConflict
<1>14. Reservers' = Reservers
  <2>1. CASE locktype[c] = SHARED_LOCK
    <3>1. \A d \in Conns : Proc[d] = p => Held(d) <= SHARED_LOCK
      BY <1>3, <1>4, <1>6, <2>1
    <3>2. bytes[p]["reserved"] = "none"
      BY <1>0, <1>4, <3>1 DEF ReservedByte
    <3> QED
      BY <1>2, <1>3, <3>2, SMTT(30) DEF Reservers
  <2>2. CASE locktype[c] # SHARED_LOCK
    BY <1>2, <1>3, <2>2 DEF Reservers
  <2> QED
    BY <2>1, <2>2
<1>15. CASE locktype[c] < PENDING_LOCK
  <2>1. ASSUME NEW d \in Conns \ {c} PROVE Held(d) < PENDING_LOCK
    <3>1. CASE Proc[d] = p
      BY <1>4, <1>6, <3>1
    <3>2. CASE Proc[d] # p
      <4>1. bytes[Proc[d]]["pending"] = "none"
        BY <1>2, <1>15, <3>2
      <4> QED
        BY <1>4, <4>1 DEF HasBytes
    <3> QED
      BY <3>1, <3>2
  <2>2. Held(c) \in {SHARED_LOCK, RESERVED_LOCK}
    BY <1>2, <1>3, <1>15
  <2>3. Locks!LockPending(c)
    BY Zenon, <1>3, <1>14, <2>1, <2>2 DEF Locks!LockPending, Locks!Others
  <2> QED
    BY <2>3, <1>1, <1>7, <1>8, <1>9, <1>10, <1>11, <1>12, <1>13
<1>16. CASE locktype[c] = PENDING_LOCK
  <2>1. \A d \in Conns : Held(d)' = Held(d)
    BY <1>3, <1>16
  <2> QED
    BY <2>1, <1>1, <1>7, <1>8, <1>9, <1>10, <1>11, <1>12, <1>13, <1>14, Stutter
<1> QED
  BY <1>2, <1>15, <1>16

\* cnt <= 1 excludes readers of the process, the range those of others.
LEMMA ExclusiveRangeStep ==
    ASSUME Inv, NEW c \in Conns, ExclusiveRange(c)
    PROVE  Impl' /\ (Locks!LockExclusive(c) \/ UNCHANGED Locks!lockVars)
<1> DEFINE p == Proc[c]
           level == IF ReadersGone(c) THEN EXCLUSIVE_LOCK ELSE PENDING_LOCK
<1> USE DEF Inv, Impl
<1>0. p \in Procs /\ level \in {PENDING_LOCK, EXCLUSIVE_LOCK}
  OBVIOUS
<1>a. SetLocks(c, level) /\ Leave(c) /\ Go(c, "idle")
  BY DEF ExclusiveRange
<1>b. /\ bytes' \in [Procs -> [Bytes -> {"none", "read", "write"}]]
      /\ bytes'[p]["shared"] = IF level = EXCLUSIVE_LOCK THEN "write"
                               ELSE bytes[p]["shared"]
      /\ bytes'[p]["pending"] = bytes[p]["pending"]
      /\ bytes'[p]["reserved"] = bytes[p]["reserved"]
      /\ \A q \in Procs \ {p} : bytes'[q] = bytes[q]
  <2>1. CASE ReadersGone(c)
    <3>1. bytes' = [bytes EXCEPT ![p]["shared"] = "write"]
      BY <2>1 DEF ExclusiveRange
    <3>2. level = EXCLUSIVE_LOCK
      BY <2>1
    <3> HIDE DEF level
    <3>3. /\ bytes' \in [Procs -> [Bytes -> {"none", "read", "write"}]]
          /\ bytes'[p]["shared"] = "write"
          /\ \A a \in Bytes \ {"shared"} : bytes'[p][a] = bytes[p][a]
          /\ \A q \in Procs \ {p} : bytes'[q] = bytes[q]
      BY Zenon, <1>0, <3>1, SetByte
    <3> QED
      BY <3>2, <3>3
  <2>2. CASE ~ReadersGone(c)
    BY <2>2 DEF ExclusiveRange, TypeOK
  <2> QED
    BY <2>1, <2>2
<1>1. TypeOK'
  <2>1. locktype' \in [Conns -> Levels] /\ plock' \in [Procs -> Levels]
    BY <1>0, <1>a DEF TypeOK, SetLocks
  <2> QED
    BY Zenon, <1>a, <1>b, <2>1 DEF TypeOK, ExclusiveRange, Leave, Go
<1>2. /\ pc[c] = "exclusive" /\ pc'[c] = "idle"
      /\ \A d \in Conns \ {c} : pc'[d] = pc[d] /\ locktype'[d] = locktype[d]
      /\ mutex'[p] = NoConn /\ \A q \in Procs \ {p} : mutex'[q] = mutex[q]
      /\ locktype'[c] = level /\ plock'[p] = level
      /\ \A q \in Procs \ {p} : plock'[q] = plock[q]
      /\ UNCHANGED <<isOpen, cnt, nLock>>
  BY <1>a DEF TypeOK, ExclusiveRange, SetLocks, Leave, Go
<1>3. /\ mutex[p] = c /\ c \in isOpen /\ plock[p] # NO_LOCK
  BY <1>2 DEF MutexInv, PcInv
<1>4. /\ Held(c) = PENDING_LOCK /\ Held(c)' = level
      /\ \A d \in Conns \ {c} : Held(d)' = Held(d)
  BY <1>0, <1>2 DEF Held
<1>5. \A d \in Conns : Held(d) \in Levels /\ Held(d)' \in Levels
  BY HeldType, <1>1
<1> HIDE DEF level
<1>6. Reservers' = Reservers
  BY <1>0, <1>b, <1>4 DEF Reservers
<1>7. MutexInv'
  BY <1>2, <1>3 DEF MutexInv
<1>8. PcInv'
  <2>1. \A d \in Conns \ {c} : Proc[d] = p =>
            pc[d] \notin {"shared", "granted", "refused", "exclusive", "toShared", "toNone"}
    BY <1>3 DEF MutexInv
  <2> QED
    BY <1>2, <1>3, <1>b, <2>1, SMTT(30) DEF PcInv
<1>9. CountInv'
  <2>1. \A q \in Procs : Counted(q)' = Counted(q)
    BY <1>0, <1>2, <1>4 DEF Counted
  <2>2. \A q \in Procs : plock'[q] = NO_LOCK <=> plock[q] = NO_LOCK
    BY <1>0, <1>2, <1>3
  <2> QED
    BY <1>2, <2>1, <2>2, CountSame
<1>10. LevelInv'
  <2>1. \A d \in Conns \ {c} : Proc[d] = p => Held(d) <= SHARED_LOCK
    BY <1>4 DEF LevelInv
  <2> QED
    BY <1>0, <1>2, <1>4, <1>5, <2>1 DEF LevelInv
<1>11. HasBytes'
  <2>1. ASSUME NEW d \in Conns PROVE HasBytes!(d)'
    <3>1. CASE d = c
      BY <1>0, <1>b, <1>2, <1>4, <3>1, SMTT(30) DEF HasBytes
    <3>2. CASE d # c /\ Proc[d] = p
      BY <1>0, <1>b, <1>2, <1>4, <1>5, <3>2 DEF HasBytes, LevelInv
    <3>3. CASE Proc[d] # p
      BY <1>b, <1>2, <1>4, <3>3 DEF HasBytes
    <3> QED
      BY <3>1, <3>2, <3>3
  <2> QED
    BY <2>1 DEF HasBytes
<1>12. ReservedByte'
  BY <1>0, <1>b, <1>4 DEF ReservedByte
<1>13. NoConflict'
  <2>1. level = EXCLUSIVE_LOCK => \A q \in Procs \ {p} : bytes[q]["shared"] = "none"
    BY DEF level, ReadersGone, CanWrite
  <2> QED
    BY <1>b, <2>1 DEF NoConflict
<1>14. CASE level = EXCLUSIVE_LOCK
  <2>0. cnt[p] <= 1 /\ \A q \in Procs \ {p} : bytes[q]["shared"] = "none"
    BY <1>14 DEF level, ReadersGone, CanWrite
  <2>1. ASSUME NEW d \in Conns \ {c} PROVE Held(d) = NO_LOCK
    <3>1. CASE Proc[d] = p
      <4>1. c \in Counted(p) /\ Cardinality(Counted(p)) <= 1
        BY <1>0, <1>2, <1>4, <2>0 DEF Counted, CountInv
      <4>2. Cardinality(Counted(p) \ {c}) = Cardinality(Counted(p)) - 1
        BY Zenon, <1>0, <4>1, CountFinite, FS_RemoveElement
      <4>3. IsFiniteSet(Counted(p) \ {c})
        BY SMTT(20), <1>0, CountFinite, FS_RemoveElement
      <4>4. Cardinality(Counted(p) \ {c}) = 0
        <5>1. Cardinality(Counted(p) \ {c}) \in Nat /\ Cardinality(Counted(p)) \in Nat
          BY <1>0, <4>3, FS_CardinalityType, CountFinite
        <5> QED
          BY <4>1, <4>2, <5>1
      <4>5. Counted(p) \ {c} = {}
        BY <4>3, <4>4, FS_EmptySet
      <4>6. pc[d] # "granted"
        BY <1>3, <3>1 DEF MutexInv
      <4> QED
        BY <1>5, <3>1, <4>5, <4>6 DEF Counted
    <3>2. CASE Proc[d] # p
      BY <1>5, <2>0, <3>2 DEF HasBytes
    <3> QED
      BY <3>1, <3>2
  <2>2. Locks!LockExclusive(c)
    BY Zenon, <1>4, <1>6, <1>14, <2>1 DEF Locks!LockExclusive, Locks!Others
  <2> QED
    BY <2>2, <1>1, <1>7, <1>8, <1>9, <1>10, <1>11, <1>12, <1>13
<1>15. CASE level = PENDING_LOCK
  BY <1>15, <1>1, <1>4, <1>6, <1>7, <1>8, <1>9, <1>10, <1>11, <1>12, <1>13, Stutter
<1> QED
  BY <1>0, <1>14, <1>15
=============================================================================
