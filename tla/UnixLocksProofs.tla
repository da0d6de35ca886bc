-------------------------- MODULE UnixLocksProofs ---------------------------
(***************************************************************************)
(* UnixLocks implements FileLock for any connections and processes.        *)
(***************************************************************************)
EXTENDS UnixLocksInvariant

USE DEF NO_LOCK, SHARED_LOCK, RESERVED_LOCK, PENDING_LOCK, EXCLUSIVE_LOCK,
        Levels, Bytes, Locks!NO_LOCK, Locks!SHARED_LOCK, Locks!RESERVED_LOCK,
        Locks!PENDING_LOCK, Locks!EXCLUSIVE_LOCK, Locks!Levels
USE ConnsAssumption

-----------------------------------------------------------------------------
(* unixUnlock preserves the invariant and does what FileLock allows. *)

\* The range is read-locked again before the level is given back.
LEMMA UnlockToSharedStep ==
    ASSUME Inv, NEW c \in Conns, UnlockToShared(c)
    PROVE  Impl' /\ UNCHANGED Locks!lockVars
<1> DEFINE p == Proc[c]
<1> USE DEF Inv, Impl
<1>0. p \in Procs
  OBVIOUS
<1>a. /\ bytes' \in [Procs -> [Bytes -> {"none", "read", "write"}]]
      /\ bytes'[p]["shared"] = "read"
      /\ bytes'[p]["pending"] = bytes[p]["pending"]
      /\ bytes'[p]["reserved"] = bytes[p]["reserved"]
      /\ \A q \in Procs \ {p} : bytes'[q] = bytes[q]
  <2>1. /\ bytes' \in [Procs -> [Bytes -> {"none", "read", "write"}]]
        /\ bytes'[p]["shared"] = "read"
        /\ \A a \in Bytes \ {"shared"} : bytes'[p][a] = bytes[p][a]
        /\ \A q \in Procs \ {p} : bytes'[q] = bytes[q]
    BY Zenon, <1>0, SetByte DEF UnlockToShared
  <2> QED
    BY <2>1
<1>1. TypeOK'
  BY <1>a DEF TypeOK, UnlockToShared, Enter, Go
<1>2. /\ c \in isOpen /\ pc[c] = "idle" /\ mutex[p] = NoConn
      /\ locktype[c] \in Levels /\ locktype[c] > SHARED_LOCK
      /\ mutex'[p] = c /\ \A q \in Procs \ {p} : mutex'[q] = mutex[q]
      /\ pc'[c] = "toShared" /\ \A d \in Conns \ {c} : pc'[d] = pc[d]
      /\ UNCHANGED <<isOpen, locktype, plock, cnt, nLock>>
  BY DEF TypeOK, UnlockToShared, Enter, Go, Idle
<1>3. /\ Held(c) = locktype[c]
      /\ \A d \in Conns : Held(d)' = Held(d)
  BY <1>2 DEF Held
<1>4. \A d \in Conns : Held(d) \in Levels
  BY HeldType
<1>5. Reservers' = Reservers
  BY <1>a, <1>3 DEF Reservers
<1>6. MutexInv'
  BY <1>2 DEF MutexInv
<1>7. PcInv'
  <2>1. \A d \in Conns \ {c} : Proc[d] = p => pc[d] \notin {"shared", "granted", "refused"}
    BY <1>2 DEF MutexInv
  <2> QED
    BY <1>a, <1>2, <2>1 DEF PcInv
<1>8. CountInv'
  <2>1. \A q \in Procs : Counted(q)' = Counted(q)
    BY <1>2, <1>3 DEF Counted
  <2> QED
    BY <1>2, <2>1, CountSame
<1>9. LevelInv'
  BY <1>2, <1>3 DEF LevelInv
<1>10. HasBytes'
  <2>1. \A d \in Conns \ {c} : Proc[d] = p => Held(d) <= SHARED_LOCK
    BY <1>2, <1>3 DEF LevelInv
  <2> QED
    BY <1>a, <1>2, <1>3, <1>4, <2>1 DEF HasBytes
<1>11. ReservedByte'
  BY <1>a, <1>3 DEF ReservedByte
<1>12. NoConflict'
  <2>1. bytes[p]["shared"] # "none"
    BY <1>2, <1>3 DEF HasBytes
  <2> QED
    BY <1>0, <1>a, <2>1 DEF NoConflict
<1> QED
  BY <1>1, <1>3, <1>5, <1>6, <1>7, <1>8, <1>9, <1>10, <1>11, <1>12, Stutter

\* Both ways down from a write lock release the two bytes.
LEMMA BytesReleasedFacts ==
    ASSUME TypeOK, NEW c \in Conns, BytesReleased(c)
    PROVE  LET p == Proc[c] IN
           /\ bytes' \in [Procs -> [Bytes -> {"none", "read", "write"}]]
           /\ plock' \in [Procs -> Levels]
           /\ bytes'[p]["pending"] = "none" /\ bytes'[p]["reserved"] = "none"
           /\ bytes'[p]["shared"] = bytes[p]["shared"]
           /\ plock'[p] = SHARED_LOCK
           /\ \A q \in Procs \ {p} : bytes'[q] = bytes[q] /\ plock'[q] = plock[q]
<1>1. plock' \in [Procs -> Levels]
  BY DEF TypeOK, BytesReleased
<1> QED
  BY SMTT(20), <1>1 DEF TypeOK, BytesReleased

\* Releasing the two bytes gives the level back.
LEMMA ReleaseBytesStep ==
    ASSUME Inv, NEW c \in Conns, ReleaseBytes(c)
    PROVE  Impl' /\ Locks!Unlock(c, SHARED_LOCK)
<1> DEFINE p == Proc[c]
<1> USE DEF Inv, Impl
<1>0. p \in Procs
  OBVIOUS
<1>a. /\ bytes' \in [Procs -> [Bytes -> {"none", "read", "write"}]]
      /\ plock' \in [Procs -> Levels]
      /\ bytes'[p]["pending"] = "none" /\ bytes'[p]["reserved"] = "none"
      /\ bytes'[p]["shared"] = bytes[p]["shared"]
      /\ plock'[p] = SHARED_LOCK
      /\ \A q \in Procs \ {p} : bytes'[q] = bytes[q] /\ plock'[q] = plock[q]
  BY BytesReleasedFacts DEF ReleaseBytes
<1>1. TypeOK'
  BY Zenon, <1>a DEF TypeOK, ReleaseBytes, Leave, Go
<1>2. /\ pc[c] = "toShared" /\ pc'[c] = "nowShared"
      /\ \A d \in Conns \ {c} : pc'[d] = pc[d]
      /\ mutex'[p] = NoConn /\ \A q \in Procs \ {p} : mutex'[q] = mutex[q]
      /\ UNCHANGED <<isOpen, locktype, cnt, nLock>>
  BY DEF TypeOK, ReleaseBytes, Leave, Go
<1>3. /\ mutex[p] = c /\ c \in isOpen
      /\ locktype[c] \in Levels /\ locktype[c] > SHARED_LOCK
  BY <1>2 DEF MutexInv, PcInv, TypeOK
<1>4. /\ Held(c) = locktype[c] /\ Held(c)' = SHARED_LOCK
      /\ \A d \in Conns \ {c} : Held(d)' = Held(d)
  BY <1>2 DEF Held
<1>5. \A d \in Conns : Held(d) \in Levels /\ Held(d)' \in Levels
  BY HeldType, <1>1
<1>6. \A d \in Conns \ {c} : Proc[d] = p =>
          /\ Held(d) <= SHARED_LOCK
          /\ pc[d] \notin {"shared", "granted", "refused", "exclusive", "toShared", "toNone"}
  BY <1>3, <1>4 DEF LevelInv, MutexInv
<1>7. Reservers' = Reservers \ {c}
  BY <1>a, <1>4, <1>5, <1>6 DEF Reservers
<1>8. MutexInv'
  BY <1>2, <1>3 DEF MutexInv
<1>9. PcInv'
  BY <1>a, <1>2, <1>3, <1>6 DEF PcInv
<1>10. CountInv'
  <2>1. \A q \in Procs : Counted(q)' = Counted(q)
    BY <1>2, <1>3, <1>4, <1>5 DEF Counted
  <2>2. plock[p] # NO_LOCK
    BY <1>2, <1>3, <1>4 DEF LevelInv
  <2>3. \A q \in Procs : plock'[q] = NO_LOCK <=> plock[q] = NO_LOCK
    BY <1>0, <1>a, <2>2
  <2> QED
    BY <1>2, <2>1, <2>3, CountSame
<1>11. LevelInv'
  BY <1>a, <1>2, <1>4, <1>5, <1>6 DEF LevelInv
<1>12. HasBytes'
  <2>1. bytes[p]["shared"] # "none"
    BY <1>3, <1>4, <1>5 DEF HasBytes
  <2> QED
    BY <1>a, <1>2, <1>4, <1>5, <1>6, <2>1 DEF HasBytes
<1>13. ReservedByte'
  BY <1>a, <1>4, <1>5 DEF ReservedByte
<1>14. NoConflict'
  BY <1>a DEF NoConflict
<1>15. Locks!Unlock(c, SHARED_LOCK)
  BY Zenon, <1>3, <1>4, <1>7 DEF Locks!Unlock
<1> QED
  BY <1>1, <1>8, <1>9, <1>10, <1>11, <1>12, <1>13, <1>14, <1>15

\* Releasing the two bytes is the first half of giving everything back.
LEMMA UnlockToNoneStep ==
    ASSUME Inv, NEW c \in Conns, UnlockToNone(c)
    PROVE  Impl' /\ Locks!Unlock(c, SHARED_LOCK)
<1> DEFINE p == Proc[c]
<1> USE DEF Inv, Impl
<1>0. p \in Procs
  OBVIOUS
<1>a. /\ bytes' \in [Procs -> [Bytes -> {"none", "read", "write"}]]
      /\ plock' \in [Procs -> Levels]
      /\ bytes'[p]["pending"] = "none" /\ bytes'[p]["reserved"] = "none"
      /\ bytes'[p]["shared"] = bytes[p]["shared"]
      /\ plock'[p] = SHARED_LOCK
      /\ \A q \in Procs \ {p} : bytes'[q] = bytes[q] /\ plock'[q] = plock[q]
  BY BytesReleasedFacts DEF UnlockToNone
<1>1. TypeOK'
  BY Zenon, <1>a DEF TypeOK, UnlockToNone, Enter, Go
<1>2. /\ c \in isOpen /\ pc[c] = "idle" /\ mutex[p] = NoConn
      /\ locktype[c] \in Levels /\ locktype[c] > SHARED_LOCK
      /\ mutex'[p] = c /\ \A q \in Procs \ {p} : mutex'[q] = mutex[q]
      /\ pc'[c] = "toNone" /\ \A d \in Conns \ {c} : pc'[d] = pc[d]
      /\ UNCHANGED <<isOpen, locktype, cnt, nLock>>
  BY DEF TypeOK, UnlockToNone, Enter, Go, Idle
<1>4. /\ Held(c) = locktype[c] /\ Held(c)' = SHARED_LOCK
      /\ \A d \in Conns \ {c} : Held(d)' = Held(d)
  BY <1>2 DEF Held
<1>5. \A d \in Conns : Held(d) \in Levels /\ Held(d)' \in Levels
  BY HeldType, <1>1
<1>6. \A d \in Conns \ {c} : Proc[d] = p =>
          /\ Held(d) <= SHARED_LOCK
          /\ pc[d] \notin {"shared", "granted", "refused", "exclusive", "toShared", "toNone"}
  BY <1>2, <1>4 DEF LevelInv, MutexInv
<1>7. Reservers' = Reservers \ {c}
  BY <1>a, <1>4, <1>5, <1>6 DEF Reservers
<1>8. MutexInv'
  BY <1>2 DEF MutexInv
<1>9. PcInv'
  BY <1>a, <1>2, <1>6 DEF PcInv
<1>10. CountInv'
  <2>1. \A q \in Procs : Counted(q)' = Counted(q)
    BY <1>2, <1>4, <1>5 DEF Counted
  <2>2. plock[p] # NO_LOCK
    BY <1>2, <1>4 DEF LevelInv
  <2>3. \A q \in Procs : plock'[q] = NO_LOCK <=> plock[q] = NO_LOCK
    BY <1>0, <1>a, <2>2
  <2> QED
    BY <1>2, <2>1, <2>3, CountSame
<1>11. LevelInv'
  BY SMTT(20), <1>a, <1>2, <1>4, <1>5, <1>6 DEF LevelInv
<1>12. HasBytes'
  <2>1. bytes[p]["shared"] # "none"
    BY <1>2, <1>4, <1>5 DEF HasBytes
  <2> QED
    BY <1>a, <1>2, <1>4, <1>5, <1>6, <2>1 DEF HasBytes
<1>13. ReservedByte'
  BY <1>a, <1>4, <1>5 DEF ReservedByte
<1>14. NoConflict'
  BY <1>a DEF NoConflict
<1>15. Locks!Unlock(c, SHARED_LOCK)
  BY Zenon, <1>2, <1>4, <1>7 DEF Locks!Unlock
<1> QED
  BY <1>1, <1>8, <1>9, <1>10, <1>11, <1>12, <1>13, <1>14, <1>15

\* Counting down is the second half; the last one releases the range.
LEMMA CountDownStep ==
    ASSUME Inv, NEW c \in Conns, CountDown(c)
    PROVE  Impl' /\ Locks!Unlock(c, NO_LOCK)
<1> DEFINE p == Proc[c]
<1> USE DEF Inv, Impl
<1>0. p \in Procs
  OBVIOUS
<1>2. /\ pc[c] = "toNone" \/ (pc[c] = "idle" /\ locktype[c] = SHARED_LOCK /\ c \in isOpen)
      /\ pc[c] = "idle" => mutex[p] = NoConn
      /\ cnt[p] \in Nat /\ cnt'[p] = cnt[p] - 1
      /\ nLock[p] \in Nat /\ nLock'[p] = nLock[p] - 1
      /\ pc'[c] = "nowNone" /\ \A d \in Conns \ {c} : pc'[d] = pc[d]
      /\ mutex'[p] = NoConn /\ \A q \in Procs \ {p} : mutex'[q] = mutex[q]
      /\ \A q \in Procs \ {p} : cnt'[q] = cnt[q] /\ nLock'[q] = nLock[q]
      /\ UNCHANGED <<isOpen, locktype>>
  BY DEF TypeOK, CountDown, Idle, Leave, Go
<1>3. /\ c \in isOpen /\ mutex[p] \in {c, NoConn}
      /\ pc[c] = "toNone" => plock[p] = SHARED_LOCK /\ locktype[c] > SHARED_LOCK
  BY <1>2 DEF PcInv, MutexInv
<1>4. Held(c) = SHARED_LOCK
  BY <1>2 DEF Held
<1>5. c \in Counted(p)
  BY <1>2, <1>4 DEF Counted
<1>6. cnt[p] = Cardinality(Counted(p)) /\ nLock[p] = cnt[p] /\ plock[p] # NO_LOCK
  BY <1>0, <1>5 DEF CountInv
<1>7. /\ IsFiniteSet(Counted(p) \ {c})
      /\ Cardinality(Counted(p) \ {c}) = cnt[p] - 1
      /\ cnt[p] - 1 \in Nat
      /\ cnt[p] = 1 <=> Counted(p) \ {c} = {}
  <2>1. /\ IsFiniteSet(Counted(p) \ {c})
        /\ Cardinality(Counted(p) \ {c}) = cnt[p] - 1
    BY <1>0, <1>5, <1>6, CountFinite, FS_RemoveElement
  <2>2. cnt[p] - 1 \in Nat
    BY <2>1, FS_CardinalityType
  <2>3. Cardinality(Counted(p) \ {c}) = 0 <=> Counted(p) \ {c} = {}
    BY <2>1, FS_EmptySet
  <2> QED
    BY <1>2, <2>1, <2>2, <2>3
<1>8. /\ cnt[p] = 1 => bytes' = [bytes EXCEPT ![p] = Unlocked]
                       /\ plock' = [plock EXCEPT ![p] = NO_LOCK]
      /\ cnt[p] # 1 => UNCHANGED <<bytes, plock>>
      /\ nPending' = [nPending EXCEPT ![p] = IF nLock[p] = 1 THEN 0 ELSE @]
      /\ cnt' = [cnt EXCEPT ![p] = @ - 1] /\ nLock' = [nLock EXCEPT ![p] = @ - 1]
      /\ Leave(c) /\ Go(c, "nowNone") /\ UNCHANGED <<isOpen, locktype>>
  BY DEF CountDown
<1>9. TypeOK'
  <2>1. cnt' \in [Procs -> Nat] /\ nLock' \in [Procs -> Nat]
    BY <1>6, <1>7, <1>8 DEF TypeOK
  <2>2. nPending' \in [Procs -> Nat]
    BY <1>8 DEF TypeOK
  <2>3. plock' \in [Procs -> Levels]
    BY <1>8 DEF TypeOK
  <2>4. bytes' \in [Procs -> [Bytes -> {"none", "read", "write"}]]
    BY SMTT(20), <1>8 DEF TypeOK, Unlocked
  <2> QED
    BY <1>8, <2>1, <2>2, <2>3, <2>4 DEF TypeOK, Leave, Go
<1>10. /\ cnt[p] = 1 => plock'[p] = NO_LOCK /\ \A b \in Bytes : bytes'[p][b] = "none"
       /\ cnt[p] # 1 => plock'[p] = plock[p] /\ bytes'[p] = bytes[p]
       /\ \A q \in Procs \ {p} : plock'[q] = plock[q] /\ bytes'[q] = bytes[q]
  BY <1>8 DEF TypeOK, Unlocked
<1>11. Held(c)' = NO_LOCK /\ \A d \in Conns \ {c} : Held(d)' = Held(d)
  BY <1>2 DEF Held
<1>12. \A d \in Conns : Held(d) \in Levels /\ Held(d)' \in Levels
  BY HeldType, <1>9
<1>13. \A d \in Conns \ {c} : Proc[d] = p =>
          pc[d] \notin {"shared", "granted", "refused", "exclusive", "toShared", "toNone"}
  BY <1>2, <1>3 DEF MutexInv
<1>14. cnt[p] = 1 => \A d \in Conns \ {c} : Proc[d] = p => Held(d) = NO_LOCK
  BY <1>7, <1>12, <1>13 DEF Counted
<1>15. Reservers' = Reservers \ {c}
  BY <1>10, <1>11, <1>12, <1>14 DEF Reservers
<1>16. MutexInv'
  BY <1>2, <1>3 DEF MutexInv
<1>17. PcInv'
  <2>1. locktype[c] > NO_LOCK
    BY <1>2, <1>3 DEF TypeOK
  <2> QED
    BY <1>2, <1>3, <1>10, <1>13, <2>1 DEF PcInv
<1>18. CountInv'
  <2>1. Counted(p)' = Counted(p) \ {c}
    BY <1>2, <1>11 DEF Counted
  <2>2. \A q \in Procs \ {p} : Counted(q)' = Counted(q)
    BY <1>2, <1>11 DEF Counted
  <2>3. /\ cnt'[p] = Cardinality(Counted(p)') /\ nLock'[p] = cnt'[p]
        /\ plock'[p] = NO_LOCK <=> Counted(p)' = {}
    BY <1>2, <1>6, <1>7, <1>10, <2>1
  <2> QED
    BY <1>0, <1>2, <1>10, <2>2, <2>3, CountOthers
<1>19. LevelInv'
  BY <1>2, <1>10, <1>11, <1>12, <1>14 DEF LevelInv
<1>20. HasBytes'
  BY <1>2, <1>10, <1>11, <1>12, <1>14 DEF HasBytes
<1>21. ReservedByte'
  BY <1>4, <1>10, <1>11, <1>12 DEF ReservedByte
<1>22. NoConflict'
  BY <1>10 DEF NoConflict
<1>23. Locks!Unlock(c, NO_LOCK)
  <2>1. Held(c) > NO_LOCK
    BY <1>4
  <2> QED
    BY Zenon, <1>11, <1>15, <2>1 DEF Locks!Unlock
<1> QED
  BY <1>9, <1>16, <1>17, <1>18, <1>19, <1>20, <1>21, <1>22, <1>23

\* The late write of the connection's own field changes no level.
LEMMA UnlockDoneStep ==
    ASSUME Inv, NEW c \in Conns, UnlockDone(c)
    PROVE  Impl' /\ UNCHANGED Locks!lockVars
<1> DEFINE p == Proc[c]
           level == IF pc[c] = "nowNone" THEN NO_LOCK ELSE SHARED_LOCK
<1> USE DEF Inv, Impl
<1>0. p \in Procs /\ level \in Levels
  OBVIOUS
<1>1. TypeOK'
  BY <1>0 DEF TypeOK, UnlockDone, Go
<1>2. /\ pc[c] \in {"nowShared", "nowNone"} /\ pc'[c] = "idle"
      /\ locktype'[c] = level
      /\ \A d \in Conns \ {c} : pc'[d] = pc[d] /\ locktype'[d] = locktype[d]
      /\ UNCHANGED <<isOpen, plock, cnt, nLock, mutex, bytes>>
  BY DEF TypeOK, UnlockDone, Go
<1>3. c \in isOpen
  BY <1>2 DEF PcInv
<1>4. Held(c) = level /\ \A d \in Conns : Held(d)' = Held(d)
  BY <1>2 DEF Held
<1>5. Held(c) <= SHARED_LOCK
  BY <1>4
<1> HIDE DEF level
<1>6. Reservers' = Reservers
  BY <1>2, <1>4 DEF Reservers
<1>7. MutexInv'
  BY <1>2 DEF MutexInv
<1>8. PcInv'
  BY <1>2, <1>3 DEF PcInv
<1>9. CountInv'
  <2>1. \A q \in Procs : Counted(q)' = Counted(q)
    BY <1>2, <1>4 DEF Counted
  <2> QED
    BY <1>2, <2>1, CountSame
<1>10. LevelInv'
  BY <1>2, <1>4, <1>5, HeldType DEF LevelInv
<1>11. HasBytes'
  BY <1>2, <1>4, <1>5, HeldType DEF HasBytes
<1>12. ReservedByte'
  BY <1>2, <1>4 DEF ReservedByte
<1>13. NoConflict'
  BY <1>2 DEF NoConflict
<1> QED
  BY <1>1, <1>4, <1>6, <1>7, <1>8, <1>9, <1>10, <1>11, <1>12, <1>13, Stutter

-----------------------------------------------------------------------------
(* The other steps, and the theorems. *)

\* Opening a descriptor changes no level.
LEMMA OpenStep ==
    ASSUME Inv, NEW c \in Conns, Open(c)
    PROVE  Impl' /\ UNCHANGED Locks!lockVars
<1> USE DEF Inv, Impl
<1>1. TypeOK'
  BY DEF TypeOK, Open
<1>2. /\ \A d \in Conns : d \notin isOpen' => d \notin isOpen
      /\ UNCHANGED <<locktype, plock, cnt, nLock, mutex, bytes, pc>>
  BY DEF Open
<1>3. \A d \in Conns : Held(d)' = Held(d)
  BY <1>2 DEF Held
<1>4. Reservers' = Reservers
  BY <1>2, <1>3 DEF Reservers
<1>5. MutexInv' /\ PcInv'
  BY <1>2 DEF MutexInv, PcInv
<1>6. CountInv'
  <2>1. \A q \in Procs : Counted(q)' = Counted(q)
    BY <1>2, <1>3 DEF Counted
  <2> QED
    BY <1>2, <2>1, CountSame
<1>7. LevelInv' /\ HasBytes' /\ ReservedByte' /\ NoConflict'
  BY <1>2, <1>3 DEF LevelInv, HasBytes, ReservedByte, NoConflict
<1> QED
  BY <1>1, <1>3, <1>4, <1>5, <1>6, <1>7, Stutter

\* The close that really closes is one of a process that holds nothing.
LEMMA CloseStep ==
    ASSUME Inv, NEW c \in Conns, Close(c)
    PROVE  Impl' /\ UNCHANGED Locks!lockVars
<1> DEFINE p == Proc[c]
<1> USE DEF Inv, Impl
<1>0. p \in Procs
  OBVIOUS
<1>1. /\ pc[c] = "idle" /\ mutex[p] = NoConn /\ locktype[c] = NO_LOCK
      /\ isOpen' = isOpen \ {c}
      /\ nLock[p] > 0 => bytes' = bytes /\ nPending' = [nPending EXCEPT ![p] = @ + 1]
      /\ ~(nLock[p] > 0) => bytes' = [bytes EXCEPT ![p] = Unlocked] /\ nPending' = nPending
      /\ UNCHANGED <<locktype, plock, cnt, nLock, mutex, pc>>
  BY DEF Close, Idle
<1>2. TypeOK'
  <2>1. nPending' \in [Procs -> Nat]
    BY <1>1 DEF TypeOK
  <2>2. bytes' \in [Procs -> [Bytes -> {"none", "read", "write"}]]
    BY <1>1 DEF TypeOK, Unlocked
  <2> QED
    BY <1>1, <2>1, <2>2 DEF TypeOK
<1>3. /\ \A q \in Procs \ {p} : bytes'[q] = bytes[q]
      /\ bytes'[p] = bytes[p] \/ (nLock[p] = 0 /\ \A b \in Bytes : bytes'[p][b] = "none")
  BY <1>0, <1>1 DEF TypeOK, Unlocked
<1>4. \A d \in Conns : Held(d)' = Held(d)
  BY <1>1 DEF Held
<1>5. \A d \in Conns : Held(d) \in Levels
  BY HeldType
<1>6. nLock[p] = 0 => \A d \in Conns : Proc[d] = p => Held(d) = NO_LOCK
  <2>1. nLock[p] = 0 => Counted(p) = {}
    BY <1>0, CountFinite, FS_EmptySet DEF CountInv
  <2>2. \A d \in Conns : Proc[d] = p => pc[d] # "granted"
    BY <1>1 DEF MutexInv
  <2> QED
    BY <1>5, <2>1, <2>2 DEF Counted
<1>7. Reservers' = Reservers
  BY <1>3, <1>4, <1>6 DEF Reservers
<1>8. MutexInv'
  BY <1>1 DEF MutexInv
<1>9. PcInv'
  <2>1. \A d \in Conns : Proc[d] = p => pc[d] \notin {"shared", "granted", "refused"}
    BY <1>1 DEF MutexInv
  <2> QED
    BY <1>1, <1>3, <2>1 DEF PcInv
<1>10. CountInv'
  <2>1. \A q \in Procs : Counted(q)' = Counted(q)
    BY <1>1, <1>4 DEF Counted
  <2> QED
    BY <1>1, <2>1, CountSame
<1>11. LevelInv'
  BY <1>1, <1>4 DEF LevelInv
<1>12. HasBytes'
  BY <1>1, <1>3, <1>4, <1>5, <1>6 DEF HasBytes
<1>13. ReservedByte'
  BY <1>3, <1>4 DEF ReservedByte
<1>14. NoConflict'
  BY <1>3 DEF NoConflict
<1> QED
  BY <1>2, <1>4, <1>7, <1>8, <1>9, <1>10, <1>11, <1>12, <1>13, <1>14, Stutter

\* The end of a process drops its levels and no others.
LEMMA ExitStep ==
    ASSUME Inv, NEW p \in Procs, Exit(p)
    PROVE  Impl' /\ Locks!DropLocks({c \in Conns : Proc[c] = p})
<1> DEFINE mine == {c \in Conns : Proc[c] = p}
<1> USE DEF Inv, Impl
<1>1. /\ isOpen' = isOpen \ mine
      /\ locktype' = [c \in Conns |-> IF c \in mine THEN NO_LOCK ELSE locktype[c]]
      /\ pc' = [c \in Conns |-> IF c \in mine THEN "idle" ELSE pc[c]]
      /\ plock' = [plock EXCEPT ![p] = NO_LOCK]
      /\ cnt' = [cnt EXCEPT ![p] = 0] /\ nLock' = [nLock EXCEPT ![p] = 0]
      /\ nPending' = [nPending EXCEPT ![p] = 0]
      /\ mutex' = [mutex EXCEPT ![p] = NoConn]
      /\ bytes' = [bytes EXCEPT ![p] = Unlocked]
  BY DEF Exit
<1>2. TypeOK'
  <2>1. locktype' \in [Conns -> Levels] /\ isOpen' \subseteq Conns
    BY <1>1 DEF TypeOK
  <2>2. plock' \in [Procs -> Levels] /\ cnt' \in [Procs -> Nat] /\ nLock' \in [Procs -> Nat]
    BY <1>1 DEF TypeOK
  <2>3. nPending' \in [Procs -> Nat] /\ mutex' \in [Procs -> Conns \cup {NoConn}]
    BY <1>1 DEF TypeOK
  <2>4. bytes' \in [Procs -> [Bytes -> {"none", "read", "write"}]]
    BY <1>1 DEF TypeOK, Unlocked
  <2>5. pc' \in [Conns -> {"idle", "shared", "granted", "refused", "exclusive",
                           "toShared", "nowShared", "toNone", "nowNone"}]
    BY <1>1 DEF TypeOK
  <2> QED
    BY <2>1, <2>2, <2>3, <2>4, <2>5 DEF TypeOK
<1>3. /\ \A d \in mine : locktype'[d] = NO_LOCK /\ pc'[d] = "idle" /\ d \notin isOpen'
      /\ \A d \in Conns \ mine : /\ locktype'[d] = locktype[d] /\ pc'[d] = pc[d]
                                 /\ d \in isOpen' <=> d \in isOpen
      /\ plock'[p] = NO_LOCK /\ cnt'[p] = 0 /\ nLock'[p] = 0 /\ mutex'[p] = NoConn
      /\ \A b \in Bytes : bytes'[p][b] = "none"
      /\ \A q \in Procs \ {p} : /\ plock'[q] = plock[q] /\ cnt'[q] = cnt[q]
                                /\ nLock'[q] = nLock[q] /\ mutex'[q] = mutex[q]
                                /\ bytes'[q] = bytes[q]
  BY <1>1 DEF TypeOK, Unlocked
<1>4. /\ \A d \in mine : Held(d)' = NO_LOCK
      /\ \A d \in Conns \ mine : Held(d)' = Held(d)
  BY <1>3 DEF Held
<1>5. Reservers' = Reservers \ mine
  <2>1. \A d \in Conns \ mine : Proc[d] \in Procs \ {p}
    OBVIOUS
  <2> QED
    BY <1>3, <1>4, <2>1 DEF Reservers
<1>6. MutexInv'
  BY <1>3 DEF MutexInv
<1>7. PcInv'
  BY <1>3 DEF PcInv
<1>8. CountInv'
  <2>1. Counted(p)' = {}
    BY <1>4 DEF Counted
  <2>2. \A q \in Procs \ {p} : Counted(q)' = Counted(q)
    BY <1>3, <1>4 DEF Counted
  <2>3. /\ cnt'[p] = Cardinality(Counted(p)') /\ nLock'[p] = cnt'[p]
        /\ plock'[p] = NO_LOCK <=> Counted(p)' = {}
    BY <1>3, <2>1, FS_EmptySet
  <2> QED
    BY <1>3, <2>2, <2>3, CountOthers
<1>9. LevelInv'
  BY <1>3, <1>4 DEF LevelInv
<1>10. HasBytes'
  BY <1>3, <1>4 DEF HasBytes
<1>11. ReservedByte'
  BY <1>3, <1>4 DEF ReservedByte
<1>12. NoConflict'
  BY <1>3 DEF NoConflict
<1>13. Locks!DropLocks(mine)
  BY <1>4, <1>5 DEF Locks!DropLocks
<1> QED
  BY <1>2, <1>6, <1>7, <1>8, <1>9, <1>10, <1>11, <1>12, <1>13

-----------------------------------------------------------------------------
\* No connection is open at first.
LEMMA InitInv == Init => Inv /\ Locks!LockInit
<1> SUFFICES ASSUME Init PROVE Inv /\ Locks!LockInit
  OBVIOUS
<1>1. TypeOK
  BY DEF Init, TypeOK, Unlocked
<1>2. /\ \A c \in Conns : /\ pc[c] = "idle" /\ locktype[c] = NO_LOCK /\ Held(c) = NO_LOCK
                          /\ mutex[Proc[c]] # c
      /\ \A p \in Procs : /\ plock[p] = NO_LOCK /\ cnt[p] = 0 /\ nLock[p] = 0
                          /\ \A b \in Bytes : bytes[p][b] = "none"
  BY DEF Init, Held, Unlocked
<1>3. CountInv
  <2>1. \A p \in Procs : Counted(p) = {}
    BY <1>2 DEF Counted
  <2> QED
    BY Zenon, <1>2, <2>1, FS_EmptySet DEF CountInv
<1>4. MutexInv /\ PcInv
  BY <1>2 DEF MutexInv, PcInv
<1>5. LevelInv /\ HasBytes /\ ReservedByte /\ NoConflict
  BY <1>2 DEF LevelInv, HasBytes, ReservedByte, NoConflict
<1>6. Reservers = {}
  BY <1>2 DEF Reservers
<1>7. Locks!LockInit
  BY <1>2, <1>6 DEF Locks!LockInit
<1>8. Exclusive
  BY <1>2, <1>6 DEF Exclusive, Locks!Exclusion, Locks!Reservation
<1> QED
  BY <1>1, <1>3, <1>4, <1>5, <1>7, <1>8 DEF Inv, Impl

\* Every step keeps Inv and is a step of FileLock or changes no level.
LEMMA StepInv ==
    Inv /\ [Next]_vars => Inv' /\ [Locks!LockNext]_Locks!lockVars
<1> SUFFICES ASSUME Inv, [Next]_vars
             PROVE  Inv' /\ [Locks!LockNext]_Locks!lockVars
  OBVIOUS
<1>1. Impl' /\ [Locks!LockNext]_Locks!lockVars
  <2>1. ASSUME NEW c \in Conns, UnixLock(c)
        PROVE  Impl' /\ [Locks!LockNext]_Locks!lockVars
    BY <2>1, JoinStep, SharedPendingStep, SharedRangeStep, SharedDoneStep, ReserveStep,
       ExclusivePendingStep, ExclusiveRangeStep
       DEF UnixLock, Locks!LockNext
  <2>2. ASSUME NEW c \in Conns, UnixUnlock(c)
        PROVE  Impl' /\ [Locks!LockNext]_Locks!lockVars
    <3>1. ASSUME NEW level \in {NO_LOCK, SHARED_LOCK}, Locks!Unlock(c, level)
          PROVE  Locks!LockNext
      BY <3>1 DEF Locks!LockNext
    <3> QED
      BY <2>2, <3>1, UnlockToSharedStep, ReleaseBytesStep, UnlockToNoneStep,
         CountDownStep, UnlockDoneStep
         DEF UnixUnlock
  <2>3. ASSUME NEW c \in Conns, Open(c) \/ Close(c)
        PROVE  Impl' /\ [Locks!LockNext]_Locks!lockVars
    BY <2>3, OpenStep, CloseStep
  <2>4. ASSUME NEW p \in Procs, Exit(p)
        PROVE  Impl' /\ [Locks!LockNext]_Locks!lockVars
    BY Zenon, <2>4, ExitStep DEF Locks!LockNext
  <2>5. CASE UNCHANGED vars
    <3>1. /\ \A d \in Conns : Held(d)' = Held(d)
          /\ Reservers' = Reservers
      BY <2>5 DEF vars, Held, Reservers
    <3>2. \A p \in Procs : Counted(p)' = Counted(p)
      BY <2>5, <3>1 DEF vars, Counted
    <3>3. CountInv'
      BY <2>5, <3>2, CountSame DEF vars, Inv, Impl
    <3>4. TypeOK' /\ MutexInv' /\ PcInv'
      BY <2>5 DEF vars, Inv, Impl, TypeOK, MutexInv, PcInv
    <3>5. LevelInv' /\ HasBytes' /\ ReservedByte' /\ NoConflict'
      BY <2>5, <3>1 DEF vars, Inv, Impl, LevelInv, HasBytes, ReservedByte, NoConflict
    <3> QED
      BY <3>1, <3>3, <3>4, <3>5, Stutter DEF Impl
  <2> QED
    BY <2>1, <2>2, <2>3, <2>4, <2>5 DEF Next
<1>2. Exclusive'
  BY <1>1, LockStep DEF Inv, Impl
<1> QED
  BY <1>1, <1>2 DEF Inv

\* Inv is an invariant.
LEMMA Invariant == Spec => []Inv
<1> QED
  BY InitInv, StepInv, PTL DEF Spec

\* Levels, counters and byte locks keep their types.
THEOREM TypeCorrect == Spec => []TypeOK
<1>1. Inv => TypeOK
  BY DEF Inv, Impl
<1> QED
  BY <1>1, Invariant, PTL

\* The locks that unixLock and unixUnlock make of POSIX locks, a mutex and the
\* counters of a process are those of FileLock, for any number of connections
\* in any number of processes: a connection never gains a level that FileLock
\* refuses, and never loses one it did not give back.
THEOREM Refinement == Spec => FileLockImplemented
<1> QED
  BY InitInv, StepInv, PTL DEF Spec, FileLockImplemented, Locks!LockSpec

\* Whichever connections and processes compete, the writer of the database
\* file is alone and at most one connection has the reservation.
THEOREM WritersAreAlone == Spec => []Exclusive
<1>1. Inv => Exclusive
  BY DEF Inv
<1> QED
  BY <1>1, Invariant, PTL

\* No close of another connection's descriptor takes away the POSIX locks on
\* which a level rests.
THEOREM LocksStayInPlace == Spec => []LocksInPlace
<1>1. Inv => LocksInPlace
  BY DEF Inv, Impl, HasBytes, LocksInPlace
<1> QED
  BY <1>1, Invariant, PTL
=============================================================================
