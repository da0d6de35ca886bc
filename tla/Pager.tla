------------------------------- MODULE Pager --------------------------------
(***************************************************************************)
(* SQLite's pager (src/misc/sqlite/pager.c) over the locks of FileLock: the *)
(* page cache of every connection, the rollback journal, spilling, commit,  *)
(* rollback and the recovery of a hot journal, with processes killed and    *)
(* the power failing between any two file operations.  Journal mode is      *)
(* DELETE and sync mode FULL, as BathyScaphe leaves them, and there is no   *)
(* busy handler.  Page 1 is its change counter, another page the number of  *)
(* the transaction that wrote it last.  Not modelled: statement journals    *)
(* (but see "keepAfterSpill"), master journals, auto-vacuum, I/O errors.    *)
(*                                                                          *)
(* A definition without a comment is a faulty variant of the next one.      *)
(***************************************************************************)
EXTENDS FileLock, Sequences, FiniteSetsExt, TLC

CONSTANTS Uses,         \* who uses the database, and bounds: the connections
                        \* and how many transactions and crashes there are
          LastPage, FirstSize,    \* largest and initial number of pages
          MaxTxns,      \* bound on the transactions of every use
          Reads,        \* sets of pages a statement reads
          Cases,        \* what happens beyond the regular use, see below
          Absent, Garbage         \* no page, and an undefined content

\* "writeAfterBusy": more is written after a COMMIT that returned SQLITE_BUSY;
\* "keepAfterSpill": a spill refused by a reader undoes only a statement that
\*     had a statement journal and had written nothing yet;
\* "powerAfterRestore": the power fails after a rollback that wrote to the
\*     database file, before the next sync of the file;
\* "killedBeforeSync": the power fails while the journal of a killed process is
\*     not on the disk as it was written;
\* "startTogether": a connection looks for a writer while another one of its
\*     process waits for the lock to play a journal back;
\* "killedWhileStale": a process is killed and leaves a journal while the cache
\*     of a connection of another process is older than the last commit;
\* "keepShared": a transaction begins without the lock released since the last.
ASSUME PagerAssumption ==
    /\ FirstSize \in 1 .. LastPage
    /\ Uses \subseteq [conns : SUBSET Conns, txns : 0 .. MaxTxns, crashes : Nat]
    /\ \A ps \in Reads : ps \subseteq 1 .. LastPage
    /\ Cases \subseteq {"writeAfterBusy", "keepAfterSpill", "powerAfterRestore",
                        "startTogether", "killedWhileStale", "keepShared",
                        "killedBeforeSync"}

Pages == 1 .. LastPage
DataPages == Pages \ {1}
Synced == [p \in Pages |-> {}]

VARIABLES db,        \* the database file as processes see it
          stale,     \* what else a page may hold after a power failure
          restored,  \* a journal was deleted after its pages were put back in
                     \* the file, and no sync of the file followed
          jrnl,      \* the journal file: absent, or a size and segments
          jdisk,     \* the journal as far as it is synced
          ghost,     \* a deleted journal that may come back
          pager,     \* the Pager of each connection
          use,       \* the member of Uses
          begun, crashes

files == <<db, stale, restored, jrnl, jdisk, ghost>>
vars == <<held, reserver, files, pager, use, begun, crashes>>

Closed ==
    [pc |-> "none", cache |-> [p \in Pages |-> Absent], dirty |-> {},
     needSync |-> {}, inJournal |-> {}, vers |-> 0, counted |-> FALSE,
     todo |-> <<>>, victim |-> 0, txn |-> 0, wrote |-> {}]

Init ==
    /\ LockInit
    /\ db = [p \in Pages |-> IF p <= FirstSize THEN 0 ELSE Absent]
    /\ stale = Synced
    /\ restored = FALSE
    /\ jrnl = Absent /\ jdisk = Absent /\ ghost = Absent
    /\ pager = [c \in Conns |-> Closed]
    /\ use \in Uses
    /\ begun = 0
    /\ crashes = 0

-----------------------------------------------------------------------------
(* Files                                                                    *)

Size(f) == Max({0} \cup {p \in Pages : f[p] # Absent})
Truncated(f, n) == [p \in Pages |-> IF p > n THEN Absent ELSE f[p]]

\* What a power failure would do is recorded only while a crash may come.
CrashLeft == crashes < use.crashes

\* Until the next sync a page that was written may hold its old content, the
\* new one or a mixture.
WriteFile(p, content) ==
    /\ db' = [db EXCEPT ![p] = content]
    /\ stale' = IF CrashLeft THEN [stale EXCEPT ![p] = @ \cup {db[p], Garbage}]
                ELSE Synced

TruncateFile(n) ==
    /\ db' = Truncated(db, n)
    /\ stale' = [p \in Pages |-> IF p > n /\ db[p] # Absent /\ CrashLeft
                                 THEN stale[p] \cup {db[p]} ELSE stale[p]]

\* A journal is a sequence of segments, each a header and its records.  All
\* but the last are complete: they are kept as the number of their headers and
\* of their records; n is the number in the last header.
NewJournal(n) == [size |-> n, heads |-> 0, full |-> 0, n |-> 0, recs |-> <<>>]
NewSegment(j) == [j EXCEPT !.heads = @ + 1, !.full = Len(j.recs), !.n = 0]

\* readJournalHdr of the first header.
HasHeader(j) == j.heads > 0 \/ j.n # Garbage

\* pager_playback(isHot): the records that headers count, as far as they are
\* there.
Counted(j) ==
    LET n == j.full + IF j.n = Garbage THEN 0 ELSE j.n
    IN  IF n < Len(j.recs) THEN SubSeq(j.recs, 1, n) ELSE j.recs

\* pager_playback in the process that wrote the journal: if the last header
\* counts nothing, its records are counted by the size of the file.
OwnRecords(j) == IF j.n = 0 THEN j.recs ELSE Counted(j)

\* The database after a playback of the journal, which has a page only once.
PlayedBack(f, j) ==
    IF j = Absent THEN f
    ELSE IF ~HasHeader(j) THEN f
    ELSE LET recs == Counted(j)
             Old(p) == CHOOSE i \in DOMAIN recs : recs[i].page = p
         IN  [p \in Pages |->
                 IF p > j.size THEN Absent
                 ELSE IF \E i \in DOMAIN recs : recs[i].page = p
                 THEN recs[Old(p)].content ELSE f[p]]

\* What is committed: a journal that exists undoes its transaction.
Committed == PlayedBack(db, jrnl)

-----------------------------------------------------------------------------
(* Connections                                                              *)

Me(c) == pager[c]
At(c, pcs) == c \in use.conns /\ pager[c].pc \in pcs
Go(c, to) == pager' = [pager EXCEPT ![c].pc = to]
Cached(c, p) == pager[c].cache[p] # Absent

\* pagerAcquire: a page is taken from the cache or else read from the file.
Seen(c, p) == IF Cached(c, p) THEN pager[c].cache[p] ELSE db[p]

\* unixCheckReservedLock: looks at the process first, then at the others.
CheckReserved(c) ==
    \/ \E d \in Others(c) : Proc[d] = Proc[c] /\ held[d] > SHARED_LOCK
    \/ \E d \in reserver : Proc[d] # Proc[c]

\* pager_unlock.
GiveUp(c) ==
    /\ Unlock(c, NO_LOCK)
    /\ pager' = [pager EXCEPT ![c].pc = "none", ![c].counted = FALSE]

\* pagerSharedLock: take the lock ...
SharedLock(c) ==
    /\ At(c, {"none"})
    /\ LockShared(c)
    /\ Go(c, "locked")
    /\ UNCHANGED <<files, use, begun, crashes>>

\* ... look for a journal (hasHotJournal) ...
SeeJournal(c) ==
    /\ At(c, {"locked"})
    /\ Go(c, IF jrnl = Absent THEN "validate" ELSE "seen")
    /\ UNCHANGED <<lockVars, files, use, begun, crashes>>

\* ... that nobody is writing ...
SeeReserved(c) ==
    /\ At(c, {"seen"})
    /\ (\E d \in Others(c) : Proc[d] = Proc[c] /\ At(d, {"hotPending"})) =>
           "startTogether" \in Cases
    /\ Go(c, IF CheckReserved(c) THEN "validate" ELSE "hot")
    /\ UNCHANGED <<lockVars, files, use, begun, crashes>>

\* ... and then lock the database exclusively, without RESERVED_LOCK ...
HotPending(c) ==
    /\ At(c, {"hot"})
    /\ \/ LockPending(c) /\ Go(c, "hotPending")
       \/ /\ {d \in Others(c) : IF Proc[d] = Proc[c] THEN held[d] > SHARED_LOCK
                                 ELSE held[d] >= PENDING_LOCK} # {}
          /\ GiveUp(c)
    /\ UNCHANGED <<files, use, begun, crashes>>

HotExclusive(c) ==
    /\ At(c, {"hotPending"})
    /\ \/ LockExclusive(c) /\ Go(c, "hotOpen")
       \/ /\ \E d \in Others(c) : held[d] # NO_LOCK
          /\ GiveUp(c)
    /\ UNCHANGED <<files, use, begun, crashes>>

\* pager_playback begins by restoring the size of the file and of the cache.
StartPlayback(c, j, recs) ==
    /\ pager' = [pager EXCEPT ![c].pc = "play", ![c].todo = recs,
                              ![c].cache = IF HasHeader(j) THEN Truncated(@, j.size)
                                           ELSE @]
    /\ IF held[c] = EXCLUSIVE_LOCK /\ HasHeader(j)
       THEN TruncateFile(j.size)
       ELSE UNCHANGED <<db, stale>>

\* The journal may have gone meanwhile.
HotOpen(c) ==
    /\ At(c, {"hotOpen"})
    /\ IF jrnl = Absent
       THEN GiveUp(c) /\ UNCHANGED <<db, stale>>
       ELSE StartPlayback(c, jrnl, Counted(jrnl)) /\ UNCHANGED lockVars
    /\ UNCHANGED <<restored, jrnl, jdisk, ghost, use, begun, crashes>>

\* pager_playback_one_page.
PlayRecord(c) ==
    LET r == Head(Me(c).todo)
    IN  /\ At(c, {"play"})
        /\ Me(c).todo # <<>>
        /\ IF held[c] = EXCLUSIVE_LOCK /\ r.page \notin Me(c).needSync
           THEN WriteFile(r.page, r.content)
           ELSE UNCHANGED <<db, stale>>
        /\ pager' = [pager EXCEPT
               ![c].todo = Tail(@),
               ![c].cache[r.page] = IF @ = Absent THEN @ ELSE r.content,
               ![c].vers = IF r.page = 1 /\ Cached(c, 1) THEN r.content ELSE @]
        /\ UNCHANGED <<lockVars, restored, jrnl, jdisk, ghost, use, begun,
                       crashes>>

\* pager_end_transaction: the journal is deleted, which is the commit if the
\* pages are synced, and the end of a rollback if they are restored.
DeleteJournal(c) ==
    /\ At(c, {"play", "synced"})
    /\ Me(c).todo = <<>>
    /\ jrnl' = Absent
    /\ jdisk' = Absent
    /\ ghost' = IF jdisk # Absent /\ CrashLeft THEN jdisk ELSE ghost
    /\ restored' = (restored \/ \E p \in Pages : stale[p] # {})
    /\ pager' = [pager EXCEPT
           ![c].pc = IF Me(c).txn = 0 THEN "recovered" ELSE "ended",
           ![c].dirty = {}, ![c].needSync = {}, ![c].inJournal = {},
           ![c].txn = 0, ![c].wrote = {}]
    /\ UNCHANGED <<lockVars, db, stale, use, begun, crashes>>

\* ... and the lock is lowered.
EndTransaction(c) ==
    /\ At(c, {"recovered", "ended"})
    /\ Unlock(c, SHARED_LOCK)
    /\ Go(c, IF Me(c).pc = "ended" THEN "done" ELSE "validate")
    /\ UNCHANGED <<files, use, begun, crashes>>

KeepsCache(c) == Me(c).cache
\* pagerSharedLock discards the cache if another connection has changed the
\* database since it was filled.
CheckedCache(c) ==
    IF Me(c).vers = db[1] THEN Me(c).cache ELSE Closed.cache

\* pagerSharedLock ends, and page 1 is read (lockBtree).
Validate(c) ==
    /\ At(c, {"validate"})
    /\ LET cache == CheckedCache(c)
       IN  pager' = [pager EXCEPT
               ![c].pc = "read",
               ![c].cache = IF cache[1] = Absent
                            THEN [cache EXCEPT ![1] = db[1]] ELSE cache,
               ![c].vers = IF cache[1] = Absent THEN db[1] ELSE @]
    /\ UNCHANGED <<lockVars, files, use, begun, crashes>>

\* A statement reads pages, which stay in the cache.
ReadPages(c, ps) ==
    /\ At(c, {"read"})
    /\ pager' = [pager EXCEPT ![c].cache =
                    [p \in Pages |-> IF p \in ps THEN Seen(c, p) ELSE @[p]]]
    /\ UNCHANGED <<lockVars, files, use, begun, crashes>>

\* sqlite3PagerUnref of the last page: pagerUnlockAndRollback.
Release(c) ==
    /\ At(c, {"read", "done"})
    /\ GiveUp(c)
    /\ UNCHANGED <<files, use, begun, crashes>>

-----------------------------------------------------------------------------
(* Write transactions                                                       *)

\* sqlite3PagerBegin reserves the database ...
Reserve(c) ==
    /\ At(c, {"read"} \cup IF "keepShared" \in Cases THEN {"done"} ELSE {})
    /\ begun < use.txns
    /\ LockReserved(c)
    /\ pager' = [pager EXCEPT ![c].pc = "open", ![c].txn = begun + 1]
    /\ begun' = begun + 1
    /\ UNCHANGED <<files, use, crashes>>

\* ... and creates the journal.  Where one was left behind this fails, and the
\* transaction ends.
OpenJournal(c) ==
    /\ At(c, {"open"})
    /\ IF jrnl = Absent
       THEN /\ jrnl' = NewJournal(Size(db))
            /\ Go(c, "write")
       ELSE /\ pager' = [pager EXCEPT ![c].pc = "ended", ![c].txn = 0]
            /\ UNCHANGED jrnl
    /\ UNCHANGED <<lockVars, db, stale, restored, jdisk, ghost, use, begun,
                   crashes>>

\* pager_write: the old content goes to the journal, once.  An appended page
\* needs a synced journal too, for the size in its header.
Journalled(c, p) ==
    jrnl' = IF p <= jrnl.size /\ p \notin Me(c).inJournal
            THEN [jrnl EXCEPT !.recs =
                     Append(@, [page |-> p, content |-> Seen(c, p)])]
            ELSE jrnl
NeedsSync(c, p) ==
    IF p \in Me(c).inJournal THEN Me(c).needSync
    ELSE IF p <= jrnl.size \/ jdisk = Absent THEN Me(c).needSync \cup {p}
    ELSE Me(c).needSync

WritePage(c, p) ==
    /\ At(c, {"write"} \cup IF "writeAfterBusy" \in Cases THEN {"busy"} ELSE {})
    /\ Seen(c, p - 1) # Absent
    /\ Journalled(c, p)
    /\ pager' = [pager EXCEPT
           ![c].pc = "write",
           ![c].cache[p] = Me(c).txn,
           ![c].dirty = @ \cup {p},
           ![c].needSync = NeedsSync(c, p),
           ![c].inJournal = @ \cup {p},
           ![c].wrote = @ \cup {p}]
    /\ UNCHANGED <<lockVars, db, stale, restored, jdisk, ghost, use, begun,
                   crashes>>

CountsAgain(c) == Me(c).cache[1] + 1
\* pager_incr_changecounter, once while the lock is held.
NextCounter(c) == IF Me(c).counted THEN Me(c).cache[1] ELSE Me(c).vers + 1

\* sqlite3PagerCommitPhaseOne: nothing to do, or the change counter first.
Commit(c) ==
    /\ At(c, {"write", "busy"})
    /\ IF Me(c).wrote = {}
       THEN Go(c, "synced") /\ UNCHANGED jrnl
       ELSE /\ IF Me(c).counted THEN UNCHANGED jrnl ELSE Journalled(c, 1)
            /\ LET sync == IF Me(c).counted THEN Me(c).needSync
                           ELSE NeedsSync(c, 1)
               IN  pager' = [pager EXCEPT
                       ![c].pc = IF sync = {} THEN "lock" ELSE "sync",
                       ![c].cache[1] = NextCounter(c),
                       ![c].counted = TRUE,
                       ![c].dirty = IF Me(c).counted THEN @ ELSE @ \cup {1},
                       ![c].needSync = sync,
                       ![c].inJournal = IF Me(c).counted THEN @ ELSE @ \cup {1},
                       ![c].victim = 0]
    /\ UNCHANGED <<lockVars, db, stale, restored, jdisk, ghost, use, begun,
                   crashes>>

\* pager_recycle: the page cache is full and page p makes place.  (A page that
\* is not dirty leaves the cache as if it had not been read.)
Recycle(c, p) ==
    /\ At(c, {"write"})
    /\ p \in Me(c).dirty
    /\ pager' = [pager EXCEPT ![c].victim = p,
                    ![c].pc = IF p \in Me(c).needSync THEN "sync" ELSE "lock"]
    /\ UNCHANGED <<lockVars, files, use, begun, crashes>>

\* syncJournal: the records, with the name of the file ...
SyncRecords(c) ==
    /\ At(c, {"sync"})
    /\ jdisk' = jrnl
    /\ ghost' = Absent
    /\ Go(c, "count")
    /\ UNCHANGED <<lockVars, db, stale, restored, jrnl, use, begun, crashes>>

\* ... their number ...
CountRecords(c) ==
    /\ At(c, {"count"})
    /\ jrnl' = [jrnl EXCEPT !.n = Len(jrnl.recs) - jrnl.full]
    /\ Go(c, "syncCount")
    /\ UNCHANGED <<lockVars, db, stale, restored, jdisk, ghost, use, begun,
                   crashes>>

LeavesCount(c) == jdisk
\* All of the journal is on the disk after the second sync.
SyncedJournal(c) == jrnl

\* ... and the number's sync.  A spill then starts a new segment, because a
\* header that is involved in a rollback must not be written to again.
SyncCount(c) ==
    /\ At(c, {"syncCount"})
    /\ jdisk' = SyncedJournal(c)
    /\ jrnl' = IF Me(c).victim = 0 THEN jrnl ELSE NewSegment(jrnl)
    /\ pager' = [pager EXCEPT ![c].pc = "lock", ![c].needSync = {}]
    /\ UNCHANGED <<lockVars, db, stale, restored, ghost, use, begun, crashes>>

\* The lock for writing was refused.  A commit may be tried again; a page that
\* was to make place has lost its dirty flag, and all is rolled back.
Refused(c) ==
    pager' = [pager EXCEPT
        ![c].pc = IF Me(c).victim = 0 THEN "busy"
                  ELSE IF "keepAfterSpill" \in Cases THEN "write" ELSE "fail",
        ![c].dirty = @ \ {Me(c).victim},
        ![c].victim = 0]

\* pager_write_pagelist: EXCLUSIVE_LOCK, through PENDING_LOCK, which a refusal
\* leaves in place.
WaitForLock(c) ==
    /\ At(c, {"lock"})
    /\ \/ /\ held[c] >= PENDING_LOCK
          /\ Go(c, "exclusive")
          /\ UNCHANGED lockVars
       \/ LockPending(c) /\ Go(c, "exclusive")
       \/ /\ held[c] < PENDING_LOCK
          /\ \E d \in Others(c) : held[d] >= PENDING_LOCK
          /\ Refused(c)
          /\ UNCHANGED lockVars
    /\ UNCHANGED <<files, use, begun, crashes>>

\* The pages to write, in the order of their numbers.
WriteList(c) ==
    LET ps == IF Me(c).victim = 0 THEN Me(c).dirty ELSE {Me(c).victim}
    IN  [i \in 1 .. Cardinality(ps) |->
            LET p == CHOOSE q \in ps : Cardinality({r \in ps : r <= q}) = i
            IN  [page |-> p, content |-> Me(c).cache[p]]]

LockForWriting(c) ==
    /\ At(c, {"exclusive"})
    /\ \/ /\ IF held[c] = EXCLUSIVE_LOCK THEN UNCHANGED lockVars
                                         ELSE LockExclusive(c)
          /\ pager' = [pager EXCEPT
                 ![c].pc = "store",
                 ![c].todo = WriteList(c),
                 ![c].dirty = IF Me(c).victim = 0 THEN {} ELSE @ \ {Me(c).victim}]
       \/ /\ \E d \in Others(c) : held[d] # NO_LOCK
          /\ Refused(c)
          /\ UNCHANGED lockVars
    /\ UNCHANGED <<files, use, begun, crashes>>

\* One page is written to the database file.
StorePage(c) ==
    LET r == Head(Me(c).todo)
    IN  /\ At(c, {"store"})
        /\ Me(c).todo # <<>>
        /\ WriteFile(r.page, r.content)
        /\ pager' = [pager EXCEPT ![c].todo = Tail(@),
                                  ![c].vers = IF r.page = 1 THEN r.content ELSE @]
        /\ UNCHANGED <<lockVars, restored, jrnl, jdisk, ghost, use, begun,
                       crashes>>

\* The spilled page leaves the cache.
Spilled(c) ==
    /\ At(c, {"store"})
    /\ Me(c).todo = <<>> /\ Me(c).victim # 0
    /\ pager' = [pager EXCEPT ![c].pc = "write", ![c].victim = 0,
                              ![c].cache[Me(c).victim] = Absent]
    /\ UNCHANGED <<lockVars, files, use, begun, crashes>>

\* The commit syncs the database file; only then may the journal go.
SyncFile(c) ==
    /\ At(c, {"store"})
    /\ Me(c).todo = <<>> /\ Me(c).victim = 0
    /\ stale' = Synced
    /\ restored' = FALSE
    /\ Go(c, "synced")
    /\ UNCHANGED <<lockVars, db, jrnl, jdisk, ghost, use, begun, crashes>>

\* sqlite3PagerRollback.
Rollback(c) ==
    /\ At(c, {"write", "busy", "fail"})
    /\ IF Me(c).wrote = {}
       THEN Go(c, "play") /\ UNCHANGED <<db, stale>>
       ELSE StartPlayback(c, jrnl, OwnRecords(jrnl))
    /\ UNCHANGED <<lockVars, restored, jrnl, jdisk, ghost, use, begun, crashes>>

-----------------------------------------------------------------------------
(* Failures                                                                 *)

\* A journal stays behind, and a cache that is older than the last commit.
LeavesStale(cs) ==
    /\ jrnl # Absent
    /\ \E c \in Conns \ cs : Cached(c, 1) /\ Me(c).vers # Committed[1]

\* A process is killed: the files stay as they are, its locks are dropped.  One
\* that only reads leaves nothing behind.
Kill(p) ==
    LET cs == {c \in Conns : Proc[c] = p}
    IN  /\ CrashLeft
        /\ \E c \in cs : held[c] > SHARED_LOCK
        /\ LeavesStale(cs) => "killedWhileStale" \in Cases
        /\ DropLocks(cs)
        /\ pager' = [c \in Conns |-> IF c \in cs THEN Closed ELSE pager[c]]
        /\ crashes' = crashes + 1
        /\ IF crashes' < use.crashes
           THEN UNCHANGED <<stale, restored, ghost>>
           ELSE stale' = Synced /\ restored' = FALSE /\ ghost' = Absent
        /\ UNCHANGED <<db, jrnl, jdisk, use, begun>>

\* Of the records written since the last sync the first with a wrong checksum
\* is as good as the end of the journal (pager_playback_one_page); a header
\* that was being written may be unreadable.
TornJournals ==
    LET synced == IF jdisk = Absent THEN 0 ELSE Len(jdisk.recs)
        oldN == IF jdisk = Absent \/ jdisk.heads < jrnl.heads THEN Garbage
                ELSE jdisk.n
    IN  {[jrnl EXCEPT !.n = n, !.recs = SubSeq(@, 1, k)] :
            n \in IF oldN = jrnl.n THEN {oldN} ELSE {oldN, jrnl.n, Garbage},
            k \in synced .. Len(jrnl.recs)}

\* The directory is synced with the journal: before that its name may be
\* missing, or the journal deleted last be found under it.
JournalsOnDisk ==
    CASE jrnl = Absent -> {Absent, ghost}
      [] jrnl # Absent /\ jdisk = Absent -> {Absent, ghost} \cup TornJournals
      [] OTHER -> TornJournals

\* Nobody writes and all is on the disk: a power failure only ends processes.
Quiet ==
    /\ jrnl = Absent /\ ghost = Absent /\ ~restored
    /\ \A c \in use.conns : held[c] <= SHARED_LOCK

\* A journal that is not synced and no longer being written.
LeftUnsynced == jrnl \notin {Absent, jdisk} /\ \A c \in Conns : Me(c).txn = 0

\* The power fails: of what was not synced, anything may be on the disk.
PowerFailure ==
    /\ CrashLeft
    /\ restored => "powerAfterRestore" \in Cases
    /\ LeftUnsynced => "killedBeforeSync" \in Cases
    /\ ~Quiet
    /\ db' \in {f \in [Pages -> UNION {{db[p]} \cup stale[p] : p \in Pages}] :
                   \A p \in Pages : f[p] \in {db[p]} \cup stale[p]}
    /\ stale' = Synced
    /\ restored' = FALSE
    /\ jrnl' \in JournalsOnDisk
    /\ jdisk' = jrnl'
    /\ ghost' = Absent
    /\ DropLocks(Conns)
    /\ pager' = [c \in Conns |-> Closed]
    /\ crashes' = crashes + 1
    /\ UNCHANGED <<use, begun>>

Reading(c) ==
    \/ SharedLock(c) \/ SeeJournal(c) \/ SeeReserved(c) \/ Validate(c)
    \/ \E ps \in Reads : ReadPages(c, ps)
    \/ Release(c)
Recovering(c) ==
    \/ HotPending(c) \/ HotExclusive(c) \/ HotOpen(c)
    \/ PlayRecord(c) \/ DeleteJournal(c) \/ EndTransaction(c)
Writing(c) ==
    \/ Reserve(c) \/ OpenJournal(c)
    \/ \E p \in DataPages : WritePage(c, p) \/ Recycle(c, p)
    \/ Commit(c) \/ SyncRecords(c) \/ CountRecords(c) \/ SyncCount(c)
    \/ WaitForLock(c) \/ LockForWriting(c)
    \/ StorePage(c) \/ Spilled(c) \/ SyncFile(c)
    \/ Rollback(c)

Next ==
    \/ \E c \in Conns : Reading(c) \/ Recovering(c) \/ Writing(c)
    \/ \E p \in Procs : Kill(p)
    \/ PowerFailure

Spec == Init /\ [][Next]_vars

-----------------------------------------------------------------------------
Data(f) == [p \in DataPages |-> f[p]]

Store == INSTANCE AtomicStore WITH
    Clients <- Conns, Pages <- DataPages, Contents <- 1 .. MaxTxns,
    Initial <- Data([p \in Pages |-> IF p <= FirstSize THEN 0 ELSE Absent]),
    Nothing <- Absent,
    value <- Data(Committed),
    undo <- IF ghost = Absent THEN {} ELSE {Data(PlayedBack(db, ghost))},
    work <- [c \in Conns |-> IF pager[c].txn = 0 THEN Absent
                             ELSE [p \in pager[c].wrote |-> pager[c].txn]]

TypeOK ==
    /\ LockTypeOK
    /\ \A p \in Pages : db[p] \in {Absent, Garbage} \cup 0 .. MaxTxns
    /\ \A c \in Conns : LET g == pager[c] IN
           /\ g.dirty \cup g.needSync \cup g.inJournal \cup g.wrote \subseteq Pages
           /\ g.needSync \subseteq g.inJournal
           /\ g.txn \in 0 .. begun

\* Commit and rollback are atomic: when a process is killed or loses power
\* between two writes, spills, syncs or steps of a recovery, other than in the
\* situations that Cases names, the database with its journal is the image
\* before the transaction or all it has written, and a commit is lost only by a
\* power failure right after it.
AtomicCommit == Store!StoreSpec

\* A reader sees the committed database, never pages of an open, failed or
\* rolled back transaction and never a cache that another connection's commit
\* has made old; a writer sees that with its own changes.  The situations that
\* Cases names are excepted.
SeesCommitted ==
    LET image == Committed IN
    \A c \in Conns :
        /\ pager[c].pc \in {"read", "done"} =>
               \A p \in Pages : Seen(c, p) = image[p]
        /\ pager[c].pc = "write" =>
               \A p \in DataPages :
                   Seen(c, p) = IF p \in pager[c].wrote THEN pager[c].txn
                                ELSE image[p]
=============================================================================
