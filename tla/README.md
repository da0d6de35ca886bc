# BathyScaphe in TLA+

A TLA+ model of the concurrent core of BathyScaphe, the 2channel browser, in two
halves. Above: the worker thread, the text of a thread and its message ranges,
the viewer with its downloads and log files, and the task manager. Below: the
database of boards and threads, from the procedures of the application down to
the locks and the rollback journal of the SQLite that is bundled with it
(`src/misc/sqlite`). Small instances are checked with TLC; all safety properties
of the worker, the viewer, the task manager, the file locks and the database
that hold are also proved with TLAPS for all values of the constants. `PROJECT.json` lists components,
runs, mutants, source lines, findings, hazards and theorems. Paths below are
relative to `src/application/source/` or, for `.c` and `sqlite3.h`, to
`src/misc/sqlite/`.

## The system

| part | state | operations | interacts with |
|---|---|---|---|
| worker context (`messaging/CMXWorkerContext.m`) | queue, condition lock, working lock, current work | push, removeAll, shutdown, isInProgress, the loop | every layout has one |
| layout (`thread/CMRThreadLayout*.m`, `CMRThreadComposingTask.m`) | text storage, ranges, message buffer | compose, clear, header, update a message, expand an ellipsis | worker and main thread |
| viewer (`thread/CMRThreadViewer*.m`) | thread shown, validity, edited flag | open, reload, compose arrivals, synchronize | layout, downloaders, log files |
| downloaders (`network/`) | request, the log as read at the request | request, receive, extend the log | viewer, net lock, task manager |
| net lock (`network/CMRNetGrobalLock.m`) | set of threads and URLs | add, remove, has | viewer, downloaders |
| task manager (`task/`) | rows, mapping, current task | add, start, finish | downloaders, composing tasks |
| database (`manager/SQLiteDB.m`, `DatabaseManager*.m`) | a connection and a transaction flag per thread | begin, change, query, commit, rollback, retry | SQLite; lists, favourites, HEAD check |
| SQLite pager (`pager.c`) | page cache, journal, database file | read, write, spill, commit, roll back, recover | file locks |
| SQLite file locks (`os_unix.c`) | lock levels per connection and per inode | open, lock, unlock, close | `fcntl()` |

The upper half runs on two threads. The worker thread runs one work after the
other; the main thread handles the user, the network and the messages the worker
sends with `performSelectorOnMainThread:`, in the order they were sent, some of
which the worker waits for. The hard behaviours are the interleavings of the
two, values read on one side and used after the other has changed them, tasks
cancelled half way, and one buffer, one lock or one key shared by two owners.

In the lower half each thread has a connection of its own to one file. The hard
behaviours are locks that POSIX gives to the process and not to the connection,
a lock refused in the middle of a transaction, a statement that is given up
after its retries, a rollback by SQLite that the application does not see, and a
process killed or a loss of power between two file operations.

## Modules

- `WorkerContext`: `CMXWorkerContext` at the granularity of its lock
  operations. Each method is a sequence of actions of the calling thread
  (`PushBegin`, `PushLock`, `PushPut`; `RemoveBegin` ...), `-start:` a sequence
  of the worker's.
- `SerialExecutor`: what a context promises, without locks.
- `MessageRanges`: the algorithms on text and ranges (update a message, slide,
  insert and remove ellipses) as operators on a page.
- `ThreadLayout`: the tasks on the worker, the run loop as an explicit FIFO
  queue, and the user's edits. A character is the number of its message, so
  that a property can say which message a range covers.
- `ThreadViewer`: viewer, downloads, net lock and log files of several threads
  over one buffer. A message is its thread, its number and one flag; text is
  left to `ThreadLayout`. A load takes three steps: the worker reads the file
  (`ReadFile`), the main thread writes its attributes into those of the viewer
  (`DidLoadFile`), the worker adds the messages (`AddMessages`). A task goes on only when the run loop is empty,
  because `executeWithLayout:` waits for `addTask:`
  (`CMRThreadLayoutTask.m:83`); the answer to a request comes after messages
  that were queued before the request.
- `TaskManager`: registration, notifications and removal of tasks.
- `UnixLocks`: `unixOpen`, `unixLock`, `unixUnlock` and `unixClose`, one action
  per call of `fcntl()`, with the structures that connections of one process
  share and the descriptors whose closing is deferred.
- `FileLock`: what the locks promise: levels per connection, each call one step.
  `UnixLocks` implements it; `Pager` and `SQLiteDB` are built on it.
- `Pager`: the cache, the journal and the file, one action per file operation,
  with kills and losses of power between any two. A page holds the number of the
  transaction that wrote it; page 1 is the change counter.
- `AtomicStore`: what the pager promises: contents that change by whole
  transactions. `Pager` implements it.
- `SQLiteDB`: threads that run procedures, statement by statement: how a
  statement takes its locks, is refused, retried and given up, what SQLite rolls
  back by itself, and what `beginTransaction`, its flag and the callers make of
  it. Five procedures stand for the ways statements are combined.
- `WorkerContextProofs`, `ThreadViewerProofs`, `ThreadViewerCalm`,
  `TaskManagerProofs`, `UnixLocksInvariant`, `UnixLocksProofs`,
  `SQLiteDBProofs`: theorems (one more is in `FileLock`).
- `MC*`: instances for TLC.

In modules that say so, a definition without a comment is a faulty variant of
the next commented one; the mutants use it.

## Runs

| run | result | shows |
|---|---|---|
| `worker` | holds | no lost wake-up, `removeAll:` reaches the work in hand, `isInProgress` never denies a running work, `SerialExecutor` is implemented; calls return, pushed works are served, shutdown of a running context ends it |
| `layout_edits` | holds | ranges and text agree after edits at rest, and each hidden run has its ellipsis between the text before and behind it |
| `layout_tasks` | holds | loads interrupt loads and arrivals, and the user may cancel: without a cancel, or on a page loaded again after it, ranges match the text; a load cut short leaves an incomplete page only if it is marked invalid; always, the header is in its place and worker and main thread do not block each other |
| `viewer_log` | holds | with reloads, flags and a cancel at any time, logs keep to their thread; saved flags stay as long as the user waits or cancels nothing; as long as the user waits, complete logs, right numbers, noted edits and, without a cancel, no lock left behind |
| `viewer_switch` | holds | whenever the user opens, reloads or cancels, the chain of loads and downloads ends, and unless a log has got messages of another thread the messages shown then are of the thread the window names |
| `viewer_delegation`, `viewer_lock` | violated | see findings |
| `tasks_any` | holds | one load per URL, the current task is live, no notification of a composing task is lost |
| `tasks_rows` | violated | see findings |
| `locks` | holds | the writer is alone, closing one connection drops no lock of another, `FileLock` is implemented |
| `pager` | holds | the file changes by whole transactions through spills, refused locks, kills and losses of power, and readers see only what is committed; seven situations excepted, see below |
| `database` | holds | every procedure ends, a checked transaction is whole and its answer true, and a thread at rest has nothing open unless a COMMIT was given up or a task raised |

**How far the viewer's results go.** `Impatient` says what the user does while
something is pending; `Calm` says that the user has so far waited before opening
and reloading, `NoCancel` that nothing was cancelled. Without `Calm`, reloads at
any time make `LogComplete`, `BufferNumbered`, `EditsNoted`, `ShowsWholeLog` and
`LocksReleased` fail; with threads opened at any time `MarkKept`,
`ExpectedDelegation` and `LogKeepsThread` fail. A log with messages of another
thread is shown as it is when it is loaded again, so `ShowsCurrentThread` is
stated under the condition that every log has kept to its thread. It says that
window and messages agree, not that the window names the thread opened last: see
the stale load under "Other instances". One cancel is enough for `LocksReleased` to fail, and a cancel
together with a reload at the wrong moment for `MarkKept`. The loss of messages has one cause worth knowing: `composeDATContents:` sets
`messagesEdited` when it pushes the task (`CMRThreadViewer.m:316`). Leaving the
thread before the worker has added the messages makes `synchronize` write the old
buffer over the new contents, while the stored length stays, so they are not
fetched again. We found no document of the repository that speaks of these
cases, so they are hazards and not findings.

**How far the worker's results go.** `isInProgress` is shown not to deny a work
inside its `-run`; a work that `nextWork` has taken off the queue and that has
not begun is missed. `ShutdownOfRunningEnds` is about a context whose thread has
begun, and excepts another thread inside `removeAll:`, which may take off the
dummy task that `shutdown:` pushed to wake the worker.

**How far the layout's results go.** `layout_edits` leaves out what "Other
instances" is about: undoing an invisible abone, abone that leaves nothing
visible between two hidden runs (`Separated`), and edits while a task is
pending. `IncompleteIsInvalidated` lets the user cancel and speaks of pages on
which nothing has arrived since they were loaded: a cancelled task of arrivals
carries no path and so invalidates nothing (`CMRThreadViewer.m:400`), and the end
of any composing task makes the page valid again (`CMRThreadViewer.m:357`).
`RangesMatchText` excepts such pages, once something was cancelled. When two
hidden runs have only aboned messages between them, `EllipsisForHidden` allows
their attachments side by side.

**How far the database's results go.** `SQLiteDB` stands on the locks of
`FileLock`, which `UnixLocks` is proved to implement, and takes the storage
under it as atomic. `Pager` shows that only with its seven `Cases` excepted, and
two of them can be met by the application: `keepAfterSpill`, in a large
transaction, and `writeAfterBusy`, on a connection whose COMMIT was given up. So
`AllOrNothing` is about what the procedures and the transaction logic do, not
about the contents of pages after these two.
A COMMIT that is given up after its retries has consequences the properties
except by `marred`: the caller returns YES and the flag is clear, but the
transaction stays open with its PENDING lock; a later `beginTransaction` on the
connection returns NO, what it writes is never committed, and no other thread can
start to read until that thread ends. `updateDB:` leaves its transaction open in
the same way when its task is cancelled, by the exception from
`BSBoardListItemHEADCheckTask.m:407`. `updateDB:` and `resetNewStatus` do not ask
whether a statement failed and may commit a part; `AllOrNothing` is therefore
stated for `appendFavoriteThreadIdentifier:`.

**Bounds.** Two threads are needed for a switch and a return. In `viewer_lock`
three messages on the server let a load and two arrivals overlap: with two,
`DownloaderWaits` seems to hold and with three it does not. `viewer_log` has two
messages and five switches: a flag is saved by leaving the thread and lost by
returning to it and leaving it again, which takes four. Layout pages have up to four messages
in batches of two: two hidden runs with a visible message between them, and a
batch boundary inside the thread. The visible range shows up to one message
(`MaxVisible`; two in `layout_tasks`) at each end, and two around the one read
last. Three downloaders and two composing tasks let
one be refused, one run and one follow. Two works and three calls let a push, a
`removeAll:` and a `shutdown:` of two threads meet. Locks need two connections
of one process, which share a lock structure, and one of another process. The
pager has two connections, of one process or of two, three pages of which the
file has two at first, so that it grows and shrinks back, and either two
transactions and one crash, so that a second transaction meets what the first
and the crash left, or one transaction and two crashes, so that the recovery
from the first is itself interrupted. Three connections, of which two of one
process meet a journal that another process has left, are too many for a regular
run; they are among the larger instances below. Database statements are retried once
instead of 1000 times; three procedures let two transactions meet and a third
find what they left.

Larger instances that were found to hold once: the worker with three works;
`layout_edits` with two messages visible at each end (2.9 million states), with
two loads and one edit (6.8 million), with five messages and one edit (3.2
million) and with three messages and three edits; the safety properties of
`layout_tasks` with four messages and with three loads; `viewer_log` with three
messages and three switches (3.3 million states); `viewer_switch` with five
switches (3.8 million states) and with one thread and a flagged message; the database with both
threads running all five procedures (2.2 million states); the pager with two
transactions and two crashes (3.3 million states), with three connections, two
transactions and one crash (9 million) and with three connections, one
transaction and two crashes (1 million).

**Fairness.** Weak for the worker's steps and for the run loop (`DidLoadFile`,
`DidFinish`, `Handle`), which the operating system schedules, for the end of a request, which has a timeout, and for the
statements of a database thread: a thread keeps running while it has a statement
to finish, and it never waits for a lock but retries and gives up. The end of a
work is strongly fair in `WorkerContext`: it is disabled while the work itself is
in `push:`, which it does finitely often. Users need not do anything, no lock is
assumed to be granted and no task to be cancelled. Deadlock is not checked in
`worker`, as an idle context waits for ever, and in `database`, as threads have
nothing to do once the bound on procedures is reached.

## Proofs

Assumed are only the named assumptions on constants (distinct names, bounds in
`Nat`, a process for each connection, finitely many connections in `UnixLocks`).

`WorkerContextProofs`. The properties are not inductive. `Inv` adds who holds
each lock at which program counter (`LockInv`, `WorkingInv`), that the condition
and the queue disagree only inside `removeAll:` with the queue drained
(`QueueInv`), that `push:` has a work (`ArgInv`) and that the published work is
the local one (`WorkInv`). From it follow `TypeCorrect`, `NoLostWakeup`,
`CancelReachesWork`, `IdleAnswer` and `Refinement`: each step is a step of
`SerialExecutor` or leaves its variables unchanged.

`ThreadViewerProofs`. That the messages shown are of the thread named rests on
the order of tasks: the identifier changes at once, and back again when a load
that was under way is merged (`DidLoadFile`), the buffer only when the worker
gets to it. So the tasks in the queue need not be of the thread named, and
`ViewerInv` says what is true instead. The buffer holds messages of the thread
named, or a clear task will empty it before any task behind it runs
(`BufferInv`). `TasksInv` says that tasks bring messages of their own thread only
(`OwnInv`); that a load follows its clear task directly, and so finds the buffer
empty whatever the window names (`QueueInv`); and that a load with no clear task
behind it has an empty buffer until it is merged and is of the thread named from
then on (`LoadInv`). Arrivals of another thread fail the assertion.
`KindInv` says that only loads and arrivals add messages.
`ViewerShowsItsThread` follows without any condition on the user.
`LogsKeepToThreads` adds that the log a downloader remembers, and later extends,
keeps to its thread (`CopiesKeepThread`).

`ThreadViewerCalm`. For a user who waits, the request, the messages in the run
loop and the tasks are one chain. The invariant `CalmInv` says which links there
are (`Links`: at rest, to clear, to load, to request, requested, to compose,
added, told), how buffer and log are related at each, and that every log is
complete and the buffer numbered throughout (`Core`). `LogsAreComplete`, `NumbersAreTheServers`,
`EditsAreNoted`, `WholeLogIsShown` and `LocksAreReleased` follow.
`FlagsStaySaved` also covers users who reload while something is pending and
cancel nothing. There may then be several links, and `FlagsInv` says less of
each: a download that runs remembers the log as it still is, the load of the log
comes before all arrivals and finds the buffer empty, and once it has run every
flag of the log is in the buffer that `synchronize` writes.

`TaskManagerProofs`. `OneLoadPerURL` needs that a running downloader holds its
URL, `CurrentIsLive` that a start in the run loop is of a task whose finish has
not been handled; `StartsAreLive` states both. `LoadsAreExclusive` and
`CurrentTaskIsLive` follow. `NotificationsArrive` needs that nothing of a task
follows its finish in the run loop (`FinishIsLast`).

`UnixLocks*`. That the writer is alone is not inductive, because the levels the
code keeps in memory and the byte locks the kernel keeps for a process change in
different steps. `UnixLocksInvariant` states what relates them: at most one
connection of a process is inside a call (`MutexInv`), what each program counter
implies (`PcInv`), that the counts of a shared lock structure count the
connections that have a lock (`CountInv`), that its level is the highest of
theirs and only one of them is above SHARED (`LevelInv`), that the process has
the byte locks its connections need and keeps the reserved byte no longer
(`HasBytes`, `ReservedByte`), and that no two processes have conflicting bytes
(`NoConflict`). The same module shows that opening and locking preserve it.
`UnixLocksProofs` shows that unlocking, closing and the end of a process do, and
concludes `WritersAreAlone`, `LocksStayInPlace` and
`Refinement`: every step is a step of `FileLock` or a stutter. `LocksExclude` is
the same exclusion for `FileLock` itself.

`SQLiteDBProofs`. `RestsClean` speaks of threads between procedures, so its
invariant must say what holds at every statement: which statements are left
(`Shape`), which lock goes with which state of the transaction and where changes
may be pending (`Locked`), and that outside of BEGIN and COMMIT the flag of
`beginTransaction` is clear and SQLite is in autocommit mode (`Flagged`).
`ThreadsRestClean` follows. `AppendIsAtomic` adds `AppendInv`: a transaction has
only one of the two changes when the second statement is still to run or a
rollback is to follow, and what is stored is always whole. `AnswersAreTrue` adds
`ResultInv`: a change that waits in a transaction or is stored belongs to the
procedure that runs, whose answer is still open, or to one that has answered YES
(`Owned`, `Told`), and no two threads run the same call (`Apart`). So a NO is
only given when no change of the procedure is left anywhere, and a YES when all
are stored. All three hold for any number of threads, procedures and retries.

Only model-checked: all liveness properties (`CallsReturn`, `PushedWorkIsServed`,
`ShutdownOfRunningEnds`, `ComesToRest`, `RestsAgain`, `ProceduresEnd`), which the
prover does not handle; the layout, whose properties compare the text with what
composing a thread from the start gives, by definitions that recurse over the
messages; and `SeesCommitted` and `AtomicCommit` of the pager, whose invariant
would have to relate cache, journal, file and disk at each of the file
operations between two crashes.

## Findings

Where the code departs from its own comments or assertions:

1. `viewer_delegation`: the assertion on the worker thread can fail when another
   thread is opened (`CMRThreadViewer.m:240`).
2. `viewer_lock`: the end of a file load removes the lock of arrivals that still
   wait (`CMRThreadViewer.m:382`).
3. `tasks_rows`: tasks of one identifier overwrite each other's row
   (`CMRTaskManager-Management.m:153`).

## Other instances

The passing runs restrict the user, the order of calls or the moment of a crash
where the code does not promise more. Lifting a restriction gives a
counterexample each time:

| change | fails | what happens |
|---|---|---|
| `worker` with `ShutdownEndsThread` | that property | `shutdown:` before the detached thread has begun returns early, and the thread sleeps for ever (`CMXWorkerContext.m:271`); or another thread's `removeAll:` takes off the dummy task |
| `layout_edits` with `UndoSpec` | `RangesMatchText` | undoing an invisible abone slides the ranges from `location +1`, which misses the next message (`CMRThreadLayout.m:280`) |
| `layout_edits` with `"merge"` in `UserOps` | `NoRangeException` | two ellipses with only aboned messages between them are removed as one run, and the ranges in between point beyond the text (`CMRThreadLayout.m:499`) |
| `layout_edits` with `EditsWhileComposing` | `RangesMatchText`, `NoRangeException` | an edit meets a range whose text is not appended yet, and raises with `_messagesLock` held; an edit of a displayed message makes `textLength_` stale (`CMRThreadComposingTask.m:265`) |
| `viewer_switch` with five switches and no condition on the logs | `ShowsCurrentThread` | a thread is opened, reloaded and left while its clear task still waits; the arrival has set `messagesEdited`, so `synchronize` writes the buffer, still of the thread before, to its log; returning to it later loads and shows that (`LogKeepsThread` fails as soon as it is left) |
| `viewer_switch` with a history of the thread opened last | that the window names it at rest | thread a is being loaded, its attributes on their way to the main thread, when the user opens b; `threadFileLoadingTaskDidLoadFile:` writes them into the attributes of the viewer (`CMRThreadViewer.m:331`), so that it names a again; the clear task empties it, and the task that was to download b, which had no log, calls `reloadThread` for a |
| `viewer_log` without the condition on cancels | `MarkKept` | a load is cancelled while arrivals wait behind it; they are composed into the empty buffer, the end of that task makes the buffer valid again, and `synchronize` writes it over the log with its flags |
| `pager` with `"writeAfterBusy"` | `SeesCommitted`, `AtomicCommit` | a COMMIT refused after `syncJournal` has written the number of records leaves it in the header; records of later writes are beyond it, and a ROLLBACK does not play them back. The comment on `sqlite3PagerRollback` says "All in-memory cache pages revert to their original data contents." (`pager.c:4819`) |
| `pager` with `"keepAfterSpill"` | both | `pager_recycle` clears the dirty flag of the page it could not write; when only the statement is rolled back, a later COMMIT leaves that page out. `sqlite3.h:1133` describes the cache left "in an inconsistent state" and the error code that forces a rollback of all |
| `pager` with `"powerAfterRestore"` | `AtomicCommit` | a playback deletes the journal without a sync of the file it has restored, and the power fails |
| `pager` with `"killedBeforeSync"` | `AtomicCommit` | a process is killed between writing the number of records and syncing it; the next connection plays the journal back from the system's cache without syncing it first (`pager.c:3519`), and the power fails: the journal on the disk restores nothing, and pages are torn |
| `pager` with `"startTogether"` | both | two connections of one process start over a hot journal: the one that has the PENDING lock to play it back is a writer to `unixCheckReservedLock` of the other, which goes on to read the file as it is. In BathyScaphe, which alone uses the file, the main thread reads the database (`setupDatabase`) before other threads start |
| `pager` with `"killedWhileStale"` | `SeesCommitted` | a connection with old pages in its cache plays back the journal of a killed process; the playback of page 1 updates the version it remembers, and the check at `pager.c:3530` takes the old pages for current. It takes two processes |
| `pager` with `"keepShared"` | `SeesCommitted` | a transaction that begins on a lock kept since the last one does not check the change counter; the rules of `vdbe.c` and `vdbeaux.c` prevent it |

## Not modelled

In the modelled parts:

- viewer: closing the window, moving a log to the trash, the theme change,
  several selected threads and the alert sheets of the downloads; the download
  of a redirected thread is a failure;
- layout: the look-up of messages by scroll position, which changes no state;
  the header task's test for an interruption is made on the main thread
  (`CMRThreadUpdatedHeaderTask.m:24`) and is modelled where the task sends its
  message: a load that cancels the task between the two brings a clear task,
  which removes the header that the model then still lays (the user does not
  cancel so short a task in the model);
- task manager: composing tasks start one at a time, but `StartComposing` and
  `AddTask` may overtake messages queued before them: more orders than the code
  has;
- database: the procedures with nested transactions (`moveBoardID:`,
  `renameBoardID:`, `ConcreteBoardListItem.m:219`), the caches of
  `DatabaseManager`, creating and updating tables, `VACUUM`, and the retry after
  `SQLITE_SCHEMA` (`SQLiteDB.m:317`), which needs a change of the schema;
- SQLite: other locking styles than the Unix byte locks, statement and master
  journals, auto-vacuum, I/O errors, and the contents of the pages (B-trees);
  `sqlite3PagerDontWrite` and `sqlite3PagerDontRollback`, with which the B-tree
  says that the contents of a free page do not matter; a database file without
  any page, whose journal `hasHotJournal` deletes (`FirstSize` is at least 1);
  and the branch of `pager_truncate` that extends the file (`pager.c:1742`),
  which a playback does not reach, as only transactions make the file longer.

Parts without a module: the downloaders for threads that have left the server
and the reply messenger, which are driven by alert sheets and answers of a
server; the thread list, whose transactions alone are in `SQLiteDB`; cookies,
history, boards and the spam filter, which are rules over dictionaries on the
main thread; parsing and composing messages, which is text conversion; and the
user interface.

The definitions stand for about 4,800 lines of the sources, about 2,600 of them
C (SQLite) and the others Objective-C. Most of the repository is user interface,
text conversion and bundled libraries, and is not covered.
