# A TLA+ model of PkgXtractor

PkgXtractor unpacks PS4 packages. Two programs share one core: a command line
program (`src/tools/pkgxtractor/main.cpp`) and a Qt front end
(`src/tools/pkgxtractor/gui.cpp`). The core, `src/src/core/file_format/pkg.cpp`,
reads the package's table, decrypts and searches the PFS image, walks its
metadata and writes the files one by one. Much of the rest of the tree comes
from the emulator the core was taken from: logging, locks, queues, containers,
configuration, PlayGo, ELF loading.

All paths below start at the root of the repository's tree, `src/`.

## 1. The system

### Components, their state and what makes them correct

| component | state | operations | hard because | correct when |
|---|---|---|---|---|
| extraction worker, `gui.cpp:503-898` | locals of `extract()`, progress file, output folder | one long function on its own thread | nine ways out, two modes, exceptions from anywhere, crash between any two file operations | every entry is accounted for as far as the code can tell, the progress file says nothing that is not so, an end is always announced |
| window session, `gui.cpp:900-1593` | buttons, progress bar, the QThread, queued signals | `startWorker`, slots, quit | signals are delivered later than they are sent, the window may go while the worker runs | buttons come back once and only when all is quiet; the bar never loses a signal |
| crash marker, `gui.cpp:942-985` | one file | start, quit, crash | restart; failures nobody looks at; several copies of the program | a warning is given exactly after a run that died with its window up |
| bounded queue, `common/bounded_threadsafe_queue.h` | ring buffer, two indices, four mutexes, two condition variables | `TryEmplace`, `EmplaceWait`, `TryPop`, `PopWait` with and without a stop token | two sides with no mutex in common, wrapping indices, lost wakeups, stop requests | a bounded first-in first-out queue; sleepers wake |
| PFSC search, `pkg.cpp:98-153` | loop index | `GetPFSCOffset` | 32-bit index, four search patterns, sampling | finds the preferred header, ends |
| PFSC loading, `pkg.cpp:485-707` | buffer, offset, length | ladder of reads inside `PKG::Extract` | retries with growing lengths, a second search after the header was copied | an error only when it is true; the map read in bounds and with its own header |
| metadata walk, `pkg.cpp:714-932` | `iNodeBuf`, `fsTable`, `extractPaths`, `current_dir`, counters | loop over blocks and entries | flags that are never reset, counters that end the walk, paths by "the last directory seen" | the tree is rebuilt |
| file extraction, `pkg.cpp:991-1357` | output file, package position | `CanExtractFile`, `ExtractFiles` | two copies of the same checks with different arithmetic, partial files | the two agree; blocks are read in place; files get their length |
| package table, `pkg.cpp:169-483`, `pkg_type.cpp` | file handle, `sfo`, `decNp`, keys | `Open`, `GetEntryDataById`, first half of `Extract` | one object serves many calls, its members outlive them; ignored read results; the order of the entries | what the object and the folder hold is the last package's |
| command line program, `main.cpp` | its stage | one pass over one package | a file type decided by an unset variable, exceptions nobody catches | goes on with packages only |
| package pane, `gui.cpp:1187-1560` | path, preview, icon, viewer, files | choose, type, rename, click | other programs act between a check and the rename; the preview outlives the path | a rename loses no file; the pane shows one package |
| logging back end, `common/logging/` | queue, thread, file, filter | `Initialize`, `Start`, `Stop`, `PushEntry` | stop races with producers and with the full queue; restarts | the file is what the queue accepted; `Stop` returns |
| stop tokens, `common/polyfill_thread.h` | flag, callbacks, owner of the lock | `request_stop`, `CondvarWait`, `StoppableTimedWait` | callbacks run under a lock while waiters come, time out and go | a stop reaches every wait |
| configuration, `common/config.cpp` | a base and a game value per entry, plain variables, files | setters, `load`, `save`, `setDefaultValues` | 60 entries and 9 plain values handled one by one in six long functions, three layers, torn files | settings outlive the program; games stay apart |
| game folders, `config.cpp` | list of folders with flags, the same file | add, remove, enable, `load`, `save` | flags and folders are two arrays of a file | the list comes back as it was |
| PSF files, `core/file_format/psf.*` | entries, buffer or file | `Open`, `Encode`, getters, adders | offsets from the file, buffers cut short | what was encoded is found again |
| trophies, `core/file_format/trp.*` | counters, np ids, output files | `Extract` | index and np id go with the directory entry, exceptions end it in the middle | every icon and XML is accounted for |
| range lock, `common/range_lock.h` | mutexes in a given order | `LockRange`, guards | threads name the same locks in other orders | nobody holds and waits |
| LRU cache, `common/lru_cache.h` | pool, list, free list | `Insert`, `Touch`, `Free`, walks | an intrusive doubly linked list over indices | the list is the order of use |
| `IOFile`, `common/io_file.*` | stream, path, position | open, close, move, write, seek, resize, unlink | buffered bytes, several objects on one file | the size counts what was written |

Interactions: the window makes a worker and a thread per job and hears of it
only through queued signals; the worker calls `PKG::Open`, `PKG::Extract`,
then `CanExtractFile` and `ExtractFiles` per entry; the command line program does
the same without the retries and the checks; the preview of the package pane
calls `Open` and `GetEntryDataById` on objects of its own; the log's callers and its
thread meet in the bounded queue; a crash leaves the marker, the progress file,
the configuration and the output folder to the next start.  Configuration,
trophies, `param.sfo`, the cache and the locks share no state with a job, nor with
each other.

The remaining components, with the reason why each is not modelled, are listed
in `PROJECT.json`; so are the hazards, at the lines where they bite.

## 2. The modules

```
JobView        ExtractionWorker   CrashMarker        BoundedFifo
    \                 |              /                    |
     \            GuiSession -------+               BoundedQueue
      \               |                                   |
       +------ GuiSessionProps -- GuiSessionProofs       BoundedQueueProps -- BoundedQueueProofs

PfscHeader -- PfscScan ---\          InodeLayout -- InodeTable
          \-- PfscLoad ---+-- PfscProofs       \-- PfsMetadata -- PfsMetadataProps -- PfsMetadataProofs

PkgEntryNames -- PkgTable -- CliProgram -- PkgTableProofs     FileExtract -- FileExtractProofs

ConfigEntries -- Config ---\
    InstallDirs, PsfFile, RangeLock, StopToken -- CommonProofs

LogFilter -- LogBackend ---\
    IoFile, TrophyFiles, PackagePane, LruCache -- PartsProofs

MCCommonParts: Config, InstallDirs, PsfFile, TrophyFiles, StopToken, RangeLock,
               LruCache, IoFile, PackagePane
```

`MC*.tla` with `MC*.cfg` instantiate these for TLC; where the constants need no definition,
a `.cfg` of the module's own name does. In each module a definition
whose comment begins with "Mutation:" is a plausible mistake in the definition
after it. It is used by no specification; it documents which property would
catch the mistake (`PROJECT.json`, "mutants").

* **ExtractionWorker** is `ExtractionWorker::extract()`. `pc` is the stage the
  function has reached, and each stage is an action: `Check` (exists and
  `DetectFileType`), `OpenAttempt` (a turn of `OpenPkgWithRetry`), `Guard`,
  `UnpackFails`, `PreviewDone`, `UnpackDone` (`PKG::Extract` and after), the loop
  (`LoopHead` and `WriteCheckpoint` are the two halves of
  `writeProgressCheckpoint`: truncate, then write; `PreflightFails`,
  `PreflightPasses`, `EntryWritten`, `EntryThrows`), `Report`, `Finish`. `Fatal` is the
  outer `catch`, possible at every stage. What a package holds is chosen step by
  step: which entries share an output path (`place`), what becomes of each. `out` and
  `folder` are the disk, `uiQueue` the signals posted so far. The failures that the code
  does not look at are steps of their own kind, bounded by `MaxFaults` (`Counts`): an
  entry cut short although `ExtractFiles` returned, a progress file that could not be
  opened, written or removed, a full folder that could not be listed. `by`,
  `blind` and `cpLate` remember them for the properties. A `finished` signal ends the worker in the model in the step that posts it.
* **CrashMarker** is `pkgxtractor-qt.state` for a set of running copies. Writing and
  removing it may fail; a process may die with its window up (`Crash`) or after
  `aboutToQuit` (`Late`), when the marker is gone but a worker may still run.
* **GuiSession** composes the two with the window: `StartWorker` is `startWorker`,
  `Deliver` takes one queued signal to its slot, `ThreadEnds` is the end of the
  QThread's event loop, whose `finished` signal enables the buttons. `Start`,
  `AboutToQuit`, `Exit` and `Crash` are the life of the process; a worker goes on
  between `AboutToQuit` and `Exit`. `SetMaximum` and `SetValue` are Qt's rules for a
  progress bar: a value beyond the maximum is ignored.
* **JobView** is the abstract specification of what the user sees of a job; the
  session is checked to implement it.
* **BoundedQueue** is `SPSCQueue::Emplace` and `Pop`, one action per access to what
  threads share, with the mutexes of `MPSCQueue` and `MPMCQueue` around them.
  Condition variables are modelled by the stages `doze` (the predicate was false,
  the mutex is still held) and `asleep`. Spurious wakeups happen. Memory is
  sequentially consistent: the indices are atomics with acquire loads and
  sequentially consistent increments.
* **BoundedFifo** is what callers rely on; `BoundedQueueProps` maps the slots between
  the indices to its sequence.
* **PfscHeader** states which occurrence of the magic number is the header of a
  buffer; **PfscScan** is the code of `GetPFSCOffset`, a loop turn a step.
* **PfscLoad** is the ladder of `load_pfsc` calls, the header checks and
  `ensure_pfsc_capacity`. It uses `PfscHeader` for the search, which `PfscScan`
  justifies. A decrypted image and the raw bytes may hold headers at different
  places; a piece read is a prefix, told by its length.
* **InodeLayout** is the arithmetic of inode blocks, **InodeTable** the loop that
  copies them, **PfsMetadata** the whole walk. The images are those a packer makes:
  trees with parents numbered before children, entries of one size, directories in any
  order in which a parent comes first, the entries of each in any order and possibly filling several
  blocks, contents of files after the directories that look like entries, entries with
  odd types. `InTime` is the test of `pkg.cpp:824`: an entry that begins in the last
  `sizeof(Dirent)` bytes of a block ends the block unread, though it is shorter.
* **FileExtract** is `CanExtractFile` (an operator) and `ExtractFiles` (a
  specification) over arbitrary sector maps and inodes. Reads, writes, the cipher
  and zlib succeed or fail; a flush or the close may also lose bytes without a word
  (`dropped`).
* **PkgEntryNames** is the table of entry types with its 611 rows, and the binary
  search over it. **PkgTable** is one `PKG` object: `OpenCall`, `ExtractCall` and
  `DataById` begin a call, `OpenEntry` and `ExtractEntry` are turns of the loops over
  the table. A package is a sequence of cells as long as a table entry; data is
  told by the package and the place it came from, a key by what it was made of. `Writes` and
  `WritesTwice` are files that may not open, be cut or not be closed, none of which the code
  looks at; `MaxSpoilt` bounds how many are so at one time. The
  place of the file handle is state, since the loops go on from wherever the
  last read left it. **CliProgram** is `main` over that object.
* **LogFilter** parses filter strings. **LogBackend** is the instance, its thread and
  the callers over a queue that behaves like `BoundedFifo`. In synchronous mode
  callers write without a lock, so that additions to `bytes_written` may be lost.
* **ConfigEntries** says, as sets of names, which settings exist and which of them each
  function of `config.cpp` handles, and how; **Config** follows one of them, any
  one, through the calls, exits, crashes and torn saves (no function of the code lets
  one entry bear on another). **InstallDirs** is the list of game folders, the one
  setting that is a list of pairs.
* **PsfFile** has `Encode` and `Open` with the offsets of the format: `KeyEnds` and
  `DataEnds` are the running totals of the two loops of `Encode`; the place of a key is kept
  modulo `KeyWidth`, as the 16 bits of `psf.h:29` keep it; short keys and values; **TrophyFiles** is `TRP::Extract` over a directory of files.
* **StopToken** is the stop state with `CondvarWait` and `StoppableTimedWait`;
  **RangeLock** is `LockRange` over threads that name common locks in other orders;
  **LruCache** is the pool, the list and the free list, walks included; **IoFile** is
  `IOFile` over inodes with buffered bytes, of which a flush, a seek or a close may lose some.
* **PackagePane** is the part of the window that previews and renames packages. The
  checks of a rename and the rename are two actions, other programs may act between.
* **MCCommonParts** puts the parts that share no state side by side: a behaviour
  chooses one of them and leaves the others at rest, so the states add up and do not
  multiply, and each property speaks of its own part.

## 3. The runs

| run | shows | bounds |
|---|---|---|
| `gui_session` | `EntriesAccounted`, `CheckpointBracketsWork`, `ShownFolderHidesNoFailure`, `NothingOverwritten`, `EnabledMeansQuiet`, `WarnedIffCrashed`; refinement of `JobView`; `JobEnds` | packages of 0, 1 or 2 entries, on one path or two: an entry before, at and after the loop's index; one unnoticed failure of the file system, at any place (`MaxFaults`); jobs, quits, crashes without bound. 812,000 states |
| `bounded_queue` | no slot is written while it is read, no wakeup is lost, refinement of `BoundedFifo`, sleepers wake, a stop ends the wait | two producers, one consumer, two slots, indices modulo 4: full, empty and wrapped queues. The proofs below lift the safety part to any number of each |
| `pfsc_scan` | the loops return `HeaderOffset`; they end | buffers up to 17 units, magic of 2, header of 3: each search pattern begins, ends and is cut inside a buffer, and sampling begins at 16 |
| `pfsc_load` | `ErrorsAreTrue`: "Failed to find PFSC header" and "sector map out of bounds" are said only when true, but for two cases (below); `MapOfTheHeader`: the map is read in bounds with its own header | up to six sectors, two headers in the decrypted image, one in the raw bytes |
| `pfs_metadata` | `PathsMatchTree` (parents made before children), `ListsTheTree` | up to three nodes below the root, blocks of 10 with entries of 3 or 4 where `Dirent` has 5: a directory fills one block or two, its entries in every order, and the last entry of a block is read or skipped |
| `file_extract` | `PreflightAgrees`, `WrittenAsTold` (blocks in place, a file as long as told unless bytes were lost unseen) | three sector map entries, blocks of 4, pages of 2, numbers of 4 bits |
| `pkg_table` | `NamesFound`, `SfoIsThePackages`, `KeysAreThePackages`, `EntriesOnDisk` (and the direct read agrees), `CliOnlyPackages` | three calls on one object: a member that outlives a call, the call that fails in between, the call that reads it; five packages: the usual table with two entries without a name, one without `param.sfo` and with the image key first, one with `param.sfo` between the keys, and two refused by their headers; one spoilt file at a time (`MaxSpoilt`) |
| `log_backend` | `FileIsTheAccepted`, `FilterAsWritten`, `StopReturns` | two threads, queue of 2, one message drained after a stop, file of 2, three messages, four starts: each limit is reached and passed |
| `common_parts` | see below | `MaxSettings` 3, `MaxDirs` 2, `MaxInstall` 5, `MaxPsf` 4, `MaxTrophy` 2, `MaxTick` 3, `MaxPool` 3, `MaxIo` 4, `MaxPane` 4, `KeyWidth` 6. 765,000 states |
| `crash_marker_two_instances` | violated: finding 1 | two copies |
| `pfsc_scan_4gib` | violated: finding 2 | buffers of 16 units, index of 16 values |
| `inode_table` | violated: finding 3 | the program's own sizes, up to 4300 inodes |

Sizes scale: every constant of the program (0x1000, 0x10000, 0x20000, 2^32, 2^64)
is a CONSTANT, and the small values keep their order and divisibility.

Runs of functions that return switch deadlock checking off; the session and the
queue never stop, and there it is on.

`TypeOK` is not among the runs' properties: for the queue and the session TLAPS proves
it, and it has served its purpose for the others while they were written.

The properties of `common_parts`, one part in each behaviour:

| part | property | bounds and why they are enough |
|---|---|---|
| configuration | `RestartKeeps`, `GamesApart` | all 69 settings, two games, one file by hand; three calls besides any number of restarts reach save, start, load, and set, save of a game, load of another. The proofs lift all bounds |
| game folders | `FoldersReturn` | three folders of which two are the same file system path, lists of two, five calls, saves cut short; the proofs lift the bounds |
| PSF | `OpenFindsTheEncoded` | two keys, four calls: add, add or update, encode, open; every cut of the file, one foreign field; keys whose places fit in `KeyWidth` and keys whose places do not; the proofs lift the bounds |
| trophies | `TrophiesAccounted` | two calls on one object, directories of up to three entries with files, folders and failures in each place, records of `npbind.dat` that cannot be read |
| stop tokens | `StopReachesWaits` | two waits on one condition and a timed one: insertion before, during and after the request |
| range lock | `NoHoldAndWait` | three threads, three locks, named in three orders |
| LRU cache | `ListIsTheOrder` | three items, ticks up to 3: touch of the first, middle and last, free and reuse |
| `IOFile` | `SizeCountsTheWritten` | two objects, two paths, four calls: two objects on one file, move, unlink under an open one, bytes lost by a flush |
| package pane | `RenameLosesNothing`, `PreviewIsOfThePackage` | two files, four packages (an add-on, one without id, one that does not open), four steps; the proofs lift the bounds |

### Exceptions the properties make

* An entry counts as resolved in `EntriesAccounted`, `CheckpointBracketsWork` and
  `ShownFolderHidesNoFailure` when it is whole on disk, no file or reported, or when it was
  lost in a way no code of the program notices (`LostUnseen`): the disk refused its end in
  the flush of `WriteRaw` (`io_file.h:190`) or in the close (`pkg.cpp:1356`), which raise
  nothing, or a later entry has the same path after sanitizing (`pkg.cpp:874`). So a
  shown folder may lack these. The properties say that there is no third way.
* `CheckpointBracketsWork` speaks of a progress file written by the job itself: a
  fatal exception leaves the file of an earlier job, which the next crash would
  show. When the file cannot be opened for an entry (`gui.cpp:876`) it stays behind:
  then it need not name the entry in work, only nothing that is not so.
* `WarnedIffCrashed` leaves out a run whose marker could not be written or removed
  (`gui.cpp:942-985` does not look), and says of a death after `aboutToQuit` that
  nobody is told of it, a worker that is still writing included.
* `NothingOverwritten` excepts a full folder that `exists()` could not look at, which the
  guardrail takes for empty (`gui.cpp:93`), and later entries of the same job and path.
* `JobEnds` promises nothing while the worker is inside `PKG::Extract` (see Fairness).
* `ErrorsAreTrue` excepts failed reads, and for "sector map out of bounds" two cases of
  `ensure_pfsc_capacity` in which the message may be false: the larger piece brought
  up a header that the smaller one did not hold, or is above 1 GiB, where every 16th byte
  only is looked at, and another header or none was found in it.
* `PathsMatchTree` and `ListsTheTree` say of an image without entries in the last
  `sizeof(Dirent)` bytes of a block that the whole tree is there. Of the others they say
  it of the entries that are read, below directories that are read, up to the end of the
  directories: the skipped ones are not counted, so that the walk runs on into the
  contents of files. A Dirent is 528 bytes and the entries of a package a few tens, so
  the last dozen or so of a directory that fills its block are lost.
* `EntriesOnDisk` leaves out the files that `Extract` could not open or write whole
  (`pkg.cpp:392`, `402`, `442`, `451`, `476`); it returns true all the same.
* `MapOfTheHeader` excepts a header that appears only in the larger piece, and
  pieces above 1 GiB, whose search looks at every 16th byte only. In both cases the
  code reads the sector map at the place the first header told.
* `PreflightAgrees` needs the faults of disk and zlib told apart, and leaves out
  maps whose sums pass 64 bits, on which `ExtractFiles` adds where
  `CanExtractFile` subtracts.
* `WrittenAsTold` excepts inodes with more blocks than their size needs, whose
  output is longer, and says of a file whose stream lost bytes unseen only that it is no
  longer than its blocks.
* `ListsTheTree` speaks of packages with a file; for others the code lists the
  flat path table as `inode_1.bin`.
* The `pkg_table` properties speak of tables that list no type twice, of keys only when
  `ENTRY_KEYS` stands before the entry that needs it (otherwise the code uses the
  `dk3_` of an earlier call or none), and for `Open` of packages with a `param.sfo`
  whose other data never looks like its entry: `Open` does not return to the table.
* `FileIsTheAccepted` lets a stop repeat the last message once, and lets messages go
  when more than 100 wait at the stop; in synchronous mode it says nothing of the
  order or of the limit, since `bytes_written` is then shared without a lock.
* `RestartKeeps` leaves out the package list and the extra memory, which no save stores;
  a file that does not parse stays as it is until somebody removes it. A save that was cut
  inside a number leaves a file that parses: the setting is then what is left of the
  number (`CutNumber`). `GamesApart` holds
  for files that only `save` wrote: `load` takes plain values from any file, and the
  game values survive the load of a file that is missing or without the section.
* `FoldersReturn` speaks of the first load of a run. A later load of a list without flags
  takes those of the load before it, although the comment says "assume that all are
  enabled". A cut save may leave all folders enabled.
* `OpenFindsTheEncoded`: the empty list encodes to a file that `Open` refuses. Names are
  promised only when their places fit in 16 bits; beyond 64 KiB of names `Encode` writes
  the place of another one, and only the values come back (`NamesFit`, `Contents`).
* `TrophiesAccounted` speaks of the files `npbind.dat` has an id for. The index into it
  counts directory entries, folders included; past its end, and where the record cannot be
  read (`trp.cpp:15-22`), the id of the file before is used, or a mixture of both, and
  `Extract` answers true. Of these files it says only that one id serves all XML.
* `StopReachesWaits` says of `StoppableTimedWait` that it cannot hold what its callback
  waits for. `CondvarWait` can: it asks for the lock of the stop state with the caller's
  mutex held, which `request_stop` takes the other way round, so those behaviours of the
  model stop (deadlock checking is off in `common_parts`). The code is
  compiled only where the library has no `std::jthread`; there the stop of the log, which
  waits with `CondvarWait`, is exposed to it. `LogBackend` takes the library's waits.
* `SizeCountsTheWritten` excepts files that another stream is writing to, files of which a
  flush lost bytes that a write had accepted (`GetSize` ignores how its flush went), and the
  answer 0 that stands for an error of the file system.
* `PreviewIsOfThePackage` speaks of a package that nobody but the pane touched and of
  renames of the path that was previewed.

### Findings

1. The crash marker is one file per directory, and two copies of the program
   mislead each other about crashes (`gui.cpp:942`).
2. `GetPFSCOffset` never returns for a buffer of 4 GiB or more without a header
   (`pkg.cpp:116`).
3. `occupied_blocks` is too small for some numbers of inodes, the least of them
   4291 (`pkg.cpp:764`).

## 4. Fairness

The worker's thread, the end of a thread and the window's event loop are weakly
fair in `GuiSession`: each is scheduled by the system and always enabled until it
has run. The worker inside `PKG::Extract` (`pc = "unpack"`) is not: `GetPFSCOffset`, which it
calls, need not end (finding 2). The other stages are loops over tables of known length.
The user, quits and crashes are not fair. In `BoundedQueue` each thread
inside a call is weakly fair, and so are the callbacks of a requested stop; nothing
makes a thread begin a call, request a stop or wake spuriously. `SleepersWake` and
`StopEndsWait` use no more: a mutex is always released by a fair thread, and with
bounded threads weak fairness is enough for a waiter. `PfscScan` is one function
and fair. In `LogBackend` the log thread and the join that waits for it are weakly fair;
the threads that log and the main thread owe nothing, and `StopReturns` must hold
whatever they do.

## 5. The proofs

`BoundedQueueProofs` holds for every number of producers and consumers, every
capacity and every index width that the capacity divides (`QueueAssumption`; the code
asserts a power of two). With two consumers the type invariant and the race freedom
of the slots do not follow from themselves; the inductive invariant `IInv` adds

* `Holders`: a thread is inside a call exactly when it holds the mutex of its side,
  and about to sleep exactly when it holds the mutex of its condition variable;
* `Bounds`: no more than `Capacity` items are inside, a thread that stores still has
  a free slot, a thread that takes still has an item. Only the thread
  itself can take that away, which is what `Holders` says;
* `NoLostWakeup`, inductive given the two.

Each part has a lemma with a step per action. `SlotsApart` then follows by
arithmetic: two indices less than `Capacity` apart and not equal lie in different
slots (`CloseNumbersDiffer`), also when the write index has wrapped and the read
index has not (`WrappedSlot`). Theorems: `TypeCorrect`, `SlotsApart`,
`WakeupsKept`, `Invariance`.

The last part of the module proves from there that the ring buffer implements
`BoundedFifo` (`QueueIsFifo`). The mapping `Inside` reads the slots between the indices,
so the proof needs what they hold: `Contents` says that each of them is filled, that a
producer about to publish has its item in the slot behind them, and that a consumer
that has taken has the one at their front. A store falls outside the indices
(`TakenIsInside`, `StoreKeeps`) and is a stutter; raising the write index is a push, raising
the read index a pop (`PublishIsPush`, `AdvanceIsPop`). That two places inside
are two slots, when the indices have wrapped too, is `NearIndicesApart`.

`GuiSessionProofs` holds for packages with any number of entries and of unnoticed failures
(`MaxEntriesAssumption`, `MaxFaultsAssumption`: natural numbers), any number of jobs, quits
and crashes.
None of the session's properties is inductive. `IInv` adds to them

* `Phases`: no worker exists exactly when no thread does; a thread told to quit has
  returned and its signals are all delivered; `finished` is the last signal on the
  queue, the thread's own signal is alone on it. `OneWorker` needs all three: the
  buttons come back with a signal, and only its place on the queue says that nothing
  else is under way;
* `Accounts`: a folder that is not full holds no file of any entry, and past the
  guardrail, unless that was blind, what is on disk is this job's; before the loop nothing
  is recorded; inside it every entry from the loop's index on is unwritten and unreported;
* `Checkpoints`: while an entry is in work the progress file names it, or an earlier one
  when it could not be opened since;
* `Shown`: while a job runs the folder is neither shown nor asked for;
* `Marks`: the marker of a run that could write and remove it is there exactly when the
  run is up or died while it was.

The worker's fifteen actions are taken first, by what they post (`WorkerSignals`:
nothing, one signal, or the last signals of a job) and by what they do to the entry
in work (`EntryDone`). `NoEntryLost` also uses that a first report adds one to the
number of reported entries (`OneMoreError`, by the theorems on finite sets).
`WrittenOnce` is an action property: out of `Accounts`, the one path a step writes is
untouched, or was written by an earlier entry of this job, or the guardrail was blind. Theorems: `Invariant`, `TypeCorrect`, `NoEntryLost`, `CheckpointTrue`,
`ShownWithoutFailure`, `OneWorker`, `MarkerTells`, `WrittenOnce`.

The last part of the module proves that the session implements `JobView` (`JobsAsPromised`).
The bar may ignore a value, so what it shows depends on the order and the values of the
signals still on their way: `InOrder` says that the total comes first and finds the bar at
0, that the k-th progress behind it is the bar's value plus k and within the total, and
that none follows the shown folder; `Counting` adds that inside the loop the bar and the
queue together make the loop's index. Lemmas on queues say what posting and taking
each kind of signal does to that order; the steps follow from them.

`CommonProofs` has five parts: the settings, the game folders, `param.sfo`, `LockRange` and the
waits on a stop.

*Settings*, for any of the 69 settings, any set of game files, any files made by hand and any
number of calls, restarts and torn saves (`ConfigAssumption`: what is followed is a setting,
and the file of all games is not the file of one). `RestartKeeps` speaks of one moment only;
`ConfigInv` adds

* `GivesBack`: what the file of all games would give back to a first load is among the
  values a save may have stored, at every moment;
* `SaveInHand`: a save between its truncation and its end holds the value in memory, and
  nothing else can change that value meanwhile;
* `OwnFiles`: a game file that only `save` wrote has no plain value, which is what keeps
  `load` from taking one.

The sets of names enter through three lemmas: every setting but two is stored
(`StoredButTwo`), no plain value is an entry (`PlainApart`), only entries get game values
(`GameValuesAreEntries`); a name added to `config.cpp` and forgotten in `save` breaks the
first. Theorems: `SettingsOutliveRestarts`, `GamesStayApart`, `ConfigInvariant`.

*Game folders*, for any folders, ranks and files made by hand (`HandAssumption`: such a file
holds a list of folders and a list of flags). `DirsInv` says that the file holds the saved folders in
some order with the flags in the same order (`Stores`), or after a cut what is left of that
(`StoresPart`). `save` sorts the pairs and `load` sorts again, but sorting folders of one rank may
give them in any order: what stays is how often each pair is in the list (`SameFolders`), which two
lists have in common when one is the other moved along a bijection (`SameWhenMoved`, by the
theorems on finite sets). Theorem: `FoldersTheorem`.

*param.sfo*, for any keys, any values and lists of any length (`PsfAssumption`: keys have
lengths, values are bytes). `PsfInv` says that an entry has a value of its format or none
(`ValueRight`: a text holds no zero, an integer is four bytes) and that a file of the program's own
is the layout of the list it was made of, of some length (`Cut`). The two loops of `Encode` are
running totals, which exist for any list (`TotalIs`) and never fall (`Rising`), so that the place of a key or of a
byte tells the entry (`PlacesTell`). An entry in the bounds that `Open` checks is the entry that was
encoded, but for its name when the place of that does not fit in `KeyWidth` (`ReadBack`), hence
`Open` finds the whole list or refuses (`CutParsed`), wherever the file was cut off. Theorems: `EncodedTheorem`, `PsfInvariant`.

*Waits.* For `LockRange` it takes any threads and any ranges (`RangeAssumption`: ranges are
sequences of the locks). What a thread holds is told by the place of its innermost call
alone (`Holds`), because a call waits only while its guard has the rest of the range (`Stack`); the
call's `next` and the guard's `begin` are the same place. `NoHoldAndWaitHolds` follows. For the
waits on a stop it takes any number of waits of both kinds (`StopAssumption`: their names
differ). That whoever sleeps is still to be woken is inductive only with who is about to sleep
and who has still to look at the flag (`Due`, `ToBeWoken`), and that needs who holds which lock at
which stage (`Holders`). Theorem: `StopReachesTheorem`.

`PfscProofs` has two parts, the loading and the search. Both hold for any layout of the
header searches (`HeaderAssumption`: a magic number no longer than the header, strides
above 0) and any set of headers.

*Loading*, for any sizes of the file, the image and the pieces (`LoadAssumption`): `LoadInv`
says that a piece is always whole
sectors of the region, that on the ladder the last piece had no header, that at its end
the whole region was read, and that the buffer is the last piece from its header on.
The search enters through two lemmas: a header of a larger piece that lies in the smaller
one was found there (`FoundBefore`), and a smaller piece has none when the larger one has
none (`NoneBefore`), both as long as no bytes are skipped. Least offsets exist because
the order of the naturals is well founded (`LeastIs`). Theorems: `LoadErrorsTrue`,
`MapInBounds`, `LoadInvariant`.

*Search*, for a buffer of any size: `ScanInv` says which of the four searches are over and
have found nothing, and that the loop under way has passed no place it looks for
(`Passed`; its index is the first place plus a multiple of the stride, `NextTurn`). Theorem:
`FoundTheorem`. It holds as long as the 32-bit index does not run over (`IndexFits`: the size
and one more stride are within the index). That is the code's own limit, not one
of the proof: beyond it finding 2 shows the loop that never ends. Together with the
first part it justifies the use of `HeaderOffset` in `PfscLoad`.

`FileExtractProofs` holds for any package, sector map, inode and read limit
(`ExtractAssumption`: a block is whole pages, a read buffer holds a block and a page, the
word is a multiple of the page; offsets are words). `CanExtractFile` and
`ExtractFiles` compute the same quantities differently, with and without wrapping, and
only agree because each block before the one in hand was read from inside the file
(`InProgress`, `Completed`); the first block beyond decides which of the two refuses. The
quotients and remainders of the page arithmetic have lemmas of their own
(`Division`, `Remainder`). Theorems: `PreflightTheorem`, `WrittenTheorem`.

`PkgTableProofs` holds for packages with tables of any length (`PackageAssumption`: sizes are
numbers, and packages go by their names) and any calls on one object, failed ones
included. The properties speak of a call that succeeded; `TableInv` says them of the rows
the call has come past: `Going` (where in the table the handle stands),
`ExtractRight`, `OpenRight` and `GotRight`, what each of the three loops has left so far.
That two rows never share a file is `NamesApart`; that `Open` looks for one
type only is `SfoNameIs`. Theorems over `TableSpec`, any calls on the object: `SfoTheorem`,
`KeysTheorem`, `EntriesTheorem`. The command line program is a client of the object:
`CliIsTableTheorem` says that `CliSpec` implements `TableSpec`, so that the three hold in it;
`CliInv` adds that it makes one call, goes on when it went well, and reads `sfo` only
then, and gives `CliTheorem`. The `Spec` that `pkg_table` checks is the choice between the two.

The names of entries have a part of their own, which takes the 611 rows as they stand. They are
given as ascending sequences of types, joined end to end: each is ascending, and each ends below
the beginning of the next (`EntriesAscend`). The halving of `lower_bound` keeps what it looks for between
its two ends (`LowerBoundParts`), so that a type is found where it stands and nowhere else.
Theorems: `NamesTheorem`, and `EveryTypeNamed` for every type there is, beyond those that
the run asks for.

`PfsMetadataProofs` holds for any tree, any order of the directories and of the entries in each, any
sizes of blocks, inodes and entries (`MetadataAssumption`: an entry is no larger than a Dirent, and a
block holds one of each; every name has its sanitized form; `LayoutAssumption`: an inode fits a block). `PathsMatchTree` says that each path is the one of
its place in the tree, a recursion over parents; `ListsTheTree` that a walk that ends has listed the
files and only these. `WalkInv` says

* `TreeRight`: parents come before children, the orders list every child and every directory once, and
  the blocks are those of the directories in their order;
* `Outside`: up to the first directory nothing is made and nothing is listed;
* `Inside`: the walk stands at a place of a directory (`Before`), what it has seen is that of the
  directories before and of the entries behind that place, the paths of these are true, and
  the counts are theirs;
* `Ended`: it stopped when the count of entries reached that of the inodes, and then all was seen.

The walk ends by counting, so the proof needs that two different places see different numbers of
nodes (the theorems on finite sets), and paths are "the last directory seen", so it needs that a
directory's own first entry comes before its others. Both properties hold while
`occupied_blocks` covers all inodes (`InodesAllRead`), or when no entry has an odd type, since only
then is an inode looked at; and while no entry is skipped at the end of a block (`NoneSkipped`; the two
make `ImageRead`). What is left of the properties for images with skipped entries is
model-checked only. Finding 3 shows that the code's formula does not always cover them;
`FewInodesAllRead` shows that it does up to 4290 inodes of the program's own size, and with it
`PackagesAreRight` says both properties of every package of at most 4286 files and directories
without skipped entries. A directory must fill most of a block to have one:
`SmallPackagesAreRight` says both of every package of at most 122 files and directories, with no
hypothesis left. Theorems: `WalkInvariant`, `PathsAreRight`, `TableListsTheTree`, `FewInodesAllRead`,
`PackagesAreRight`, `SmallPackagesAreRight`.

`PartsProofs` has five parts. *IoFile* (`IoAssumption`: the bound on calls is a number): `IoInv`
says that the length on disk and the bytes held by the one stream that may hold some
make up the length of a file that lost none (`Counted`), that no stream is shared by two objects and each was opened
at its object's path, and that a number no call has had yet holds no bytes (`Owned`). Theorem: `SizeCountsHolds`. *TrophyFiles* (`TrophyAssumption`: directories
are sequences of files with entries, folders have none): the property speaks of the end;
`TrpInv` adds that nothing ahead of the place in hand was made (`Ahead`) and that each entry
past was made or missed, under the id of its file when that was read (`EntriesRight`). Theorem: `TrophiesTheorem`.
*PackagePane*, for any packages (`DumpsAssumption`: each opens or does not), any
names and any number of steps: `RenameInHand` says what a rename past its checks knows:
two different names, the new one free unless another program was there since. Theorems:
`RenamesKeepFiles`, `PreviewFollowsRenames`, `PaneInvariant`.
*LogBackend*, for any threads, any classes and levels they log with, any capacity and limits
(`LogAssumption`: the capacity is not 0, a message has a class and a level that exist) and
filter strings of any length (`FilterAssumption`: `"*"` is no class). `LogInv` says

* `Queued`, `Numbered`: the queue is the end of what was sent, and no number is used twice,
  so that a message that stands twice in the file was written twice;
* `Phases`: the log thread exists between `Start` and `Join`, drains only when it is told to
  stop, and its entry is the message that left the queue last;
* `Written`: without its repeats the file is all that left the queue, or all but the message
  in hand, and each repeat has a `Start` of its own. Between the stop and the drain the
  message in hand may be written a second time (`MayRepeat`);
* `Owing`: what a stop owes is the beginning of what was sent, and no more of it is left
  in the queue than the budget of the drain;
* `PastFilter`: what passed the filter is of the level that the string says.

Theorems: `AcceptedTheorem`, `FilterTheorem`. The second says what a recursion over the rules
computes. The induction it takes is carried out on the set of the places where the claim
holds (`CountingUp`, from the least element that a set of numbers has, `FirstMissing`), and the
recursive function is shown to exist before it is unfolded (`ParsedIs`).

*LruCache*, for any number of items and any ticks (`LruAssumption`: the bounds are numbers):
`LruInv` says that the links, both ends and the ticks are those of the items in use
in the order of their last touch (`Shape`), that every item is in use or free, and once
(`Once`), and that no touch is later than one behind it (`Aged`); freed items may point
anywhere. Each operation is a detachment, an attachment or both, which have lemmas of their
own (`DetachShape`, `AttachShape`). The walk and the freeing during it are recursive functions
over the places, unfolded by `CountingUp` like the filter (`WalkIs`, `FreedOneByOneIs`): freeing
the first items one by one leaves the list of the rest. Theorem: `OrderTheorem`.

What stays with TLC: liveness under fairness (`JobEnds`, `SleepersWake`, `StopEndsWait`, `ScanEnds`,
`StopReturns`), which is beyond the prover, and the three findings, which are counterexamples. Every
invariant, action property and refinement of a passing run is a theorem (the two of the
metadata walk under the hypotheses said above).

Recursive definitions are proved about without the library's induction, whose theorems take an
operator as a parameter: the claim is carried along the set of the places where it holds
(`CountingUp`), and the recursive function is shown to exist before it is unfolded.

## 6. What is not modelled

Bytes: names, formats, messages, cryptography and compression are choices or
small sets. The bounded queue's memory is sequentially consistent.

* Of the window: the comparison of two extractions, which runs an external script, the
  wallpaper and the layout. The window's thread and the package pane share no state that
  the pane's properties speak of, except the output folder, which `PackagePane!Extracted`
  stands for.
* Cryptography: numeric code without states of its own.
* PlayGo, the memory patcher and the ELF loader: emulator code in the tree that neither
  program reaches. `DetectFileType` is modelled where it is used.
* The slot, slab and pool containers, the locks beside `RangeLock` and the owners'
  counts of the stop source: not used by the programs, or wrappers of system calls.
* The mapping of user paths, `IOFile::GetFileMapping` (the handle is cached and neither
  reset by `Close` nor exchanged by a move, which neither program does with a mapping).
* The older Qt front end (`src/tools/pkgxtractor_qt/gui.cpp`), which CMake does not build.

Observations beside the properties, from the code as modelled: `main.cpp:95` announces
a folder that `ExtractFiles` does not use; `getInternalScreenWidth` returns the height and
`setExtraDmemInMbytes` ignores its argument; `vblankFreq` raises the base while a game
value below 60 goes on to show.

## 7. Plan

1. *Done:* session and worker; queue; the PFS path from search to extraction; the package
   table and the command line program; the log; the common parts and the package pane.
2. *Done:* proofs of every safety property and of both refinements that the passing runs check.
3. Left to model, if runs can be spared: the comparison in the window, PlayGo's states.
