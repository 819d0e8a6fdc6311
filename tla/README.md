# sbbdep in TLA+

sbbdep answers questions about the binary dependencies of the packages that are
installed on a Slackware system. It keeps what it knows in an sqlite database, the
*cache*, and brings the cache up to date each time it runs. The modules here
describe the whole of a run: the command line, the opening of the cache, the threads
and the queue that fill it, the transaction around them, the computation of what has
changed, what is read of packages and ELF files, what is stored of them, and the
reports over it; and many runs, one after the other or at the same time, on a system
that changes meanwhile.

Paths are relative to the repository.

## Inventory

| component | state | operations | what makes it correct |
|---|---|---|---|
| `BackgroundJob` (`include/sbbdep/utils/backgroundjob.hpp`) | `running`, `newData`, `messages`, mutex, condition variable, worker thread | `push` (three overloads), `stop`, `setCleanup`, destructor, worker loop | every accepted message is processed once; the task is never run by two threads; `stop` returns |
| `ConcurrentPeek` (`utils/concurrentpeek.hpp`) | vector, position, mutex | `operator()`, `pop` | every element is handed out once |
| `Cache`: index (`src/sbbdep/cache.cpp`) | the database, a transaction, a job, a picker, two producer threads | `createIndex`, `updateIndex`, `indexPkg` | all of an index is committed, or nothing; what is committed is what was asked for |
| `Cache`: sync difference | none | `createUpdateSyncData`, `pkgNameDiff` | removed, installed, reinstalled and updated packages are told apart |
| `Cache`: `doSync` | tables of the database | `isNewDb`, `createDbSchema`, `createNewSyncData`, `doSync` | the database follows the package directory, interrupted or not |
| `Cache`: library directories (`ldconf.cpp`) | tables `lddirs`, `ldlnkdirs`; a static `Ldconf` | `Ldconf`, `cache`, `lddMap`, `getLDDirs`, `updateLdDirInfo`, `findDirWithLink` | the directories of the database are those of the linker, and the rows computed with them are not stale |
| `Pkg` (`pkg.cpp`) | path, type, ELF files | `create`, `Load` | a loaded package describes its file list |
| `Path`, `PathName`, `Dir`, `PkgAdmDir` | result of an `lstat`; name of the package directory | stat, `makeRealPath`, `forEach` | a `Path` describes its file |
| `PkgName` (`pkgname.cpp`) | parts of a full name | `makeDetails` | name, version, arch, build |
| `ElfFile` (`elffile.cpp`), vendored `elfio` | soname, needed, run paths | `load` | the search path the linker would use |
| command line (`src/cli/appcli.cpp`, `appargs.cpp`, `main.cpp`) | options | `parse`, `openCache`, `AppCli::run` | a query runs on a usable database; exit code 0 means that it was answered; the program ends |
| reports (`src/cli/report_*.cpp`) | the stack of a tree; two threads of a lookup | required, ldd, whoneeds, dependency tree, lookup, sync summary | what is listed is what the linker would load; the reports agree with each other; nothing is lost between the threads |
| `Log` (`log.cpp`) | the setup; channels, a mutex each | `create`, output | nothing is lost; what a stream hands to a channel is not mixed |
| sqlite through libsl3 | the file | transactions, statements | external |

How they interact. `AppCli::run` opens the cache and calls `doSync`, which, in a new
database, makes the schema and a `SyncData` with every package, or else computes the
`SyncData` that is the difference to the package directory. `createIndex` or
`updateIndex` then opens a transaction and starts two threads. Each picks todos
from a `ConcurrentPeek`, loads the package file, and pushes it to a `BackgroundJob`
whose task writes to the database on the job's own thread. The main thread joins
the producers, stops the job, and commits.

Hard behaviours: a queue with an atomic flag, a plain flag written outside of the
mutex, and a condition variable; a job that is stopped by a thread that runs the
task, too; a database handle shared by threads; `push()` that may refuse, and
callers that do not look; packages that change between the scan, the load and the
insertion; interruptions between the transactions of one sync; several processes;
one timestamp that decides for all packages; a linear merge over a range that is
not always sorted its way; rows computed from the state of the file system at the time
a package was indexed, and never again; files that vanish between a `stat` and a read;
ELF files that end early; a recursion over libraries that need each other, ended by a
comparison of names; a database that is removed and made anew while others have it open.

## Plan

| order | module | what | state |
|---|---|---|---|
| 1 | `BackgroundJob` | the job | done, proved |
| 2 | `ConcurrentPeek` | the picker | done |
| 3 | `AtomicIndex` | abstract: an index changes at once or not at all | done |
| 4 | `IndexPipeline` | `createIndex`, `updateIndex`: composes 1 and 2, implements 3 | done; safety and the refinement proved |
| 5 | `SyncDiff` | `createUpdateSyncData` as operators | done; proved |
| 6 | `CacheSync` | `doSync` again and again: composes 5 with the promise of 3 | done; safety proved |
| 7 | `FileSystem`, `PackageName`, `LinkerDirs` | paths, links, listings; parts of a full name; `Ldconf` | done |
| 8 | `ElfReader`, `ElfFile` | what elfio reads of a file; what sbbdep keeps of it | done |
| 9 | `PkgLoad` | `Pkg::create`, `Pkg::Load`: over 7 and 8 | done; lists, the walk and exceptions proved |
| 10 | `CacheTables`, `LibraryCache` | the rows of a package and the directories, over many syncs: over 7 and 8 | done; stale rows, and requirements that are needs, proved |
| 11 | `Reports`, `LinkerSearch` | the selections of the reports; `findElfSo` | done |
| 12 | `OpenCache`, `Log`, `Lookup`, `DependencyTree` | `openCache`; the channels of the log; both threads of a lookup; `printElfs` | done; `OpenCache` and `Lookup` proved |
| 13 | `CommandLine` | a whole execution: composes 9 to 12 | done |

The proofs are in `IndexPipelineProofs` (1 to 4), `SyncDiffLemmas` and `SyncDiffProofs` (5), `CacheSyncProofs` (6),
`FileSystemLemmas` and `PkgLoadProofs` (7, 9), `LibraryCacheProofs` (10, 11) and `CommandLineProofs` (12, 13).

## Modules

### BackgroundJob

One step is what a thread does between two points that another thread can observe.
The worker's critical section is several steps (`WorkerLock`, `WorkerTest`,
`WorkerWait` or `WorkerSwap`), because `stop()` changes `newData` and notifies without
the mutex. `push()` is the test of `running` (`PushCall`, or `PushRejected`), the
critical section (`PushEnqueue`) and, in the overloads for one message, the notification
after it (`PushNotify`). `stop()` is `StopCall` to `StopDrain`; the destructor is
`DtorCall`, the same steps, and `DtorMembers`, where a thread that is still joinable
terminates the process.

The unlocked `newData = true` of `stop()` is a data race. It is modelled as a store
that becomes visible later: `StopStoreData` sets `lateStore`, and `StoreVisible` may come
at any time after. A thread the notification wakes has seen what was stored before.
Spurious wakeups and a task that throws are steps of their own. `accepted` and
`processed` are history variables.

`JobStep` is what the job does by itself, `JobCall` what a client may call. Left out:
`isRunning()` and `cleanup()`, which only read, and `runBlocked()`, which has no caller.

### ConcurrentPeek and AtomicIndex

A pick is one step under the mutex; positions stand for elements, 0 is the element
that ends the list. `AtomicIndex` has a single step `Commit`, from the database as
it was to the database with a consistent set of todos carried out, or `Abort`. `ProperTodo` is what
it takes for granted of its list: no name in two todos, and a name that has rows installed only by
the todo that removes it. `createUpdateSyncData` delivers that, as `SyncDiffProofs` shows.

### IndexPipeline

Extends `BackgroundJob` and `ConcurrentPeek`. The main thread, two producers, and the
job's threads are interleaved; the constant `NewCache` chooses between `createIndex`
and `updateIndex`, which differ in the task, in the early return and in `ANALYZE`. The rows
of a name are a sequence, so that a name with two rows would be seen. `work` is the
database in the open transaction, `stable` the committed one. `JobRuns` is a step of the
job together with what the task writes. A producer's thread loads and pushes in `LoadAndPush`;
a load may fail. `Raise` is an exception of the task in `stop()`, of `commit()`, or of
`ANALYZE`.

Only full names and the kind of content are kept of a package: before this run, with
files, without files.

### SyncDiff

Operators on sets of full names, which are numbers in the order of `std::string`, with a
function `NameOf` to the name part in its order. That keeps what matters of the strings:
that `foo-bar-1-x-1` < `foo-r3-x-1`, but `foo` < `foo-bar`. `std::set_difference` on sets of
full names is the difference of sets; `pkgNameDiff`, which compares names over ranges
sorted by full names, is the linear merge (a recursive function).

`MergeTurn` is one turn of `std::set_difference`. `MCSyncDiff` makes a small machine of it: any
database and directory, then up to three rounds that apply the difference.

### CacheSync

`doSync` step by step for each process of a set, over a package directory in which
packages are installed, reinstalled and removed, with a clock in seconds. A row is a
timestamp and the number of the installation it describes. Loading is one step for each
todo. `Drop` is a rejected push, which comes only before the first accepted one, as
`IndexPipeline` shows. `Restat` is the copy of a package that `push()` puts into the queue, and
another one when the vector of messages grows, since `Path` has a move constructor that may throw:
a copied `Path` calls `lstat` again. When that fails the time is indeterminate, here: long
ago, or beyond the clock. `Crash` stands for an exception, a signal or a power failure
between any two steps.

The scan of the directory is one step, as is reading the names in the database beside it.
Entries of the package directory are regular files. `updateLdDirInfo()` is in
`LibraryCache`. Two transactions of two processes do not overlap: sqlite refuses the second
writer, which is an exception, and so a `Crash`, in this program.

`calm`, `overtaken` and `quiet` are history variables: a sync is *calm* when no package
changed, nothing was dropped, and nobody else committed since it began; `quiet` counts
complete calm syncs since the last disturbance, up to `Enough`, half the number of packages rounded up.

### FileSystem, PackageName and LinkerDirs

A path is the sequence of its names and a file system a function from paths to nodes;
names are strings that are only compared, and "begins with" and "ends in" are constants
(`Starts`, `DotNew`). `Clean` is a path without its empty names, `Unslashed` one without those at its end, as `dirname` and `basename` see it, `Chased` what `realpath` makes of
it in up to `MaxLinks` steps, each of which replaces the first link on the way (`Redirect`), and
`Landed` whether that led to something that is there. `IsFileSystem` is what is taken for granted
of the nodes: names that are not empty, and that everything above a node is a directory. `MakeRealPath` leaves a path that does not resolve as it is, type
included, which three of the callers do not expect. `Details` has the cases in which
`rfind` returns `npos` and the arithmetic wraps. `LinkerDirs` has both readers of
`ldconfig -p`: `fgets` stores a line into a buffer that is then searched as a whole, so
the arrow of an earlier, longer line may be found behind a shorter one (`Arrows`).

### ElfReader, ElfFile and PkgLoad

An image is a record of what lies where; `cut` units are missing at its end, and each read
is good or not according to that. Only what `ElfFile` calls of the vendored elfio is modelled:
header, sections, segments, dynamic section, strings. `PkgLoad` loads a package step by step,
one line of a list or one entry of a directory at a time, and `Vanish` removes a
file, or a directory with all it holds, between any two of them. A directory that is opened as a list, which
`createNewSyncData` asks for if the packages' directory has one of its own, is never read to its end: `endless`. A name in `incoming/` is looked for
where it belongs unless it ends in `.new`: `NothingMissed` leaves those out, as the comment at `pkg.cpp:227` does.

### CacheTables, Reports and LinkerSearch

Operators. A table is the set of its rows; `DeletePkgs` and `DeleteDynLinked` are the triggers,
`Insert` a statement that was prepared by its `sqlid`. A nullable column is the set
of its value, so a comparison with NULL is a comparison that cannot be true.
A report is a set of lines, a line the set of the names it joins. `IndexPkg` and `DelByFullName` take a set of packages or names:
no statement that inserts or deletes looks at rows of another package. Of `DirOrder`, the order in which sqlite returns
the library directories, only the type is assumed.

### LibraryCache

`doSync` with its thread for the library directories, over packages that bring libraries,
links and directories with them, an editable `/etc/ld.so.conf`, and a linker's cache
that follows. `moved` is the history variable that matters: the packages that were indexed before a
directory or a link has moved.

The packages are constants. `WorldAssumption` says that what they put together is a file system, on whose
shared paths they agree, `FilesAssumption` that their files can be counted and read, and `RunPathAssumption` that a run path
leads to no regular file. The last one was found by the proof: `mkRealPath()` gives a run path that is the name of a file
as readily as one that is a directory, and when such a file came or went rows would be stale without a directory
or link that has moved.

### OpenCache, Log, Lookup, DependencyTree and CommandLine

`OpenCache` keeps the tables of every file there has been and which of them the name stands for:
`remove()` takes the name, and who has the file open keeps it. `Log` has the message of each thread, the pieces a stream
hands to the writer of its channel, and the writer that copies them unit by unit under its mutex; `Lookup` the two threads
whose messages these are; `DependencyTree` the stack of calls
of `printElfs`, one step for each needed name, up to `StackLimit`, beyond which the process has no more
stack. `CommandLine` composes them with `AppArgs::parse` and `AppCli::run`, one action for
each step between two exits. An exit code is "0" to "3" or "33"; "abort" is an
exception nobody catches, "signal" a read of the first element of an empty vector or the
end of the stack. Assertions only log, as in a
build without `DEBUG`, so a package that cannot be loaded is gone on with, and exit code 4 needs a directory
that vanishes, which only `PkgLoad` has. `doSync` is one step here, `SyncDb`, the modules above take it apart: `Synced` where it
returns; where it throws, without `/etc/ld.so.conf` or a directory of packages that can be listed (`CannotSync`), a new database has
its schema and nothing else.

## What the runs check

| run | bounds | shows |
|---|---|---|
| `job` | 2 pushing threads, 3 messages, each pushed once, one vector of two; fair | mutual exclusion of the task, no lost wakeup of a push, no message lost or doubled, all processed when `stop()` returns; messages are processed, and `stop()` ends unless its notification was missed |
| `update_index` | 2 producers; a removed, an updated, a reinstalled package; loads that may fail; fair | each todo carried out once, one row per name, the commit complete and atomic, pushes dropped only before the worker starts; it ends unless `stop()` missed its worker |
| `sync_diff` | 7 packages of 2 names, all databases, directories and dates | the assertions of the difference hold where names and full names have the same order; its todos are disjoint everywhere; leftovers are reported where both lists are of one length |
| `cache_sync` | 1 process, 3 versions of a package, 2 changes, 3 installations, 2 seconds, one interruption, rejected pushes | the set of packages recovers from any history in half as many syncs as there are packages, in one where names are in order; a reinstalled package is found, with the three exceptions below |
| `cache_two` | 2 processes, 2 packages; fair | rows are doubled only by processes that overtake each other; the database comes to the packages of the directory and stays there |
| `load_package` | lists of 2 lines over 10 paths with headers of 4 to 6 lines; a directory as a list; a DESTDIR with 3 kinds of links; every dynamic section of up to 3 entries; files cut at 13 lengths; one file vanishes; fair | no ELF file of a list or a DESTDIR is missed, none is half read, run paths are the linker's, loading throws only if a directory went away, and ends but for a directory that is opened as a list |
| `library_cache` | 3 packages in 2 versions each, 3 contents of `/etc/ld.so.conf`, 2 changes, one interruption | rows are those of a new database unless something has moved; the reports agree with each other, `--whoneeds` with the list both ways but for what it reports too much |
| `command_line` | 25 command lines, 5 databases, 10 file systems, a second process, one file removed; fair | what exit code 0 means, complete lookups and trees, which databases are removed, and that every execution ends |

Three todos, one of each kind, and two producers are what the code can distinguish: there
are exactly two producer threads in `cache.cpp`, and with three todos one producer can be a
whole todo ahead of the other while the worker swaps. `createIndex` is the same pipeline without
clearing and without `ANALYZE`; `first_run` and `sync_ends` run it. Three messages suffice for a
message in the task, one in the batch, and one in the queue. Seven packages of two names
let the surplus of one name even out that of another while both sides have
several versions and the two orders differ; with five, assertions hold that do not with seven. Three installations (`MaxInstalls`) suffice for a row that is older than the directory
and hidden by another one. Two changes (`MaxChanges`) suffice for a package that is indexed, a directory that
then moves, and a second package that depends on it; one interruption (`MaxCrashes`) may fall
between any two of the three transactions of a sync. One removal (`MaxRemovals`) may
fall between any two reads of one file. `StackLimit` is deeper than any recursion
that ends in these file systems; `MaxLinks` is at least the number of links a path leads through.
`Piece` is 2 and a message has up to three units, so that a message has several pieces, and a piece several units.

`TreeAgreesWithList` and `RequirementsAgree` relate code that does the same three times over: a search through
directories, a selection by soname and directory, and two selections the other way. Each is two directions, and names the excess of the one:
what is in a directory that only a run path with `$ORIGIN` or `$LIB` leads to is in the list and NOT FOUND in the tree; a file whose run paths are none, or one that is not there or is the linker's, is said to need
a library of the name that is outside of the linker's directories (`AnyDirectory`). `ZeroMeansAnswered`
compares the answer of a run with the one over a new database.

### What does not hold

| run | property | what happens |
|---|---|---|
| `first_run` | `AllIndexed` | packages pushed before the worker thread has set `running` are refused, the result of `push()` is not looked at, and the index is committed without them |
| `sync_ends` | `SyncEnds` | the notification of `stop()` falls between the worker's test of `newData` and its `wait()`; the join never ends and nothing is committed |
| `diff_sizes` | `SizesMatch` | the assertion at `cache.cpp:394` fails; without it the loop reads beyond the end of a vector |
| `stale_rows` | `AnswersAreFresh` | a program is indexed while the directory of its run path is not there: `lddir` is NULL for ever, and a library that comes there later is reported as not found |

What the properties leave out, because the code does it differently:

- The order of names breaks the second assertion on updates, at `cache.cpp:401`, too: when
  `foo-1-x-1` and `foo-bar-1-x-1` become `foo-r3-x-1` and `foo-bar-2-x-1`, packages of
  different names are made a pair, since updates are paired by position. When two versions
  of a package come at once, in place of one, a sync indexes one of them and reports it as a
  problem; it is the other one that the next sync finds (`LeftOverIsReported`, `SettlesInEnough`).
- `AssertionsHoldInOrder` leaves out surpluses that even out: with `foo` in one version more and `foo-bar`
  in one less than was there, the totals are equal, nothing is taken out, and packages of different names are a pair.
- A surplus that is taken out of one list may take a package of another name out of it: `LeftOverIsReported`
  speaks of lists that are of one length afterwards. Each sync brings at least two packages into sync, or
  all there are (`SyncProgresses`), so that half as many syncs as packages always suffice, and fewer may not.
- `ReinstallsAreFound` leaves out a package reinstalled within the second of the latest
  stamp (it is not later than it), during a sync (it may be read before and stamped after it was
  reinstalled), and one whose push was refused: a package that was accepted may hide it for ever.
  Whatever is found by no later sync is of one of these kinds.
- `dynlinked.dirname` goes stale as `lddir` does, when a directory becomes one of the linker's or
  ceases to be one: the packages in `moved`.
- An RPATH that follows a RUNPATH is appended, against the comment at `elffile.cpp:146`: the linker's paths are the first ones then, and
  not the only ones (`PathsAreTheLinkers`). An empty path ends a list of paths.
- `LoadEnds` leaves out a directory that is opened as a list of files: `getline` leaves a stream that is bad and never at its end
  (`pkg.cpp:274`). The lookup reads the lists in the same way (`report_lookup.cpp:99`).
- `DrainedAtReturn` speaks of the moment of the drain: a push that passed the test of `running` before may come after it. In the
  cache it cannot, as the producers are joined first (`CommitsAllAccepted`).
- The tree computes the paths with `$ORIGIN` and `$LIB` replaced (`report_bdtree.cpp:198`) and searches the paths as they were.
- A library found under a name that is not its soname is not recognised as a cycle, and the recursion may end with the stack, which
  `RunEnds` counts as an end. `TreeIsComplete` says that only such a library makes an ELF file come again below itself; that nothing is left out
  behind a cycle it says where all names are sonames (`WellNamed`).
- A file without run paths, or with one that is NULL, is reported to need a library of the name
  wherever that is (`report_whoneed.cpp:67`): `--whoneeds` reports too much, and `RequirementsAgree` says how much.
- `CompatibleRemovedOnlyIfOvertaken` exempts what its name says: another process has replaced the file between the look and the removal.
- `--ignore` compares names, not the full names the help promises, and the plain list of
  `--whoneeds` does not look at it. `--require` sets a flag nobody reads.
- Without a cache directory the program ends before `main()`, `--help` included. An exception of the thread for the linker's
  directories, without `/etc/ld.so.conf`, ends the process; so does a package name without dashes
  where a list is printed, or an update summed up.
- A file that is no ELF file by the time it is loaded leads to the first element of an empty vector
  in `--whoneeds`, `--bdtree` and the list; so does a C library that needs nothing, in the tree.
- `openCache` does not look at the version of what it opens after a removal, and a minor
  version of 100 or more counts as a major one.
- `LogInfo` and `LogMsg` have a mutex each for the same standard output: the newline `fileInPackages` ends with may
  part a message of the thread that is still searching. `LookupComplete` speaks of the pieces of one channel.
- With `--ldd`, a link that leads nowhere is resolved again and again (`InLoop`).

## Fairness

`JobFairness`: weak fairness for the worker's steps, for those of a `stop()` in progress and for
the visibility of its store (an atomic operation or `join()` follows it); strong fairness
for a thread inside `push()`, whose only obstacle is the mutex, which a worker that wakes
spuriously again and again would otherwise keep from it. Nothing is assumed of spurious
wakeups, exceptions or calls. `IndexPipeline` adds weak fairness of the producers and of
the main thread: threads that can run are scheduled. `CacheSync` assumes in its liveness run
that sbbdep is run again and again, that interruptions end (their number is bounded), and that
not every run refuses pushes (`Drops` is off); without the last, no sync needs to get any
further than the one before it. `MCLoad` and `CommandLine` have one process that is scheduled: it stops for
good or takes steps again and again. That is weak fairness of its steps written out; that a step is enabled
until it stops is what the deadlock check shows. Nothing is assumed of the other process, or of files that are removed.

`StopEndsUnlessMissed` and `EndsUnlessMissed` name the one way in which the program can wait for ever
(`MissedNotify`); `sync_ends` shows that it exists.

## Proofs

`IndexPipelineProofs` begins with the job, for any set of pushing threads, any messages and any vectors (the only
assumption is `VectorsAssumption`, their type). `JobInvariant` is inductive and is a conjunction of named
parts: the types and the mutex discipline; which control points of the owner go
with which of the worker (the worker has exited once it is joined); what is accepted is
what is processed, in the batch, or queued, in that order; a set `newData`, or a caller about to
notify, wherever messages wait beside a worker that waits. The properties are
not inductive alone: `NoLostPush` needs to know when `newData` was reset, and
`DrainedAtReturn` needs that no batch is left when the worker has exited.

Then the pipeline, for any todos and any number of producers, from `PipelineAssumption`.
`PipelineUsesJob` shows that each step of the pipeline is a step of the job's specification, a
call its client may make or a stutter, so that every theorem on the job carries over. The
invariant on top relates the main thread's control point to the owner's and the producers':
producers are done before the stop, pushes are through before the producers are done. From
it follow that pushes are refused only before the worker starts, that a worker nobody
joined has accepted nothing, that the task runs in the transaction only, and that at the
commit everything accepted has been processed.

Its last part, from the same assumption: `IndexPipeline` implements `AtomicIndex`. `IndexInv` adds
to the pipeline's invariant where each todo is: not picked yet, in the hand of one producer, accepted
once, or refused, and nowhere else (`HandInv`). `DbInv` follows: the rows in the transaction are `DbAfter` of what
was processed, and what is stored is as it was until the commit, then as after all that was accepted. The step that needs
most is `JobRuns`: the rows after one more todo are `DbAfter` of one more, because no other todo has to do with its names
(`ProperTodo`), and what is processed is the beginning of what was accepted (`Conserved`).
`IndexOneRow` and `IndexCommitsAllAccepted` are read off.

`SyncDiffLemmas` and `SyncDiffProofs`, for any finite set of packages, any names, database and
directory. `SortedEnumerates`: a set read in order has each element once. `NameDiffIsPart` and
`NameDiffCounts`: what the merge gives is part of its first range, each element once, at least as long as the one
range is longer than the other, and shorter than its range if the greatest names of both are the same. Nothing more is known of a
merge over ranges that are not sorted its way, and it suffices: the lists of the difference are part of
disjoint sets (`DiffParts`), so todos are disjoint and clear what they install; and one pair
at least is made where there is anything to pair (`SomePairIsMade`), so a sync brings two packages into sync or
leaves none behind (`SyncProgresses`).

Where both ranges are in the order of names more is known. `NameDiffNames`: the difference is in order, and has of every name as
many as the first range has more than the second one. The merge counts (`MergeNames`): of every name what was put out is
the surplus so far, and a name of which one range has had more than the other is behind the next element of the other. So a filter leaves of every name
the smaller number (`FilterNames`), on both sides, and sequences in order that have as many of every name have
the same names one by one (`SameNames`): `DiffAssertions`, both assertions of `createUpdateSyncData`. And
what stays out of sync is never the only package of its name (`LeftOverIsNotAlone`).

`CacheSyncProofs`, for any packages, any number of processes, changes, interruptions and seconds.
`SyncDoublesOnlyIfOvertaken` needs that a process that is not overtaken has todos that clear what they
install (`OvertakenInv`). `SyncFindsReinstalls` follows a package whose row is of an earlier installation
(`Stale`): it is later than every stamp, so every sync that reads stamps before it lists the directory finds it, every load gets its
last installation, and so it is not stale after a calm sync (`FreshInv`). `SyncSettles` counts: `QuietInv` says that twice
`quiet` and the packages that are out of sync are together no more than the packages there are, `CalmInv` that
in a calm sync the todos are still those of the difference, and `SyncProgresses` does the rest.
`SyncOnceIsEnough` is the same commit with `LeftOverIsNotAlone` in its place: `UpdatedInOrder` gives the order it asks for.

`FileSystemLemmas` and `PkgLoadProofs`, for any file system (`IsFileSystem`, and files that consist of lines, with images that
declare their sizes: `HaveContents`), any path that is asked for and anything that is removed meanwhile, from `PkgLoadAssumption` and `MaxLinksAssumption`.
`LoadInv`: each directory on the stack of the walk has no link on its path, and is still there or something above it
was removed. That needs what `lstat`, `realpath` and `opendir` have to do with each other: what `lstat` calls a directory is one
where `realpath` leads to (`LstatIsDir`), since the last name of a path stays as it is while the links before it are replaced
(`AppendChase`). `ListInv`: until something is removed, what was read of a list behind its "FILE LIST:" is among the files.
That the file a line leads to is the one that is in place is `ChecksInPlace`. The theorems hold for the specification
of `PkgLoad` begun in any such file system; `MCLoad` begins it in some.

`LoadFindsEach` counts (`WalkInv`): how often an ELF file is among the found ones, and whether it is still to come in the
walk under way (`Pending`), make together the number of directories above it that have been walked or are being walked. A file is pending
if it is in the rest of a directory on the stack or below a directory that is. That this is at most one of them is where
`IsFileSystem` comes in: what is below two directories, one entry of each on the stack, is below the deeper one. Directories
that are walked are those `opendir` opens, so links in front of them count (`Chased`), and links below do not.

`LibraryCacheProofs`, for any packages, versions, contents of `/etc/ld.so.conf`, any number of changes and interruptions,
from the four assumptions of `LibraryCache` and `DirOrderAssumption`. `LibraryInv` has three parts. `Keyed` in `TypeInv`: a package has
one row, and what is below it has its name in its key, which is what the triggers go by; without it a cleared
package could leave rows behind. `SyncInv`: while a sync is calm, its directories are those of the linker and its todos those of the
difference, and after it the database has the versions that are installed. `RowsInv`: the rows of a package that has not moved are those
that are made of its version in some system with the same directories, links and linker's directories (`Places`) as now; a
change either keeps `Places`, so the same system serves, or puts every indexed package into `moved`. `SameRows` does the rest: in two systems with the
same places a version of a package has the same rows. Its file is in both, since packages agree on what they share; a link
leads to it in both (`SameLinkedFrom`) or in neither; and a run path leads to the same (`SameRealPath`), as no file is on its way.
`StaleOnlyIfMoved` compares the rows with those of `Fresh`. `NeededIfRequired` needs that the rows are right at all: `elfdeps()` resolves the
run paths of the file that is asked about anew, while `whoneeds` takes what its rows say, so that a package with stale rows may be found to require
what it is not found to need (`RequiredNeeds`). `RequiredIfNeeded` is the way back, and the two are `RequireAgreesWithWhoNeeds`: a row of `dynlinked` is that of one ELF file, whose
needed names and run paths are all there is below it (`RowsOfElf`), so that a directory a query compares with is one `elfdeps()` searches.

`CommandLineProofs`, for any command line, any package lists, any number of them, any buffer of the log, and any files that
are removed in between. `LookupIsComplete` is about the two threads of a lookup. `LookInv` says who has which list: `HandInv`, that no list is in two hands and those up to
the picker's position are in one or through; `ListInv`, that a list that is through has been complained of, or what was written about it
and what is left of its message are together its matches, unit by unit and in order; `PieceInv` and `WriterInv`, that the writer of a channel
is in one piece at most, which is why no piece is parted by another; `MatchInv` and `LastInv`, that the last words are said if
and only if nothing was found. What is asked of the lists is that those that are there can be read (`ListsHaveLines`).

`OpenRemovesOnlyIncompatible`, for any number of processes and any tables in the file there may be. The property speaks of
the moment of a removal; what makes it hold is that the tables a process has found to be of another version
stay so until then (`RemoversSawOther`), because nobody else can give a version to a database that has one, and a
file that is made anew takes a place of its own. `FilesOK` adds that who is past the start has a file open.
The other processes' syncs are in it as far as they touch the version: `OthersSchema`.

The theorems on induction of the library have an operator as parameter. What is needed of them here is got from
one that has none: a set of numbers that is not empty has a least element (`WFMin`), so a set that
has 0, and each successor, is all of them (`SetInduction`, `CountedUp`). That suffices for the merge, for
`realpath` and for `Clean`, which are recursive functions over an interval.

Only model-checked: all liveness, which the prover does not reach. `ReadWhole` and `PathsAreTheLinkers`, which speak of the images of
`MCImages` and of a search that is written for them. `TreeAgreesWithList`, which is true of libraries whose files are named as their sonames and
not of any others; `ZeroMeansAnswered`, which compares with the answer of a new database, and so depends on the databases of earlier
runs that `MCCommandLine` begins with. `TreeIsComplete`, whose reference is a fold over rounds.

## Not modelled

Of elfio what is not called: writing, symbols, relocations, notes, dumps. The help text, abbreviations of
options, wording and layout; what is logged outside of a lookup. The tables `keyvalstore`, `ldlinks` and `ldusrdirs`, which nothing reads. Relative run
paths, which `realpath` resolves against the working directory. The ld_sim tool,
the tests, the build and the packaging.
