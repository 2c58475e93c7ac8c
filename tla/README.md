# A verification development for ZippyNFS

TLA+ modules of ZippyNFS, a single-server NFS in Rust with a FUSE client, the
TLC runs that check them, and theorems that TLAPS proves. Paths are relative to
the repository; `mod.rs` is `server/src/handler/mod.rs`, `counter.rs` is
`server/src/handler/counter.rs`, and `client_fuse.rs` is
`client/src/bin/client_fuse.rs`.

    tlc -workers 2 -config ns_conc.cfg MCNamespace     # one run
    tlapm NamespaceProofs.tla                          # one module of proofs

## 1. The system

An NFS file with FID `f` and name `n` in directory `d` is two files of the
server's file system, the *numbered* file `.../d/f` and the *named* file
`.../d/f.n`. It exists when both are there together; there is no recovery code.

| Component | State | Operations | What is hard | What makes it correct |
|---|---|---|---|---|
| FID counter (`counter.rs`) | a memory-mapped number, a mutex | `fetch_inc` | threads; a crash between add and flush | a number is never returned twice, epochs grow |
| Locks (`mod.rs`) | `fid_cache`, `async_bufs`, `name_lock`, the counter's mutex, one per buffer | taken and dropped by each handler | nested read locks; three kinds of lock in different orders | nobody waits in a circle |
| Name space (`mod.rs`) | numbered and named files; `name_lock`, `fid_cache` | lookup, getattr, create, mkdir, remove, rmdir, rename, readdir | handlers are many system calls, and ten workers interleave; crashes, power failures with unsynced directories; stale paths and cache entries; panics | files come and go only where a request says; unique names; no file lost; cache and disk agree; no name locked for ever; what was acknowledged survives |
| Unstable writes (`mod.rs`) | `async_bufs`, `epoch` | write, commit | retried requests that overlap; failures half-way | what was committed is on disk |
| FUSE client (`client_fuse.rs`) | `server_epoch`, `async_bufs` | write, flush, fsync; the other callbacks send one RPC each, read and readdir one per part or page | server restarts, broken connections, `do_with_retry` repeating what was done; directories that change while they are listed | no acknowledged write is lost, fsync is durable; retries do no harm; listings are complete; every callback returns |
| Stable writes, read, setattr (`mod.rs`) | file contents, `tmp` | write, read, setattr | writers side by side, power failures, races with rename and remove | a write is atomic and durable, a removed file stays removed |
| Server process (`main.rs`), protocol, CLI client, benchmarks | none of interest | | | |

Interaction: the client calls the server by RPC, one call at a time; up to ten
workers serve calls and share the locks above; the counter gives FIDs to create
and mkdir and, once per start, the epoch that is in every reply to a write or
commit. The hazards of the code are listed in `PROJECT.json`, each at its line,
with the properties that are about it.

## 2. Modules

| Module | Role |
|---|---|
| `FreshIds` | abstract: numbers are handed out in increasing order |
| `FidCounter`, `MCFidCounter`, `FidCounterProofs` | the counter; it implements `FreshIds` |
| `NfsTree` | abstract: links (directory, name, file), each operation one step |
| `Namespace`, `MCNamespace`, `NamespaceProofs`, `NamespaceAtomicProofs` | workers on the server's files; its visible links implement `NfsTree` where the code keeps that promise |
| `WriteProtocol`, `MCWriteProtocol`, `WriteProtocolProofs` | client and server of unstable writes |
| `Storage`, `MCStorage`, `StorageProofs` | what the handlers leave on stable storage: syncs, power failures, contents |
| `FuseClient`, `MCFuseClient`, `FuseClientProofs` | the other callbacks of the FUSE client, and a server that executes one request at a time |
| `ServerLocks`, `MCServerLocks`, `ServerLocksProofs` | who holds and who waits for which lock |
| `FiniteNumbers` | lemmas about finite sets of numbers, for the proofs |

How they fit together: `FidCounter` justifies the plain counter of `Namespace`,
`Storage` and `FuseClient` and the growing epochs of `WriteProtocol`.
`Namespace` shows when a handler's many steps amount to one step of `NfsTree`.
The server of `FuseClient` has the same files and the same answers, without
other workers; it can die inside a handler. `Storage` takes the handlers
of `Namespace` again, with fewer searches and no directories that move, and adds
the disk. `ServerLocks` takes the locks of all handlers and leaves out the data.

Operators named `X_...` next to an operator `X` (`Flush_BeforeAdd`,
`Taken_Never`) are faulty variants of `X`, used to make sure that each property
fails when the code is wrong in that way.

### FidCounter

`mem` is the mapped page and `disk` stable storage. `Acquire`, `FetchAdd`,
`Flush`, `FlushFails` and `Return` are the steps of `fetch_inc`
(counter.rs:36-50); `Return` also ends `ZippynfsServer::new`, which draws the
epoch (mod.rs:92) before any worker runs. `Kill` keeps the page (the mapping is
shared), `PowerFailure` does not; the kernel may `WriteBack` at any time.

### Namespace

| Variable | Code |
|---|---|
| `numbered`, `named`, `dirs` | the server's files: parent of each FID, the `d/f.name` files, which FIDs are directories |
| `nextFid` | the counter, as far as FIDs go (epochs are drawn from it too, which only leaves gaps) |
| `cache`, `nameLock`, `poisoned` | `fid_cache`, `name_lock`, and whether a panic has poisoned `fid_cache` |
| `job[w]` | where worker `w` is in its handler, and what it has found: two paths, a FID, mappings for the cache |
| `live` | history: the files created and not removed |

The steps of each handler, in order (failures in brackets):

    getattr        FindSrc [NotFound] Extend
    lookup         FindSrc [NotFound] Extend ByName [BadName]
    create, mkdir  FindDst [NotFound] Extend Lock [LockRefused]
                   Check [NameTaken, CheckPanics] MkNumbered MkNamed
                   [MkNamedFails] SetAttr [SetAttrFails] CacheIns
    remove         FindSrc Extend ByName Unlink [UnlinkFails]
                   DropNamed [DropNamedPanics]
    rmdir          the same, with CheckEmpty [NotEmpty] before Unlink
    rename         FindSrc Extend FindDst Extend ByName Lock Check MkNamed
                   [MkNamedFails] Move [MoveFails, MovePanics] DropOld

`ExtendPanics` ends a request whose search found a file before another worker
poisoned the cache. What rmdir sees in the directory (`CheckEmpty`, mod.rs:576)
and whether rmdir(2) accepts it (`Unlink`) are two looks at it, with the other
workers in between.

A path is the sequence of numbered directories it goes through, so a path that
was found and then moved away fails to resolve, as it does in the code. What is
one action and why:

- A search by FID (`Found`): the guard in `if let Some(..) = fid_cache.read()...`
  (mod.rs:218) lives to the end of the `else` branch, so the read lock is held
  throughout recursion and search on disk. Files are moved only under the write
  lock. Creations and removals in between add or take away one leaf, so that
  what the search returns was right at some moment in it. Its mappings go into
  the cache in a second action, `Extend` (mod.rs:244), after that lock is gone.
- A scan of one directory, as if `read_dir` were a snapshot.
- `DropNamed` and `Move`, which hold the write lock of `fid_cache`.

A panic ends the request and leaves what the worker had locked: a name in
`name_lock` stays, `fid_cache` is poisoned if it was locked for writing. A
search around a cycle of the cache uses up the stack and aborts the process
(`Overflow`). A crash clears the memory and keeps the disk.

Names are patterns (mod.rs:262 does not quote them), and four constants say what
becomes of each. `Like` is which names it matches; `f.o` matches `foo`.
`NoPattern` are the names on which the search panics at once, as it does on the
empty one (mod.rs:255) and on `a(`, which is no regular expression. `NoGroup`
are the pairs where the pattern matches a file without catching its number, as
`a|o` matches the end of `4.foo` (mod.rs:271 unwraps the number). `NoFileName`
are those the host creates no file of, too long or with a slash. Only `ns_seq`
has such names; the other runs have plain ones. Likewise `refused` is a request
whose attributes `fs_set_attr` cannot set: a directory gets no size, a file none
that is too large (mod.rs:366-372).

### WriteProtocol

The client is a loop: `AppWrite` and `AppFsync` start an operation, `Call`
makes an attempt, `CallFails`, `CallLost` and `Break` are transport errors, and
a reply leads on (`WriteReply`, `LastWriteReply`, `CommitReply`,
`CommitReplyNewEpoch`, `ErrorReply`). After `MaxTries` (MAX_TRIES is 5 in the
code) the operation fails with `GiveUp`; the back-off only takes time. On the
server `Get`, `Insert`, `Push` are an unstable write; `Take`, `LockBuffer`,
`Copy`, `Rename` a commit. Buffers are heap objects that a worker can hold after
they have left the table, as the code's comment at mod.rs:1242-1246 says. A
broken connection does not stop the worker that serves it. The reply is
produced by the step that decides it, and a reply of a crashed server is lost.
Writes carry their number, so that a block shows which write it holds.
`NewEpoch` adds one: `FidCounter` shows that a new epoch is newer, and only the
order matters here.

### Storage

`disk` is stable storage, `log` the updates of directory entries that the volume
has not made durable yet, in order; system calls see both (`View`). `Fsync(d)`
is `sync_all` on a directory: its updates become durable, with those they depend
on. A `PowerFailure` keeps any of the updates as long as, of two that touch the
same entry, the second is not kept without the first. rename(2) is one update of
two entries, which the repository's README assumes of the volume. Contents are
two blocks per inode, each the number of the write it holds; blocks that are not
synced may be lost one by one. There is no recovery: `Restart` clears memory.

    create         Claim MkNumbered Sync MkNamed Sync SetAttr
    remove         Resolve Unlink SyncUnlinked DropNamed SyncDropped
    rename         Resolve Claim MkNamed Sync Move SyncMoved DropOld
    write, commit  Find Copy OpenTmp Fill Fill SyncTmp Replace
    read           Find Open ReadAt

A stable write and a commit run the same steps from `Copy` on (mod.rs:667-688
and 1267-1293); which writes a commit has is in `WriteProtocol`. `promised`,
`gone`, `live` and `acked` are what clients have been told: a link is in
`promised` from the reply to the create or rename until something starts to
change it.

### FuseClient

`Start` is a callback; `Send`, `Refused`, `Failed` and `GiveUp` are
`do_with_retry`; `Execute` is a handler of the server from its first check to
its answer. `numbered` and `named` are the server's files, as in `Namespace`,
and `Steps` the states after each system call of a handler; a `Crash` while a
request of this or of another client is executed stops after one of them
(`Cut`), so that a named file may stay without its numbered one, or a file may
keep two names of one directory. Files are found by patterns here too: `Like`
matches, and the file that is unlinked is the one that was found, while the name
that is dropped is the one that was asked for (mod.rs:572, 594, 1092).
`Break` loses the request or the reply to it. `Receive`, `ReceivePart` and
`ReceivePage` are what the callbacks do with the reply: most pass it on, read
asks for the next part, readdir gives as many entries to the kernel as it takes
and the kernel comes back with the cookie of the last one. `Other` is the other
clients, such as the command line client.

A request is executed or dropped before the client sends it again: it backs off
for at least a second, and a handler takes milliseconds. (`WriteProtocol` does
without this assumption, and shows what goes wrong.)

### ServerLocks

A handler is a table of steps *<<from, take or drop, lock, to>>*; a step that
depends on data (is the name free, did rename(2) fail) is two rows, either of
which may be taken. The searches come first: `Descend`, `ReadCache` once per
directory of the path, `Return`, which drops all the read guards, `Extend`. A
request that ends by an error or a panic with its name locked goes to `idle`
straight from there.
`WriterFirst` says whether a writer that waits keeps readers out.

## 3. Runs

Bounds are in the `.cfg` files. `CHECK_DEADLOCK FALSE` everywhere, since every
run ends when its requests, writes or numbers are used up.

Runs that pass:

| Run | Instance | Checks |
|---|---|---|
| `fid_counter` | 3 workers, 6 numbers, 2 crashes | `CounterInv`, `EpochNewest`, `ReturnsFresh` (the refinement of `FreshIds`) |
| `ns_seq` | 1 worker, 4 of 19 requests, 1 crash, 2 directories, files and directories moved both ways, names that match others, are refused or make the search panic | `NoLeak`, `CacheSound`, `NeverPoisoned`, `Findable` |
| `ns_conc` | 2 workers, 4 of 6 requests, 1 crash; files move one way between fixed directories | `NamesUnique`, `Findable`, `AtomicTree` |
| `ns_dirs` | 2 workers, 4 of 9 requests, 1 crash; directories move into each other, with a file aside | `TypeOK`, `LockOwned`, `TreeInv`, `OnlyAsked` |
| `wp_epochs` | 1 file of 2 blocks, 1 worker, 3 writes, 2 fsyncs, 2 crashes | `NothingLost`, `FsyncDurable`, `Resendable`, `NeverBack` |
| `wp_broken` | 1 file, 2 workers, 2 writes, 2 fsyncs, 2 broken connections, 1 crash, 1 failing commit | `ProtocolInv`, `FsyncReturns` |
| `st_power` | 2 workers, 4 of 7 requests, 1 kill or power failure, 2 directories, 2 files to start from | `StorageInv`, `Survives`, `Gone`, `Existing`, `AtomicWrites`, `WritesSeen` |
| `fuse` | 3 of 13 callbacks, 1 request of another client, 1 crash, 1 broken connection, 2 tries, pages of 2 entries, parts of 2 bytes, one name that matches two files | `ClientInv`, `AtMostOnce`, `AnswerTrue`, `ListingComplete`, `ReadExact`, `OpReturns` |
| `locks` | 3 workers, 3 requests of any kind, paths of 2 directories, readers overtake writers | `NoCircle`, `Drains` |

Why these bounds are enough to be interesting: every race of two handlers needs
two workers; the longest scenarios found (rename, rename back, a look-up between
them) need three requests, and four leave one to observe the damage; one crash
can fall between any two steps and the requests left run on what it left
behind. Two crashes let a crash interrupt the resending that the first caused.
In `st_power` four requests let two run beside each other, with one before that
made the file and one after that sees what is left; in `fuse` three operations
are what it takes to list the directory in pages and see a change in between, or
to run into what a crash has left. In `locks`, a circle of workers is one of
requests that run at the same time, so one request per worker is enough; the
circle in which a writer waits between two readers is that of `WriterFirst` (see
Variations), and the run has readers overtake writers. `st_power` is checked up
to a swap of the workers, who are alike. All actions of each module are taken in
its passing runs.

`ns_seq` says that a worker by itself keeps locks, cache and disk in agreement,
but for the names that `LeavesLocked` lists (names are not unique even then,
once a crash has left junk: see Variations). `OnlyAsked` in `ns_dirs` is about
paths and kinds that a handler looked up and that others then change: a
directory that gets a file after rmdir has looked into it must not go with the
file, and no file is made or removed in a directory nobody named. `ns_conc` says
what concurrency is safe in: creates, removes, look-ups and renames as long as
no file returns to a directory it has left. `st_power` says that the directory
syncs are where they have to be for all that creates, removes and renames
promise, as long as a rename goes to another directory. Outside these, the code
breaks promises that the repository makes, and these runs show how (each finds a
counterexample):

| Run | Property | What happens |
|---|---|---|
| `ns_vanish` | `Findable` | rename A→B is paused before mod.rs:1092; B→A completes; the paused one deletes the new name, and the file is gone |
| `wp_files` | `FsyncDurable` | one epoch for all files, resending per file: another file's writes are never sent again, and its fsync succeeds |
| `st_writes` | `DurableWrites` | the rename at mod.rs:1293 (and 688) is not followed by a sync of the directory; after the reply a power failure brings the old contents back |

### Variations

Variations of these instances show more of the kind; they are not runs of their
own:

- `ns_vanish` with one worker, `Requests <- ReuseRequests` and a crash:
  `NamesUnique` fails. A crash in rename A/foo→B/foo leaves A's `f.foo`
  (mod.rs:1092); a new A/foo; B/foo→A/bar brings `f` back: two files called foo.
- `ns_vanish` with `Requests <- CreateRemoveRequests`: `NoLeak` fails. A file is
  removed between the creation of its named file and `fs_set_attr` (mod.rs:531);
  create panics with the name locked.
- `ns_vanish` with `Requests <- WatchedRequests`: `NeverPoisoned` fails. A search
  result overwrites a newer cache entry at mod.rs:244; the next rename fails its
  assertion (mod.rs:1082) and poisons `fid_cache`.
- `wp_files` with one file, two workers, no crash and `MaxBreaks = 1`:
  `FsyncDurable` fails. A retried commit finds the buffer taken (mod.rs:1238) and
  succeeds while the first is still copying.
- `st_writes` with `Requests <- SameDir`, two requests: `Gone` fails. A rename
  within a directory changes two entries of it and syncs only before the removal
  of the old one (mod.rs:1091-1092), so that a power failure brings it back.
- `st_power` with `Requests <- WriteMoved`: `Gone` and `Existing` fail. A write
  puts its copy at the path it found before the file was moved (mod.rs:688).
- `st_power` with three workers, `MaxFailures = 0` and requests `Create(B, x)`,
  `Remove(B, x)` and `Write(3)`: `Survives` and `Existing` fail. A write that
  found the new file puts it back after it was unlinked (mod.rs:688), and the
  create is acknowledged before the remove drops the name (mod.rs:531, 594).
- `st_power` with three requests, two failures, and creates and removes in both
  directories and writes of both files as `Requests`, in a module that extends
  `MCStorage` and `StorageProofs`: `SeenInv`, `GoneInv`, `LiveInv` and the
  hypotheses of the theorems about them hold (221,942 states).
- `fuse` without `Clear` in `Undisturbed`: `AtMostOnce` and `AnswerTrue` fail.
  Remove of the name `p`, which matches `x` and `y`, takes away the numbered
  file of one of them (mod.rs:262, 572), reports an error since there is no
  `3.p` to remove (mod.rs:594), and when it is retried takes the other.
- `fuse` without `grows` in `ListingComplete`: removing a file that was listed
  already makes the next page skip one (client_fuse.rs:571).
- `locks` with `WriterFirst = TRUE`: `NoCircle` fails. A search that holds
  `fid_cache` waits for it again behind a writer that waits for the search
  (mod.rs:218).
- `ns_conc` with `Requests <- SameDirRequests`: `AtomicTree` fails, since a
  rename within a directory shows both names in between (mod.rs:1043-1092).
- `ns_seq` with `MaxFid = 5` and `MaxDepth = 5`, in a module that extends
  `MCNamespace` and `NamespaceAtomicProofs`: `AloneInv`, `Rooted`, `OwnLocks`
  and the hypotheses of the theorems about one worker hold (188,765 states).
- `ns_dirs` takes the action `Overflow`: the race of `WatchedRequests`, with
  directories, leaves a cycle in the cache, and the search recurses for ever.
- `ns_dirs` with `Requests <- NoMoves`, `MaxFid = 5`, `MaxDepth = 5` and the tree
  of `NestNumbered` and `NestNamed` (`FirstFree = 4`), in a module that extends
  `MCNamespace` and `NamespaceAtomicProofs`: `AtomicInv`, `FindInv`, `Findable`,
  `AtomicTree` and all hypotheses of that module's theorems hold (519,406 states). It shows that the theorems speak of real behaviors.
- `ns_seq` takes `ByName` with a pattern: remove of `f.o` unlinks `foo`.
- `wp_files` with one file and `MaxFailures = 1`, no crash: a commit that fails
  to copy has already dropped the writes (mod.rs:1233, 1267), and the next
  commit succeeds without them.
- `wp_files` with one file and `MaxBreaks = 2`: resending fails after the new
  epoch was stored (client_fuse.rs:371-372), and the next commit succeeds.

The same property is therefore checked both where it holds and where it does
not; the instance makes the difference, and is named in `about`.

Fairness (`FairSpec` of three modules). `FsyncReturns`: the client goes on
retrying (`do_with_retry` is a loop), a worker that has a request runs on, and a
crashed server is started again, which the benchmark scripts do. Crashes, breaks
and failures are bounded, as they are not fair: with an epoch that changed each
time the loop of `commit` would not end. `OpReturns`: the client goes on, and a
server that is up executes what it gets; nobody need start a crashed server
again, since the tries run out. `Drains`: the scheduler runs each thread that
can run; that locks are handed out fairly is not assumed, as only so many
requests come. No fairness is assumed of the application.

## 4. Proofs

Each theorem holds for every value of the constants that satisfies the
assumptions of its module: any number of workers, files, requests, crashes. The
assumptions say what the constants are, and what the state is that the server
starts from (`TreeAssumption` of `Namespace` and of `FuseClient`: no file holds
the root, FIDs not issued yet are not in use, every directory that is referred
to exists and, in `Namespace`, no directory is in itself). It holds of the
directory that `init_root` makes, and `TreeInvariant` shows that the server
leaves such a tree behind whenever it dies. Further hypotheses are named, and
stated in the theorem. All but `AllNamed` and `DeepEnough` (see below) are there
because the code fails without them, as the runs and variations above show.
Exceptions that depend on the state are in the property: `LeavesLocked` in
`NoLeak`, `Undisturbed` and `Half` in those of `FuseClient`.

| Theorem | Establishes | Hypotheses |
|---|---|---|
| `CounterInvariant`, `EpochIsNewest`, `CounterImplementsFreshIds` | `CounterInv`, `EpochNewest`, the refinement of `FreshIds` | |
| `TypeCorrect`, `NamesAreOwned`, `TreeInvariant`, `ChangesAreAsked` | `TypeOK`, `LockOwned`, `TreeInv`, `OnlyAsked` | |
| `NamesStayUnique`, `CacheStaysUsable`, `TreeIsImplemented` | `NamesUnique`, `NeverPoisoned`, `AtomicTree` | `NoRenames`, `Literal`, `CleanStart` |
| `NoFileIsLost` | `Findable` | the same, `AllNamed`, `DeepEnough` |
| `CacheIsSound`, `AloneNeverPoisons` | `CacheSound`, `NeverPoisoned`, renames and all | `OneWorker` |
| `AloneLosesNoFile` | `Findable`, renames and all | `OneWorker`, `AllNamed`, `DeepEnough` |
| `AloneUnlocksNames` | `NoLeak`, renames and all | `OneWorker` |
| `NobodyWaitsInCircle` | `NoCircle` | readers overtake writers, or `MaxDepth <= 1` |
| `ProtocolInvariant` | `ProtocolInv` | |
| `ResendSuffices`, `NoWriteIsLost`, `FsyncIsDurable`, `FileNeverGoesBack` | `Resendable`, `NothingLost`, `FsyncDurable`, `NeverBack` | `CrashesOnly` |
| `StorageInvariant`, `WritesAreAtomic` | `StorageInv`, `AtomicWrites` | |
| `WritesAreSeen` | `WritesSeen` | `NoRenames` or `OneWorker`; `TidyLinks` |
| `NamesStayGone` | `Gone` | `NoRenames`, `TidyLinks` |
| `AcknowledgedSurvives`, `FilesExistOnce` | `Survives`, `Existing` | `NoRenames`, `TidyLinks`, `WritesOld` |
| `ClientInvariant`, `TakesEffectOnce`, `AnswersAreTrue`, `ReadsAreExact`, `ListingsAreComplete` | `ClientInv`, `AtMostOnce`, `AnswerTrue`, `ReadExact`, `ListingComplete` | |

### The arguments

**FidCounter.** `CounterInv` is types; `Exclusive` (whoever is inside `fetch_inc` has
the mutex); `InFlight` (the number being returned is `mem - 1` and newer than
all returned); `Durable` (returned numbers are below `disk`). `InFlight` alone
is not inductive: that a power failure does not undo it needs `Durable`, which
needs that the flush of a number comes before its return, and `Exclusive`, so
that `mem` does not move in between. The refinement follows by one lemma: only
`Return` changes `issued` or draws an epoch.

**NamespaceProofs**, renames and all. `TypeOK /\ JobsOK /\ LockOwned` comes
first: `JobsOK` says what a handler has found by each of its steps, and the
entry of `name_lock` is computed from it. `TreeShape` needs `Acyclic`, which is
not in the code: rename(2) refuses to move a directory below itself, and only
because of that every directory has a way up. `TreeShape` also needs the rest of
`TreeInv`: a FID that is not issued is used nowhere, or a new file might close a
circle; and what `remove` will unlink is still no directory, though its kind was
looked at before (mod.rs:952), as kinds do not change and FIDs are not used twice.
That the files are a tree is what the host's system calls guarantee, and is
there for the other proofs, not as a property. `ChangesAreAsked` is about the
handlers: `AllAimed` says that the paths they hold end in the directories of the
request (a path that no longer leads there fails to resolve), so that whatever
moves, each step that makes or removes a file does it where it was asked to;
and that rmdir(2) takes nothing along, since it refuses what is not empty.

**NamespaceAtomicProofs**, without renames. `AtomicInv` says what the handlers
rely on between their system calls. `Known`: who has found a file can be sure
that it has its name or is gone again. `Making` and `NameFree`: while a name is
locked, the new file has no other name and the name no other file (this is where
the second search and `name_lock` matter, and where uniqueness of paths does:
two handlers lock the same name in the same directory only by the same path,
`PathUnique`). `Leaving`: between the two deletes of a `remove` the old name is
still in the directory, which therefore cannot be removed, so that the `unwrap`
under the write lock never fails. From these `MkNamed` and `Unlink` are the
steps at which the abstract tree changes. For `Findable`, `FindInv` adds that
what is in a directory came there when the directory had its name, so that a
file has named ancestors up to the root; the way up repeats nothing and is no
longer than there are FIDs (`ChainIsShort`, by the pigeonhole principle of
`FiniteNumbers`), so it is among the paths when `MaxDepth` is at least `MaxFid`
(`DeepEnough`: the code has no such bound). `Literal` says that a name which is
a pattern at all matches itself, as a second create must find what the first
one made; `CleanStart` excludes junk that an interrupted rename left.

The second part of the module has renames, and one worker (`OneWorker`): what
the handlers promise when none interferes, wherever the server dies. `AloneInv`
says that what a handler has found stays where it was found, up to the step at
which the handler moves it itself (`Places`, `Subject`), and that a mapping in
`fid_cache` is true of the disk, but for the file whose name a remove is just
dropping (`CacheTrue`). A search may therefore mix cache and disk, and the
assertion under the write lock (mod.rs:1082) never fails. Files are not lost
(`Rooted`) since a rename makes the new name before it moves the file, and the
name that it drops at last is another one: that `Check` found the new name free
excludes a rename to itself. Junk of earlier crashes may lie beside all this, so
that neither `CleanStart` nor `Literal` is needed. `OwnLocks` says that the
names locked are those of handlers in `Owning`, and `StillThere` that what such
a handler looked up is there, so that a search, a creation or an `open` fails for
the reasons of `LeavesLocked` only (`FailureIsKnown`): the name makes the search
panic, the host refuses the file or its attributes, or the rename was into a
file. Those do leave the name locked, each by itself, and every request with
them is in `ns_seq`.

**ServerLocks.** `LocksInv` ties guards to positions: which locks a worker owns
follows from its `pc` (`Guards`). That the tables of the handlers keep this
is checked row by row in `TablesOK`. `NoCircle` then follows since owners of a
lock wait for at most one more, always in the order `fid_cache`, `name_lock`
(unlock_name at mod.rs:1066), and a reader that waits for another read lock is
kept out by owners only. Where waiting writers go first, a reader that asks again
waits for a writer that waits for it; this needs a second directory on the
path, so that the theorem asks for `MaxDepth <= 1` in that case, and the
variation with `WriterFirst` shows the circle.

**WriteProtocol.** `ProtocolInv` covers all failures: shapes of jobs, and that
the client knows no epoch newer than the server's, so that the assertions of
client_fuse.rs:291 and 358 hold. `Resendable` is for
`CrashesOnly`: one file, no broken connections, no failing commit. It says where
each write is: `Sent` (what was sent in this epoch is in the server's view),
`NotBehind` and `LastIsNewest` (a buffer may hold older writes than the disk
after a crash in `rename`, but then newer ones are still to come), `ColdServer`
(a server that the client has not heard of since it started has nothing to
commit) and `OneCall`. The last is where the code's other failures come in: when
a connection breaks, a second commit finds the buffer taken while the first is
not done, or the client gives up a resend in the middle with the new epoch
already stored; when a commit fails, the buffer has left the table and the next
fsync succeeds without it; with two files, one epoch serves both (`wp_files`).

**Storage.** `StorageInv`: every inode that an entry has on stable storage, *or in the
view*, is whole and synced. The argument is that an entry gets an inode at
`Replace`, after `SyncTmp`, and nobody writes to it from then on: `OwnCopies`
(the copy in tmp is one writer's, by the thread in its name, and no entry's or
reader's) and `Progress` (a copy that is half filled has this write's number in
the blocks before). The updates of the log count as well as the disk, since a
power failure may keep any of them: `AppliedFacts` says that whichever are
applied, in whatever order, an entry gets what some update put there.

The other four theorems rest on what a sync does. `FsyncView`: system calls see
nothing of it, because what it takes from the log is closed under the order of
updates of an entry (`SyncedFacts`) and what it leaves keeps its order
(`WithoutOrder`, from `RankGrows`). `FsyncSettles`: an entry of the directory is
afterwards on the disk as it was seen, and nothing in the log is about it.
Entries are then in a few states that no power failure makes worse
(`FewerKeeps`): `Never` touched; not `Ever` there again; `Put`, there and not to
be taken away; and `Firm`, also on the disk. A sync of the directory makes `Firm`
what was `Put` (`SyncKeeps`).

`SeenInv`, for `WritesSeen`, is that the directories where a file is and where a
write of it goes are one (`OneSpot`), so that the rename of the copy is over the
file; either nothing moves, or nothing runs beside the write. `GoneInv`, for
`Gone`: entries of FIDs not issued were never touched, a removed name is not
`Ever` there, and no remove can have found a file that has no name yet, nor has
a removed name the FID of one (`Unnamed`). `LiveInv`, for the other two: both
entries of a promised link are `Firm`; each step of a create has them as far as
its syncs got, or the numbered one was unlinked, which `SetAttr` then finds;
files that a remove has unlinked are `Dead`; and a file has one place
(`OnePlace`) among the entries that are, or may be after a power failure.
`TidyLinks` is that the server starts from files with issued FIDs, each in one
directory. `WritesOld`, that writes are of files that were there at the start,
is needed for files whose creation is not acknowledged yet: see Variations.

**FuseClient.** `ClientInv` is that visible files are in directories with names
(`TreeOK`), that the reply on its way is true of the tree when the request took
effect (`ReplyTrue`), that a read has the first bytes (`ReadOK`), and that the
pages that were listed are a beginning of the directory (`ListOK`), which stays
so while it grows because FIDs grow and entries are sorted by FID
(`InOrderGrows`). `AtMostOnce` and `AnswerTrue` speak of operations that are
`Undisturbed`: no other client changes the tree meanwhile, the names of the
request match themselves only, and no two files have the name to begin with, as
after a crash in a rename (`Clear`). Without these the code breaks both (see
Variations). They hold because each operation, once done, makes its own request
fail: a create finds the name taken, a remove finds it gone, and so on
(`OnceIsEnough`), also when a crash cut it off after the step that counts. A
rename within a directory is the exception: cut off, it leaves both names
(`Half`), and the retry finds the new one taken.

### Only model-checked

- `NoLeak`, `CacheSound`, `Findable`, `NeverPoisoned`, `NamesUnique` and
  `AtomicTree` where several workers rename, and the last two also where one
  does. They are false for general constants (see Variations); they hold in
  `ns_conc`, where no file returns to a directory it left, and in `ns_seq`.
- `Survives`, `Gone` and `Existing` of `Storage` with renames, and `WritesSeen`
  where several workers rename. They too hold for the requests of `st_power` and
  not for all: a rename within a directory and a write to a file that was moved
  break them.
- Liveness under fairness: `FsyncReturns`, `OpReturns`, `Drains`. The prover
  cannot do it.
- What recursive definitions compute for all inputs: induction is out of the
  prover's reach. `Applied`, which applies writes in order, is therefore defined
  by the last write to each block, and the directory listing by ranks.

## 5. Not modelled

- Attributes: sizes, times, `setattr` in place, which can race a write that has
  copied the file already (mod.rs:365); the numbers of statfs; the arithmetic of
  `fs_get_attr` on sizes of 32 bits (mod.rs:297).
- What a power failure undoes of directories that move, and of the two renames
  of one file at a time. `Namespace` has directories and `Storage` power
  failures; their product is beyond TLC.
- A file that grows, shrinks or is written while `FuseClient` reads it in parts.
- A handler that is still running when the client of `FuseClient` sends its
  request again, and names on which its server's search panics or which the host
  refuses; both are in `Namespace`.
- That a worker of the Thrift server serves one connection until it is closed,
  so that an eleventh client waits (main.rs:75); encoding; logging; the parsing
  of the CLI client.
- I/O errors other than those the handlers can cause each other, a failing
  flush of the counter, and a failing copy in commit.
- Several clients writing one file, about which the repository's README promises
  nothing.

## 6. Plan

Done: the modules of section 2, the runs of section 3 and the proofs of section
4. To be proved next: of `Storage`, what one worker that renames between
directories promises (`Survives` and `Existing` hold on small instances), where
the two entries of a file are in different states while it moves.
