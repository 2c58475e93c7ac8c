----------------------------- MODULE Namespace ------------------------------
(***************************************************************************)
(* The name space of the ZippyNFS server (server/src/handler/mod.rs) and   *)
(* the workers that serve requests on it: getattr, lookup, create, mkdir,  *)
(* remove, rmdir and rename.                                               *)
(*                                                                         *)
(* An NFS file with FID f in directory d is a pair of server files, the    *)
(* numbered file d/f and the named file d/f.name; it exists when both do.  *)
(* A handler is a sequence of system calls and short critical sections;    *)
(* each is an action here, so that the others run in between.              *)
(*                                                                         *)
(* What is atomic: one system call; a read-only scan of one directory; and *)
(* what the code does under the write lock of fid_cache.  A lookup by FID  *)
(* holds the read lock of fid_cache from its first cache access to the end *)
(* of its search on disk (the guard of the `if let' lives that long), so   *)
(* no rename moves a file while it runs, and it is one action too.         *)
(*                                                                         *)
(* Crashes kill the process, and what was written stays; what a power      *)
(* failure undoes is not here, nor are file contents, sizes and times.     *)
(***************************************************************************)
EXTENDS Integers, Sequences, FiniteSets

CONSTANTS
    Workers,        \* the threads of the Thrift server
    Names,          \* file names
    Like,           \* <<n, m>> \in Like: the pattern made of n matches m
    NoPattern,      \* names the search panics on: empty, or no pattern
    NoGroup,        \* <<n, m>>: n matches m, but not the number before it
    NoFileName,     \* names the host makes no file of: too long, or with a /
    MaxFid,         \* bound: FIDs are 1 .. MaxFid, and 1 is the root
    MaxDepth,       \* bound: longest path, in directories from the root
    Requests,       \* what clients may ask
    MaxRequests,    \* bound: requests started
    MaxCrashes,     \* bound: crashes of the server
    InitNumbered,   \* the file tree to start from: parent of each FID,
    InitNamed,      \* the named files,
    InitDirs,       \* the FIDs that are directories,
    FirstFree       \* the next FID the counter returns

Fid == 1 .. MaxFid
Root == 1
None == 0

Creates == {"create", "mkdir"}
Deletes == {"remove", "rmdir"}
Ops == Creates \union Deletes \union {"getattr", "lookup", "rename"}

\* (dir, name) is what a request reads or takes away, (todir, toname) what
\* it puts in place; `refused' when it gives a new object attributes that
\* fs_set_attr does not set: a directory a size, a file an impossible one.
Request == [op : Ops, dir : Fid, name : Names, todir : Fid, toname : Names,
            refused : BOOLEAN]

\* Server paths, as the numbered directories they go through.
Paths == {p \in UNION {[1 .. n -> Fid] : n \in 1 .. MaxDepth} : p[1] = Root}

ASSUME NamespaceAssumption ==
    /\ MaxFid \in Nat /\ FirstFree \in Nat \ {0, Root} /\ MaxFid >= Root
    /\ MaxDepth \in Nat /\ MaxRequests \in Nat /\ MaxCrashes \in Nat
    /\ Like \subseteq (Names \ NoPattern) \X Names
    /\ NoPattern \subseteq Names /\ NoFileName \subseteq Names
    /\ NoGroup \subseteq Names \X Names
    /\ Requests \subseteq Request
    /\ InitNumbered \in [Fid -> Fid \union {None}]
    /\ InitNamed \subseteq Fid \X Fid \X Names
    /\ InitDirs \subseteq Fid /\ Root \in InitDirs

\* The server's file system is a tree before the server starts.
ASSUME TreeAssumption ==
    /\ InitNumbered[Root] = None
    /\ \A f \in Fid : f >= FirstFree => InitNumbered[f] = None /\ f \notin InitDirs
    /\ \A d \in ({InitNumbered[f] : f \in Fid} \ {None})
                 \union {e[1] : e \in InitNamed} :
          d \in InitDirs /\ (d = Root \/ InitNumbered[d] # None)
    /\ ~\E S \in SUBSET Fid : S # {} /\ \A f \in S : InitNumbered[f] \in S

VARIABLES
    numbered,       \* numbered[f]: the directory that holds file f, or None
    named,          \* <<d, f, n>>: there is a file d/f.n
    dirs,           \* the FIDs whose numbered file is a directory
    nextFid,        \* what AtomicPersistentUsize holds
    cache,          \* fid_cache: cache[f] is the parent recorded for f
    nameLock,       \* name_lock: the <<path, name>> pairs in the set
    poisoned,       \* a thread panicked holding fid_cache for writing
    job,            \* job[w]: the request w serves, and how far it got
    nreq,           \* requests started
    crashes,        \* crashes so far
    live            \* observation: FIDs created or found, and not unlinked

disk == <<numbered, named, dirs, nextFid, live>>
memory == <<cache, nameLock, poisoned>>
vars == <<disk, memory, job, nreq, crashes>>

PCs == {"idle", "findSrc", "extSrc", "findDst", "extDst", "byName", "lock",
        "check", "mkNumbered", "mkNamed", "setAttr", "cacheIns", "readDir",
        "unlink", "dropNamed", "move", "dropOld"}

NoRequest == [op |-> "none"]

Job == [pc : PCs, req : Requests \union {NoRequest},
        src : Paths \union {<<>>}, dst : Paths \union {<<>>},
        fid : Fid \union {None}, pairs : SUBSET (Fid \X Fid)]

Idle == [pc |-> "idle", req |-> NoRequest, src |-> <<>>, dst |-> <<>>,
         fid |-> None, pairs |-> {}]

Init ==
    /\ numbered = InitNumbered /\ named = InitNamed /\ dirs = InitDirs
    /\ nextFid = FirstFree
    /\ cache = [f \in Fid |-> None]
    /\ nameLock = {} /\ poisoned = FALSE
    /\ job = [w \in Workers |-> Idle]
    /\ nreq = 0 /\ crashes = 0
    /\ live = {f \in Fid : InitNumbered[f] # None}

Goto(w, j, pc) ==
    job' = [job EXCEPT ![w] = IF pc = "idle" THEN Idle
                                             ELSE [j EXCEPT !.pc = pc]]

\* The request ends, by a reply, an error or a panic of the worker.
Finish(w) == job' = [job EXCEPT ![w] = Idle]

-----------------------------------------------------------------------------
(* The underlying file system.                                             *)

Here(p) == p[Len(p)]

Exists(p) == \A i \in 1 .. Len(p) - 1 : numbered[p[i + 1]] = p[i]

IsDir(p) == Exists(p) /\ Here(p) \in dirs

HasFile(p, f) == Exists(p) /\ numbered[f] = Here(p)

\* Nothing is in directory d, junk included: what read_dir sees, and what
\* rmdir(2) insists on.
IsEmpty(d) == /\ \A f \in Fid : numbered[f] # d
              /\ \A e \in named : e[1] # d

\* The numbered file and a named file of f are together in d.
Visible(d, f) == numbered[f] = d /\ \E n \in Names : <<d, f, n>> \in named

\* fs_find_by_name: the FIDs the directory scan may return for name n.
WithName(p, n) ==
    {f \in Fid : /\ numbered[f] = Here(p)
                 /\ \E m \in Names : <<n, m>> \in Like
                                     /\ <<Here(p), f, m>> \in named}

\* fs_find_by_name may panic: an assertion or the unwrap of Regex::new, or
\* the unwrap of the number when it comes upon a file that matches without.
SearchPanics(p, n) ==
    \/ n \in NoPattern
    \/ \E e \in named : e[1] = Here(p) /\ <<n, e[3]>> \in NoGroup

-----------------------------------------------------------------------------
(* Finding a file by its FID (fs_find_by_fid).                             *)

\* The search for f answers with path p: the cache leads from f up to p[k],
\* which is the root or not cached, and the search on disk found p[k].
Found(f, p, k) ==
    /\ Here(p) = f
    /\ \A i \in k .. Len(p) - 1 : p[i + 1] # Root /\ cache[p[i + 1]] = p[i]
    /\ p[k] = Root \/ cache[p[k]] = None
    /\ \A i \in 1 .. k - 1 : Visible(p[i], p[i + 1])

\* The cache leads from f around a cycle: the recursion does not end.
Looping(f) ==
    \E S \in SUBSET (Fid \ {Root}) :
        f \in S /\ \A g \in S : cache[g] \in S

\* The mappings of the part that was found on disk, <<file, parent>>.
ToCache(p, k) == {<<p[i + 1], p[i]>> : i \in 1 .. k - 1}

AfterSrc(r) ==
    CASE r.op = "rename"                      -> "findDst"
      [] r.op \in Deletes \union {"lookup"}   -> "byName"
      [] OTHER                                -> "idle"

AfterDst(r) == IF r.op \in Creates THEN "lock" ELSE "byName"

Start(w) ==
    /\ job[w].pc = "idle"
    /\ nreq < MaxRequests
    /\ \E r \in Requests :
          job' = [job EXCEPT ![w] = [Idle EXCEPT
                    !.pc = IF r.op \in Creates THEN "findDst" ELSE "findSrc",
                    !.req = r]]
    /\ nreq' = nreq + 1
    /\ UNCHANGED <<disk, memory, crashes>>

FindSrc(w) ==
    LET j == job[w] IN
    /\ j.pc = "findSrc" /\ ~poisoned
    /\ \E p \in Paths : \E k \in 1 .. Len(p) :
          /\ Found(j.req.dir, p, k)
          /\ Goto(w, [j EXCEPT !.src = p, !.pairs = ToCache(p, k)],
                  IF k = 1 THEN AfterSrc(j.req) ELSE "extSrc")
    /\ UNCHANGED <<disk, memory, nreq, crashes>>

FindDst(w) ==
    LET j == job[w] IN
    /\ j.pc = "findDst" /\ ~poisoned
    /\ \E p \in Paths : \E k \in 1 .. Len(p) :
          /\ Found(j.req.todir, p, k)
          /\ Goto(w, [j EXCEPT !.dst = p, !.pairs = ToCache(p, k)],
                  IF k = 1 THEN AfterDst(j.req) ELSE "extDst")
    /\ UNCHANGED <<disk, memory, nreq, crashes>>

Sought(j) == IF j.pc = "findSrc" THEN j.req.dir ELSE j.req.todir

\* NFSERR_STALE: no file with this FID.  Or a panic: the lock is poisoned.
NotFound(w) ==
    LET f == Sought(job[w]) IN
    /\ job[w].pc \in {"findSrc", "findDst"}
    /\ \/ poisoned
       \/ /\ ~Looping(f)
          /\ ~\E p \in Paths : \E k \in 1 .. Len(p) : Found(f, p, k)
    /\ Finish(w)
    /\ UNCHANGED <<disk, memory, nreq, crashes>>

\* fid_cache.write().unwrap().extend(to_cache), after the search.
Extend(w) ==
    LET j == job[w] IN
    /\ j.pc \in {"extSrc", "extDst"} /\ ~poisoned
    /\ cache' = [f \in Fid |->
                   IF \E d \in Fid : <<f, d>> \in j.pairs
                   THEN CHOOSE d \in Fid : <<f, d>> \in j.pairs
                   ELSE cache[f]]
    /\ Goto(w, [j EXCEPT !.pairs = {}],
            IF j.pc = "extSrc" THEN AfterSrc(j.req) ELSE AfterDst(j.req))
    /\ UNCHANGED <<disk, nameLock, poisoned, nreq, crashes>>

\* The lock was poisoned since the search.
ExtendPanics(w) ==
    /\ job[w].pc \in {"extSrc", "extDst"} /\ poisoned
    /\ Finish(w)
    /\ UNCHANGED <<disk, memory, nreq, crashes>>

-----------------------------------------------------------------------------
(* Resolving and locking names.                                            *)

RightKind_Any(op, f) == TRUE

\* The handlers of remove and rmdir insist on the kind of file they remove.
RightKind(op, f) == CASE op = "remove" -> f \notin dirs
                      [] op = "rmdir"  -> f \in dirs
                      [] OTHER         -> TRUE

AfterName(r) ==
    CASE r.op = "rename"    -> "lock"
      [] r.op = "rmdir"     -> "readDir"
      [] r.op = "remove"    -> "unlink"
      [] OTHER              -> "idle"

ByName(w) ==
    LET j == job[w] IN
    /\ j.pc = "byName"
    /\ IsDir(j.src)
    /\ \E f \in WithName(j.src, j.req.name) :
          /\ RightKind(j.req.op, f)
          /\ Goto(w, [j EXCEPT !.fid = f], AfterName(j.req))
    /\ UNCHANGED <<disk, memory, nreq, crashes>>

\* NFSERR_NOTDIR, NOENT, ISDIR; or a panic: src is no directory any more, or
\* the search fails on the name.
BadName(w) ==
    LET j == job[w] IN
    /\ j.pc = "byName"
    /\ \/ ~IsDir(j.src)
       \/ SearchPanics(j.src, j.req.name)
       \/ WithName(j.src, j.req.name) = {}
       \/ \E f \in WithName(j.src, j.req.name) : ~RightKind(j.req.op, f)
    /\ Finish(w)
    /\ UNCHANGED <<disk, memory, nreq, crashes>>

Key_OldDir(j) == <<j.src, j.req.toname>>

\* The pair (dpath, filename) that a create or a rename puts in name_lock.
Key(j) == <<j.dst, j.req.toname>>

Unlocked(key) == nameLock \ {key}

Lockable_Always(j) == TRUE

\* lock_name: whether HashSet::insert finds the name in the set or not.
Lockable(j) == Key(j) \notin nameLock

IsCreate(j) == j.req.op \in Creates

Lock(w) ==
    LET j == job[w] IN
    /\ j.pc = "lock"
    /\ IsCreate(j) => IsDir(j.dst)
    /\ Lockable(j)
    /\ nameLock' = nameLock \union {Key(j)}
    /\ Goto(w, j, "check")
    /\ UNCHANGED <<disk, cache, poisoned, nreq, crashes>>

\* NFSERR_NOTDIR for a create, NFSERR_EXIST when the name is locked.
LockRefused(w) ==
    LET j == job[w] IN
    /\ j.pc = "lock"
    /\ (IsCreate(j) /\ ~IsDir(j.dst)) \/ ~Lockable(j)
    /\ Finish(w)
    /\ UNCHANGED <<disk, memory, nreq, crashes>>

Taken_Never(j) == FALSE

\* fs_find_by_name under the lock: is the name in use?
Taken(j) == WithName(j.dst, j.req.toname) # {}

AfterCheck_MovesFirst(j) == IF IsCreate(j) THEN "mkNumbered" ELSE "move"

AfterCheck(j) == IF IsCreate(j) THEN "mkNumbered" ELSE "mkNamed"

Check(w) ==
    LET j == job[w] IN
    /\ j.pc = "check"
    /\ IsDir(j.dst) /\ ~Taken(j) /\ ~SearchPanics(j.dst, j.req.toname)
    /\ Goto(w, j, AfterCheck(j))
    /\ UNCHANGED <<disk, memory, nreq, crashes>>

NameTaken_ReturnsEarly(w) ==
    LET j == job[w] IN
    /\ j.pc = "check"
    /\ IsDir(j.dst) /\ Taken(j)
    /\ Finish(w)
    /\ UNCHANGED <<disk, memory, nreq, crashes>>

\* NFSERR_EXIST, and the name is unlocked.
NameTaken(w) ==
    LET j == job[w] IN
    /\ j.pc = "check"
    /\ IsDir(j.dst) /\ Taken(j)
    /\ nameLock' = Unlocked(Key(j))
    /\ Finish(w)
    /\ UNCHANGED <<disk, cache, poisoned, nreq, crashes>>

\* assert!(path.is_dir()) fails, or the search does on the name: the worker
\* panics and the name stays locked.
CheckPanics(w) ==
    LET j == job[w] IN
    /\ j.pc = "check"
    /\ ~IsDir(j.dst) \/ SearchPanics(j.dst, j.req.toname)
    /\ Finish(w)
    /\ UNCHANGED <<disk, memory, nreq, crashes>>

-----------------------------------------------------------------------------
(* create and mkdir: fs_create_obj, fs_set_attr, the cache.                *)

\* fetch_inc, then the numbered file.  If the directory has moved away, `?'
\* returns the error and the name stays locked.
MkNumbered(w) ==
    LET j == job[w] IN
    /\ j.pc = "mkNumbered"
    /\ nextFid <= MaxFid
    /\ nextFid' = nextFid + 1
    /\ IF IsDir(j.dst)
       THEN /\ numbered' = [numbered EXCEPT ![nextFid] = Here(j.dst)]
            /\ dirs' = IF j.req.op = "mkdir" THEN dirs \union {nextFid} ELSE dirs
            /\ Goto(w, [j EXCEPT !.fid = nextFid], "mkNamed")
       ELSE Finish(w) /\ UNCHANGED <<numbered, dirs>>
    /\ UNCHANGED <<named, live, memory, nreq, crashes>>

\* The named file at the new place, for a new file and for a renamed one.
MkNamed(w) ==
    LET j == job[w] IN
    /\ j.pc = "mkNamed"
    /\ IsDir(j.dst) /\ j.req.toname \notin NoFileName
    /\ named' = named \union {<<Here(j.dst), j.fid, j.req.toname>>}
    /\ live' = IF IsCreate(j) THEN live \union {j.fid} ELSE live
    /\ Goto(w, j, IF IsCreate(j) THEN "setAttr" ELSE "move")
    /\ UNCHANGED <<numbered, dirs, nextFid, memory, nreq, crashes>>

\* The directory has moved away, or the host refuses the name.  A create
\* leaves the name locked; a rename does so too when it panics opening the
\* directory, and unlocks when the creation fails.
MkNamedFails(w) ==
    LET j == job[w] IN
    /\ j.pc = "mkNamed"
    /\ ~IsDir(j.dst) \/ j.req.toname \in NoFileName
    /\ \/ (IsCreate(j) \/ ~IsDir(j.dst)) /\ UNCHANGED nameLock
       \/ ~IsCreate(j) /\ nameLock' = Unlocked(Key(j))
    /\ Finish(w)
    /\ UNCHANGED <<disk, cache, poisoned, nreq, crashes>>

\* fs_set_attr opens the new file and sets what was asked; then the name is
\* unlocked.
SetAttr(w) ==
    LET j == job[w] IN
    /\ j.pc = "setAttr"
    /\ HasFile(j.dst, j.fid)
    /\ ~j.req.refused
    /\ nameLock' = Unlocked(Key(j))
    /\ Goto(w, j, "cacheIns")
    /\ UNCHANGED <<disk, cache, poisoned, nreq, crashes>>

\* The file is gone or the host refuses a size or a time (a panic), or a
\* directory was given a size (`?' returns NFSERR_ISDIR): the name stays
\* locked.
SetAttrFails(w) ==
    LET j == job[w] IN
    /\ j.pc = "setAttr"
    /\ ~HasFile(j.dst, j.fid) \/ j.req.refused
    /\ Finish(w)
    /\ UNCHANGED <<disk, memory, nreq, crashes>>

CacheIns(w) ==
    LET j == job[w] IN
    /\ j.pc = "cacheIns"
    /\ cache' = IF poisoned THEN cache
                            ELSE [cache EXCEPT ![j.fid] = j.req.todir]
    /\ Finish(w)
    /\ UNCHANGED <<disk, nameLock, poisoned, nreq, crashes>>

-----------------------------------------------------------------------------
(* remove and rmdir: fs_delete_obj.                                        *)

\* rmdir looks into the directory.
CheckEmpty(w) ==
    LET j == job[w] IN
    /\ j.pc = "readDir"
    /\ HasFile(j.src, j.fid) /\ IsEmpty(j.fid)
    /\ Goto(w, j, "unlink")
    /\ UNCHANGED <<disk, memory, nreq, crashes>>

\* NFSERR_NOTEMPTY; or the directory is gone and read_dir().unwrap() panics.
NotEmpty(w) ==
    LET j == job[w] IN
    /\ j.pc = "readDir"
    /\ ~HasFile(j.src, j.fid) \/ ~IsEmpty(j.fid)
    /\ Finish(w)
    /\ UNCHANGED <<disk, memory, nreq, crashes>>

\* remove_dir_all: what came in since the check goes too.
Unlink_WithContents(w) ==
    LET j == job[w] IN
    /\ j.pc = "unlink"
    /\ HasFile(j.src, j.fid)
    /\ numbered' = [f \in Fid |-> IF f = j.fid \/ numbered[f] = j.fid
                                  THEN None ELSE numbered[f]]
    /\ named' = {e \in named : e[1] # j.fid}
    /\ live' = live \ {j.fid}
    /\ Goto(w, j, "dropNamed")
    /\ UNCHANGED <<dirs, nextFid, memory, nreq, crashes>>

\* The numbered file goes first; rmdir(2) refuses a directory that is not
\* empty, whatever was seen before.
Unlink(w) ==
    LET j == job[w] IN
    /\ j.pc = "unlink"
    /\ HasFile(j.src, j.fid)
    /\ j.req.op = "rmdir" => IsEmpty(j.fid)
    /\ numbered' = [numbered EXCEPT ![j.fid] = None]
    /\ live' = live \ {j.fid}
    /\ Goto(w, j, "dropNamed")
    /\ UNCHANGED <<named, dirs, nextFid, memory, nreq, crashes>>

\* Gone by now, or not empty any more: remove_file or remove_dir fails.
UnlinkFails(w) ==
    LET j == job[w] IN
    /\ j.pc = "unlink"
    /\ ~HasFile(j.src, j.fid) \/ (j.req.op = "rmdir" /\ ~IsEmpty(j.fid))
    /\ Finish(w)
    /\ UNCHANGED <<disk, memory, nreq, crashes>>

DropNamed_KeepsCache(w) ==
    LET j == job[w] IN
    /\ j.pc = "dropNamed" /\ ~poisoned
    /\ IsDir(j.src)
    /\ named' = named \ {<<Here(j.src), j.fid, j.req.name>>}
    /\ Finish(w)
    /\ UNCHANGED <<numbered, dirs, nextFid, live, memory, nreq, crashes>>

\* One critical section of fid_cache: forget the mapping, remove the file
\* that has the name the client gave.
DropNamed(w) ==
    LET j == job[w] IN
    /\ j.pc = "dropNamed" /\ ~poisoned
    /\ IsDir(j.src)
    /\ cache' = [cache EXCEPT ![j.fid] = None]
    /\ named' = named \ {<<Here(j.src), j.fid, j.req.name>>}
    /\ Finish(w)
    /\ UNCHANGED <<numbered, dirs, nextFid, live, nameLock, poisoned, nreq,
                   crashes>>

\* The lock is poisoned already; or the directory has moved away, and
\* File::open(dpath).unwrap() panics and poisons it.
DropNamedPanics(w) ==
    LET j == job[w] IN
    /\ j.pc = "dropNamed"
    /\ \/ poisoned /\ UNCHANGED <<cache, poisoned>>
       \/ /\ ~poisoned /\ ~IsDir(j.src)
          /\ cache' = [cache EXCEPT ![j.fid] = None]
          /\ poisoned' = TRUE
    /\ Finish(w)
    /\ UNCHANGED <<disk, nameLock, nreq, crashes>>

-----------------------------------------------------------------------------
(* rename: the numbered file is moved under the write lock of fid_cache.   *)

\* rename(2) of the numbered file; a directory does not go below itself.
Movable(j) ==
    /\ HasFile(j.src, j.fid) /\ IsDir(j.dst)
    /\ \A i \in 1 .. Len(j.dst) : j.dst[i] # j.fid

\* assert_eq!(old, fsargs.old_loc.dir.fid), when the FID was in the cache.
CacheAgrees(j) == cache[j.fid] \in {None, j.req.dir}

Move_NoInsert(w) ==
    LET j == job[w] IN
    /\ j.pc = "move" /\ ~poisoned
    /\ Movable(j) /\ CacheAgrees(j)
    /\ numbered' = [numbered EXCEPT ![j.fid] = Here(j.dst)]
    /\ nameLock' = Unlocked(Key(j))
    /\ Goto(w, j, "dropOld")
    /\ UNCHANGED <<named, dirs, nextFid, live, cache, poisoned, nreq, crashes>>

Move(w) ==
    LET j == job[w] IN
    /\ j.pc = "move" /\ ~poisoned
    /\ Movable(j) /\ CacheAgrees(j)
    /\ numbered' = [numbered EXCEPT ![j.fid] = Here(j.dst)]
    /\ cache' = [cache EXCEPT ![j.fid] = j.req.todir]
    /\ nameLock' = Unlocked(Key(j))
    /\ Goto(w, j, "dropOld")
    /\ UNCHANGED <<named, dirs, nextFid, live, poisoned, nreq, crashes>>

\* The file has moved, and the assertion on the cache panics.
MovePanics(w) ==
    LET j == job[w] IN
    /\ j.pc = "move" /\ ~poisoned
    /\ Movable(j) /\ ~CacheAgrees(j)
    /\ numbered' = [numbered EXCEPT ![j.fid] = Here(j.dst)]
    /\ cache' = [cache EXCEPT ![j.fid] = j.req.todir]
    /\ poisoned' = TRUE
    /\ Finish(w)
    /\ UNCHANGED <<named, dirs, nextFid, live, nameLock, nreq, crashes>>

\* rename(2) fails: the name is unlocked, the new named file stays.  Or the
\* lock is poisoned, the worker panics, and the name stays locked.
MoveFails(w) ==
    LET j == job[w] IN
    /\ j.pc = "move"
    /\ \/ poisoned /\ UNCHANGED nameLock
       \/ ~poisoned /\ ~Movable(j) /\ nameLock' = Unlocked(Key(j))
    /\ Finish(w)
    /\ UNCHANGED <<disk, cache, poisoned, nreq, crashes>>

\* The old named file, when the old directory is still where it was.
DropOld(w) ==
    LET j == job[w] IN
    /\ j.pc = "dropOld"
    /\ named' = IF IsDir(j.src)
                THEN named \ {<<Here(j.src), j.fid, j.req.name>>}
                ELSE named
    /\ Finish(w)
    /\ UNCHANGED <<numbered, dirs, nextFid, live, memory, nreq, crashes>>

-----------------------------------------------------------------------------
(* Crashes.  Starting again needs no recovery: the tree is on disk.        *)

Restart ==
    /\ job' = [w \in Workers |-> Idle]
    /\ cache' = [f \in Fid |-> None]
    /\ nameLock' = {}
    /\ poisoned' = FALSE
    /\ UNCHANGED <<disk, nreq>>

Crash ==
    /\ crashes < MaxCrashes
    /\ crashes' = crashes + 1
    /\ Restart

\* The search recurses around a cycle of the cache until the stack is used
\* up, and the process is aborted.
Overflow(w) ==
    /\ job[w].pc \in {"findSrc", "findDst"}
    /\ ~poisoned /\ Looping(Sought(job[w]))
    /\ Restart
    /\ UNCHANGED crashes

Lookups(w) == \/ FindSrc(w) \/ FindDst(w) \/ NotFound(w)
              \/ Extend(w) \/ ExtendPanics(w)

Naming(w) == \/ ByName(w) \/ BadName(w) \/ Lock(w) \/ LockRefused(w)
             \/ Check(w) \/ NameTaken(w) \/ CheckPanics(w)

Creating(w) == \/ MkNumbered(w) \/ MkNamed(w) \/ MkNamedFails(w)
               \/ SetAttr(w) \/ SetAttrFails(w) \/ CacheIns(w)

Deleting(w) == \/ CheckEmpty(w) \/ NotEmpty(w) \/ Unlink(w) \/ UnlinkFails(w)
               \/ DropNamed(w) \/ DropNamedPanics(w)

Moving(w) == Move(w) \/ MovePanics(w) \/ MoveFails(w) \/ DropOld(w)

Next ==
    \/ \E w \in Workers : \/ Start(w) \/ Lookups(w) \/ Naming(w)
                          \/ Creating(w) \/ Deleting(w) \/ Moving(w)
                          \/ Overflow(w)
    \/ Crash

Spec == Init /\ [][Next]_vars

-----------------------------------------------------------------------------
(* Properties.                                                             *)

TypeOK ==
    /\ numbered \in [Fid -> Fid \union {None}]
    /\ named \subseteq Fid \X Fid \X Names
    /\ dirs \subseteq Fid
    /\ nextFid \in Nat \ {0} /\ nreq \in Nat /\ crashes \in Nat
    /\ cache \in [Fid -> Fid \union {None}]
    /\ nameLock \subseteq Paths \X Names
    /\ poisoned \in BOOLEAN
    /\ job \in [Workers -> Job]
    /\ live \subseteq Fid

Owning == {"check", "mkNumbered", "mkNamed", "setAttr", "move"}

\* What a handler has found out by the time it gets to each of its steps.
WellFormed(j) ==
    /\ j.pc # "idle" => j.req \in Requests
    /\ j.pc \in {"findSrc", "extSrc", "byName", "move"} => ~IsCreate(j)
    /\ j.pc \in {"extDst", "lock"} \union Owning => j.dst \in Paths
    /\ j.pc = "byName" /\ j.req.op = "rename" => j.dst \in Paths
    /\ j.pc \in {"lock", "check"} /\ ~IsCreate(j) => j.fid \in Fid
    /\ j.pc \notin {"idle", "findSrc"} /\ ~IsCreate(j) => j.src \in Paths
    /\ j.pc \in {"mkNamed", "setAttr", "cacheIns", "readDir", "unlink",
                 "dropNamed", "move", "dropOld"} => j.fid \in Fid

JobsOK == \A w \in Workers : WellFormed(job[w])

(* The promise of lock_name and the burden of unlock_name (mod.rs:423-436, *)
(* 1007-1089): between lock and unlock the name is in the set, and no      *)
(* other worker is between lock and unlock with the same path and name.    *)
LockOwned ==
    \A v \in Workers :
        job[v].pc \in Owning =>
            /\ Key(job[v]) \in nameLock
            /\ \A w \in Workers \ {v} :
                  job[w].pc \in Owning => Key(job[w]) # Key(job[v])

Present(f) == f = Root \/ numbered[f] # None

Acyclic == ~\E S \in SUBSET Fid : S # {} /\ \A f \in S : numbered[f] \in S

\* Request r takes from d, or puts into it, as its operation does with dir.
Asked(r, d, dir, ops) == d # None => d = dir /\ r.op \in ops \union {"rename"}

\* What a step may do to the tree.
Changes ==
    /\ \A f \in Fid :
          numbered'[f] # numbered[f] =>
              \E w \in Workers : LET r == job[w].req IN
                  /\ r \in Requests
                  /\ Asked(r, numbered[f], r.dir, Deletes)
                  /\ Asked(r, numbered'[f], r.todir, Creates)
    /\ \A e \in named \ named' :
          \E w \in Workers : LET r == job[w].req IN
              /\ r \in Requests /\ e[3] = r.name
              /\ Asked(r, e[1], r.dir, Deletes)
    /\ \A e \in named' \ named :
          \E w \in Workers : LET r == job[w].req IN
              /\ r \in Requests /\ e[3] = r.toname
              /\ Asked(r, e[1], r.todir, Creates)

(* What a request changes are the directories it was given, whatever moves *)
(* and dies between the search for their paths and their use (mod.rs:492,  *)
(* 576-596, 1001-1092): a numbered file leaves a directory only when a     *)
(* remove or rename of something there is under way, and comes into one    *)
(* only by a create or rename to there; a named file comes and goes only   *)
(* with the very name.                                                     *)
OnlyAsked == [][Changes]_vars

\* The server files are a tree, junk included.
TreeShape ==
    /\ \A f \in Fid : numbered[f] # None => /\ numbered[f] \in dirs
                                            /\ Present(numbered[f])
    /\ \A e \in named : e[1] \in dirs /\ Present(e[1])
    /\ Acyclic

\* What keeps it so: FIDs not given out are not used, the root is in no
\* directory, and what a remove is about to unlink is not a directory.
TreeInv ==
    /\ TreeShape
    /\ numbered[Root] = None /\ Root \in dirs /\ Root < nextFid
    /\ \A f \in Fid : f >= nextFid => numbered[f] = None /\ f \notin dirs
    /\ \A w \in Workers :
          job[w].pc \in {"readDir", "unlink"} =>
              /\ job[w].req.op \in Deletes /\ job[w].fid < nextFid
              /\ job[w].req.op = "remove" => job[w].fid \notin dirs

(* One name of one directory stands for one file: the purpose of           *)
(* name_lock and of the second fs_find_by_name (mod.rs:506-523,            *)
(* 1012-1027), with other workers between any two steps.                   *)
NamesUnique ==
    \A e, g \in named :
        /\ e[1] = g[1] /\ e[3] = g[3]
        /\ numbered[e[2]] = e[1] /\ numbered[g[2]] = g[1]
        => e[2] = g[2]

Reachable(f) ==
    \E p \in Paths : /\ Here(p) = f
                     /\ \A i \in 1 .. Len(p) - 1 : Visible(p[i], p[i + 1])

(* README, Crash Recovery: an existing file always has its numbered and    *)
(* its named file together in one directory, so that a search from the     *)
(* root finds it, through renames, removals of others and crashes.         *)
Findable == \A f \in live : Reachable(f)

Quiet == \A w \in Workers : job[w].pc = "idle"

\* Requests after which the name stays locked whatever the others do: the
\* search panics on it, the host refuses the new file or its attributes, or
\* a file is renamed into another.
LeavesLocked(r) ==
    \/ r.toname \in NoPattern \union {e[1] : e \in NoGroup}
    \/ r.op \in Creates /\ (r.toname \in NoFileName \/ r.refused)
    \/ r.op = "rename" /\ r.todir \notin dirs

(* No other request leaves its name locked when it is over, in whatever    *)
(* way it ends: nobody could create the name again (mod.rs:506, "we cannot *)
(* use ? until we unlock").                                                *)
NoLeak ==
    Quiet => \A key \in nameLock :
                \E r \in Requests : /\ r.todir = Here(key[1]) /\ r.toname = key[2]
                                    /\ LeavesLocked(r)

(* README, Finding files: misses, creations, deletions and renames all     *)
(* update the cache, so that when nothing is in progress each mapping is   *)
(* the directory the file is in.                                           *)
CacheSound == Quiet => \A f \in Fid : cache[f] \in {None, numbered[f]}

(* No panic ever poisons fid_cache, after which every request would fail:  *)
(* the assertion of mod.rs:1082 and the unwrap of mod.rs:590.              *)
NeverPoisoned == ~poisoned

(* The links a client can see, and the tree they are promised to form:     *)
(* files moved between directories appear in the new one and disappear     *)
(* from the old one in one step, whatever runs or crashes in between       *)
(* (README: "Renaming a file is atomic").                                  *)
Links == {<<e[1], e[3], e[2]>> : e \in {x \in named : numbered[x[2]] = x[1]}}

InitLinks ==
    {<<e[1], e[3], e[2]>> : e \in {x \in InitNamed : InitNumbered[x[2]] = x[1]}}

Tree == INSTANCE NfsTree WITH Files <- Fid, Links0 <- InitLinks, links <- Links

AtomicTree == Tree!Spec
=============================================================================
