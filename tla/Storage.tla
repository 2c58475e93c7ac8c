------------------------------- MODULE Storage --------------------------------
(***************************************************************************)
(* What create, remove, rename, stable writes, commits and reads of the    *)
(* server (server/src/handler/mod.rs) leave on stable storage: directory   *)
(* entries that are synced or not, contents that are synced or not, and    *)
(* power failures between any two steps.                                   *)
(*                                                                         *)
(* The volume orders only updates of the same entry; rename(2) is one      *)
(* update of two entries (README, Assumptions); a sync of a directory      *)
(* makes all its updates durable, with what they depend on.  A power       *)
(* failure keeps any set of the other updates that respects this order.    *)
(*                                                                         *)
(* Directories stay where they are here, and the counter never goes back   *)
(* (FidCounter).  Namespace has the searches and the checks in more steps, *)
(* directories that move, and fid_cache itself; WriteProtocol has the      *)
(* buffer of a commit, which is one write here.  Times and sizes are left  *)
(* out.                                                                    *)
(***************************************************************************)
EXTENDS Integers, Sequences, FiniteSets

CONSTANTS
    Workers,            \* the threads of the Thrift server
    NoWorker,
    Dirs,               \* directories
    Names,              \* file names
    Data,               \* what the numbered file is called, next to Names
    MaxFid,             \* bound: FIDs are 1 .. MaxFid
    MaxInode,           \* bound: copies that exist at a time, plus one
    InitLinks,          \* <<d, f, n>>: the files to start from
    FirstFree,          \* the next FID the counter returns
    Requests,           \* what clients may ask
    MaxRequests,        \* bound: requests started
    MaxFailures         \* bound: deaths of the process and power failures

Fid == 1 .. MaxFid
Blocks == 1 .. 2
Inodes == 1 .. MaxInode

Absent == 0
EmptyFile == 1          \* the contents of a file that was just created

\* Directory entries: <<d, f, Data>> is d/f and <<d, f, n>> is d/f.n.
Entries == Dirs \X Fid \X (Names \union {Data})

Request == [op : {"create", "remove", "rename", "write", "read"}, dir : Dirs,
            name : Names, todir : Dirs, toname : Names, fid : Fid]

ASSUME StorageAssumption ==
    /\ NoWorker \notin Workers /\ Data \notin Names
    /\ {MaxFid, MaxInode, FirstFree} \subseteq Nat \ {0}
    /\ {MaxRequests, MaxFailures} \subseteq Nat
    /\ InitLinks \subseteq Dirs \X Fid \X Names
    /\ Requests \subseteq Request

VARIABLES
    disk,           \* disk[e]: the inode of entry e on stable storage
    log,            \* updates not yet there: functions from entries to inodes
    data,           \* data[i][k]: the write that block k of inode i holds
    unsynced,       \* inodes whose contents are in the page cache only
    tmp,            \* tmp[f, w]: the inode of the file tmp/f_w
    nextFid,        \* what AtomicPersistentUsize holds
    nameLock,       \* name_lock: pairs of a directory and a name
    cacheLock,      \* the worker that has fid_cache locked for writing
    job,            \* job[w]: the request w serves, and how far it got
    \* what clients have been told
    promised,       \* links that were acknowledged, and are not being changed
    gone,           \* links whose removal was acknowledged
    live,           \* files acknowledged to exist, not unlinked since
    acked,          \* acked[f]: the last write of f, when it was acknowledged
    nreq, kills, powerFailures

volume == <<disk, log, data, unsynced, tmp, nextFid>>
locks == <<nameLock, cacheLock>>
told == <<promised, gone, live, acked>>
bounds == <<nreq, kills, powerFailures>>
vars == <<volume, locks, job, told, bounds>>

Idle == [pc |-> "idle"]
Blank == [k \in Blocks |-> 0]

InitDisk ==
    [e \in Entries |->
        IF \E l \in InitLinks : l = e \/ <<l[1], l[2], Data>> = e
        THEN EmptyFile ELSE Absent]

Init ==
    /\ disk = InitDisk /\ log = <<>>
    /\ data = [i \in Inodes |-> Blank] /\ unsynced = {}
    /\ tmp = [t \in Fid \X Workers |-> Absent]
    /\ nextFid = FirstFree
    /\ nameLock = {} /\ cacheLock = NoWorker
    /\ job = [w \in Workers |-> Idle]
    /\ promised = InitLinks /\ gone = {} /\ live = {l[2] : l \in InitLinks}
    /\ acked = [f \in Fid |-> 0]
    /\ nreq = 0 /\ kills = 0 /\ powerFailures = 0

-----------------------------------------------------------------------------
(* The volume.                                                             *)

\* The entries once the updates in S have been applied, in order.
Applied(S) ==
    [e \in Entries |->
        LET of == {i \in S : e \in DOMAIN log[i]} IN
        IF of = {} THEN disk[e]
                   ELSE log[CHOOSE i \in of : \A j \in of : j <= i][e]]

\* What system calls see.
View == Applied(DOMAIN log)

InOrder(S) ==
    \A j \in S, i \in DOMAIN log :
        i < j /\ DOMAIN log[i] \intersect DOMAIN log[j] # {} => i \in S

\* The updates that a power failure may leave.
Survivors == {S \in SUBSET DOMAIN log : InOrder(S)}

UpdatesOf(d) == {i \in DOMAIN log : \E e \in DOMAIN log[i] : e[1] = d}

Synced(d) ==
    {i \in DOMAIN log : \A S \in Survivors : UpdatesOf(d) \subseteq S => i \in S}

Without(S) ==
    LET rest == DOMAIN log \ S IN
    [k \in 1 .. Cardinality(rest) |->
        log[CHOOSE i \in rest : Cardinality({j \in rest : j <= i}) = k]]

\* dir.sync_all()
Fsync(d) ==
    /\ disk' = Applied(Synced(d))
    /\ log' = Without(Synced(d))

Update(u) == log' = Append(log, u) /\ UNCHANGED disk

Set(e, i) == [x \in {e} |-> i]

Exists(e) == View[e] # Absent

\* An NFS file exists where its numbered and its named file are together.
Visible(d, f, n) == Exists(<<d, f, Data>>) /\ Exists(<<d, f, n>>)

VisibleIn(d, f) == \E n \in Names : Visible(d, f, n)

WithName(d, n) == {f \in Fid : Visible(d, f, n)}

-----------------------------------------------------------------------------
(* Requests.                                                               *)

Goto(w, j, pc) == job' = [job EXCEPT ![w] = [j EXCEPT !.pc = pc]]

\* The request ends: by a reply, an error, or a panic of the worker.
Finish(w) == job' = [job EXCEPT ![w] = Idle]

FirstStep == [create |-> "claim", remove |-> "resolve", rename |-> "resolve",
              write |-> "find", read |-> "find"]

\* A write of f starts: nothing is said of earlier ones until it is over.
Start(w) ==
    /\ job[w].pc = "idle"
    /\ nreq < MaxRequests
    /\ nreq' = nreq + 1
    /\ \E r \in Requests :
          /\ job' = [job EXCEPT ![w] =
                       [pc |-> FirstStep[r.op], req |-> r, id |-> nreq',
                        dir |-> r.dir, fid |-> r.fid, inode |-> Absent,
                        at |-> 1]]
          /\ acked' = IF r.op = "write" THEN [acked EXCEPT ![r.fid] = 0] ELSE acked
    /\ UNCHANGED <<volume, locks, promised, gone, live, kills, powerFailures>>

IsCreate(j) == j.req.op = "create"

\* The link that a create or a rename puts in place, and what is locked for it.
Target(j) == IF IsCreate(j) THEN <<j.req.dir, j.req.name>>
                            ELSE <<j.req.todir, j.req.toname>>

NewLink(j) == <<Target(j)[1], j.fid, Target(j)[2]>>
OldLink(j) == <<j.req.dir, j.fid, j.req.name>>

\* remove, rename: the file that has the old name.
Resolve(w) ==
    LET j == job[w] IN
    /\ j.pc = "resolve"
    /\ LET found == WithName(j.req.dir, j.req.name) IN
       \/ /\ found = {} /\ Finish(w)
       \/ \E f \in found :
             Goto(w, [j EXCEPT !.fid = f],
                  IF j.req.op = "remove" THEN "unlink" ELSE "claim")
    /\ UNCHANGED <<volume, locks, told, bounds>>

\* create, rename: lock_name, and the check that the name is free.
Claim(w) ==
    LET j == job[w] IN
    /\ j.pc = "claim"
    /\ IF Target(j) \in nameLock \/ WithName(Target(j)[1], Target(j)[2]) # {}
       THEN Finish(w) /\ UNCHANGED nameLock
       ELSE /\ nameLock' = nameLock \union {Target(j)}
            /\ Goto(w, [j EXCEPT !.dir = Target(j)[1]],
                    IF IsCreate(j) THEN "mkNumbered" ELSE "mkNamed")
    /\ UNCHANGED <<volume, cacheLock, told, bounds>>

\* fs_create_obj, the numbered file, with a new FID.
MkNumbered(w) ==
    LET j == job[w] IN
    /\ j.pc = "mkNumbered"
    /\ nextFid <= MaxFid
    /\ nextFid' = nextFid + 1
    /\ Update(Set(<<j.dir, nextFid, Data>>, EmptyFile))
    /\ Goto(w, [j EXCEPT !.fid = nextFid], "syncNumbered")
    /\ UNCHANGED <<data, unsynced, tmp, locks, told, bounds>>

AfterMkNamed_NoSync(j) == IF IsCreate(j) THEN "setAttr" ELSE "move"

AfterMkNamed(j) == IF IsCreate(j) THEN "syncNamed" ELSE "syncLinked"

\* The named file at the new place.
MkNamed(w) ==
    LET j == job[w] IN
    /\ j.pc = "mkNamed"
    /\ Update(Set(NewLink(j), EmptyFile))
    /\ gone' = gone \ {NewLink(j)}
    /\ Goto(w, j, AfterMkNamed(j))
    /\ UNCHANGED <<data, unsynced, tmp, nextFid, locks, promised, live, acked,
                   bounds>>

AfterSync == [syncNumbered |-> "mkNamed", syncNamed |-> "setAttr",
              syncLinked |-> "move"]

\* The syncs in fs_create_obj, and the first one of rename.
Sync(w) ==
    LET j == job[w] IN
    /\ j.pc \in DOMAIN AfterSync
    /\ Fsync(j.dir)
    /\ Goto(w, j, AfterSync[j.pc])
    /\ UNCHANGED <<data, unsynced, tmp, nextFid, locks, told, bounds>>

\* fs_set_attr opens the new file, then the name is unlocked and the client
\* is told; or somebody took the file away, and the worker panics.
SetAttr(w) ==
    LET j == job[w] IN
    /\ j.pc = "setAttr"
    /\ IF Exists(<<j.dir, j.fid, Data>>)
       THEN /\ nameLock' = nameLock \ {Target(j)}
            /\ promised' = promised \union {NewLink(j)}
            /\ live' = live \union {j.fid}
       ELSE UNCHANGED <<nameLock, promised, live>>
    /\ Finish(w)
    /\ UNCHANGED <<volume, cacheLock, gone, acked, bounds>>

-----------------------------------------------------------------------------
(* remove: fs_delete_obj.                                                  *)

OfOthers(links, f) == {l \in links : l[2] # f}

\* The numbered file, or an error when it is not there any more.
Unlink(w) ==
    LET j == job[w] IN
    /\ j.pc = "unlink"
    /\ IF Exists(<<j.dir, j.fid, Data>>)
       THEN /\ Update(Set(<<j.dir, j.fid, Data>>, Absent))
            /\ promised' = OfOthers(promised, j.fid)
            /\ live' = live \ {j.fid}
            /\ Goto(w, j, "syncUnlinked")
       ELSE Finish(w) /\ UNCHANGED <<disk, log, promised, live>>
    /\ UNCHANGED <<data, unsynced, tmp, nextFid, locks, gone, acked, bounds>>

\* fid_cache is locked from here to the end.
SyncUnlinked(w) ==
    LET j == job[w] IN
    /\ j.pc = "syncUnlinked"
    /\ cacheLock = NoWorker
    /\ cacheLock' = w
    /\ Fsync(j.dir)
    /\ Goto(w, j, "dropNamed")
    /\ UNCHANGED <<data, unsynced, tmp, nextFid, nameLock, told, bounds>>

DropNamed(w) ==
    LET j == job[w] IN
    /\ j.pc = "dropNamed"
    /\ IF Exists(OldLink(j))
       THEN /\ Update(Set(OldLink(j), Absent))
            /\ Goto(w, j, "syncDropped")
            /\ UNCHANGED cacheLock
       ELSE Finish(w) /\ cacheLock' = NoWorker /\ UNCHANGED <<disk, log>>
    /\ UNCHANGED <<data, unsynced, tmp, nextFid, nameLock, told, bounds>>

SyncDropped(w) ==
    LET j == job[w] IN
    /\ j.pc = "syncDropped"
    /\ Fsync(j.dir)
    /\ cacheLock' = NoWorker
    /\ gone' = gone \union {OldLink(j)}
    /\ Finish(w)
    /\ UNCHANGED <<data, unsynced, tmp, nextFid, nameLock, promised, live,
                   acked, bounds>>

-----------------------------------------------------------------------------
(* rename, from the rename(2) on.                                          *)

MovedEntries_CopiedFirst(from, to) == Set(to, View[from])

\* rename(2) of the numbered file updates both directories at once.
MovedEntries(from, to) ==
    [x \in {from, to} |-> IF x = to THEN View[from] ELSE Absent]

AfterMove_NoSync(j) == "dropOld"

AfterMove(j) == "syncMoved"

\* fid_cache is locked, unless rename(2) fails, until the sync is over.
Move(w) ==
    LET j == job[w]
        old == <<j.req.dir, j.fid, Data>>
        new == <<j.dir, j.fid, Data>>
    IN
    /\ j.pc = "move"
    /\ cacheLock = NoWorker
    /\ IF Exists(old)
       THEN /\ IF old = new THEN UNCHANGED <<disk, log>>
                            ELSE Update(MovedEntries(old, new))
            /\ promised' = OfOthers(promised, j.fid)
            /\ Goto(w, j, AfterMove(j))
            /\ cacheLock' = IF AfterMove(j) = "syncMoved" THEN w ELSE cacheLock
            /\ UNCHANGED nameLock
       ELSE /\ nameLock' = nameLock \ {Target(j)}
            /\ Finish(w)
            /\ UNCHANGED <<disk, log, promised, cacheLock>>
    /\ UNCHANGED <<data, unsynced, tmp, nextFid, gone, live, acked, bounds>>

SyncMoved(w) ==
    LET j == job[w] IN
    /\ j.pc = "syncMoved"
    /\ Fsync(j.dir)
    /\ cacheLock' = NoWorker
    /\ nameLock' = nameLock \ {Target(j)}
    /\ Goto(w, j, "dropOld")
    /\ UNCHANGED <<data, unsynced, tmp, nextFid, told, bounds>>

\* The old named file, without a sync; then the client is told, unless the
\* file had gone, by another rename or remove.
DropOld(w) ==
    LET j == job[w] IN
    /\ j.pc = "dropOld"
    /\ IF Exists(OldLink(j))
       THEN /\ Update(Set(OldLink(j), Absent))
            /\ gone' = gone \union {OldLink(j)}
            /\ promised' = IF j.fid \in live /\ Visible(j.dir, j.fid, j.req.toname)
                           THEN promised \union {NewLink(j)} ELSE promised
       ELSE UNCHANGED <<disk, log, gone, promised>>
    /\ Finish(w)
    /\ UNCHANGED <<data, unsynced, tmp, nextFid, locks, live, acked, bounds>>

-----------------------------------------------------------------------------
(* Stable writes and commits: copy, change the copy, rename it.            *)

AfterFind(r) == IF r.op = "write" THEN "copy" ELSE "open"

\* fs_find_by_fid: by the cache, which knows where the numbered file is, or
\* by a search on disk, which wants the named file too.
Find(w) ==
    LET j == job[w] IN
    /\ j.pc = "find"
    /\ cacheLock = NoWorker
    /\ \/ /\ \A d \in Dirs : ~VisibleIn(d, j.fid)
          /\ Finish(w)
       \/ \E d \in Dirs : /\ Exists(<<d, j.fid, Data>>)
                          /\ Goto(w, [j EXCEPT !.dir = d], AfterFind(j.req))
    /\ UNCHANGED <<volume, locks, told, bounds>>

TmpName_NoTid(f, w) == <<f, CHOOSE v \in Workers : TRUE>>

\* tmp/<FID>_<TID>
TmpName(f, w) == <<f, w>>

\* Inodes of entries, now, before a sync, or after a power failure.
Stored == {disk[e] : e \in Entries}
          \union UNION {{log[i][e] : e \in DOMAIN log[i]} : i \in DOMAIN log}

InUse == Stored
         \union {tmp[t] : t \in DOMAIN tmp}
         \union {job[w].inode : w \in {v \in Workers : job[v].pc # "idle"}}

FreeInodes == Inodes \ (InUse \union {EmptyFile})

\* copy() makes the file or empties the one that has that name.
Copy(w) ==
    LET j == job[w]
        t == TmpName(j.fid, w)
        from == View[<<j.dir, j.fid, Data>>]
    IN
    /\ j.pc = "copy"
    /\ IF from = Absent
       THEN Finish(w) /\ UNCHANGED <<data, unsynced, tmp>>
       ELSE /\ tmp[t] = Absent => FreeInodes # {}
            /\ LET i == IF tmp[t] # Absent THEN tmp[t]
                        ELSE CHOOSE i \in FreeInodes :
                                 \A k \in FreeInodes : i <= k
               IN /\ data' = [data EXCEPT ![i] = data[from]]
                  /\ unsynced' = unsynced \union {i}
                  /\ tmp' = [tmp EXCEPT ![t] = i]
            /\ Goto(w, j, "openTmp")
    /\ UNCHANGED <<disk, log, nextFid, locks, told, bounds>>

\* The copy is opened again by its name, and synced.
OpenTmp(w) ==
    LET j == job[w]
        i == tmp[TmpName(j.fid, w)]
    IN
    /\ j.pc = "openTmp"
    /\ IF i = Absent
       THEN Finish(w) /\ UNCHANGED unsynced
       ELSE /\ unsynced' = unsynced \ {i}
            /\ Goto(w, [j EXCEPT !.inode = i], "fill")
    /\ UNCHANGED <<disk, log, data, tmp, nextFid, locks, told, bounds>>

LastBlock_OffByOne == 1

LastBlock_Past == 3

LastBlock == 2

\* write_all, block by block.
Fill(w) ==
    LET j == job[w] IN
    /\ j.pc = "fill"
    /\ data' = [data EXCEPT ![j.inode][j.at] = j.id]
    /\ unsynced' = unsynced \union {j.inode}
    /\ Goto(w, [j EXCEPT !.at = @ + 1],
            IF j.at = LastBlock THEN "syncTmp" ELSE "fill")
    /\ UNCHANGED <<disk, log, tmp, nextFid, locks, told, bounds>>

SyncTmp(w) ==
    LET j == job[w] IN
    /\ j.pc = "syncTmp"
    /\ unsynced' = unsynced \ {j.inode}
    /\ Goto(w, j, "replace")
    /\ UNCHANGED <<disk, log, data, tmp, nextFid, locks, told, bounds>>

OtherWriters(w) ==
    {v \in Workers \ {w} : /\ job[v].pc # "idle"
                           /\ job[v].req.op = "write"
                           /\ job[v].fid = job[w].fid}

\* rename(2) to the path found before, whatever is there by now; the
\* directory is not synced.  Then the client is told.
Replace(w) ==
    LET j == job[w]
        t == TmpName(j.fid, w)
    IN
    /\ j.pc = "replace"
    /\ IF tmp[t] = Absent
       THEN UNCHANGED <<disk, log, tmp, acked>>
       ELSE /\ Update(Set(<<j.dir, j.fid, Data>>, tmp[t]))
            /\ tmp' = [tmp EXCEPT ![t] = Absent]
            /\ acked' = [acked EXCEPT ![j.fid] =
                           IF OtherWriters(w) = {} THEN j.id ELSE 0]
    /\ Finish(w)
    /\ UNCHANGED <<data, unsynced, nextFid, locks, promised, gone, live, bounds>>

\* read: the file is opened by its path, or the worker panics,
Open(w) ==
    LET j == job[w]
        i == View[<<j.dir, j.fid, Data>>]
    IN
    /\ j.pc = "open"
    /\ IF i = Absent THEN Finish(w)
                     ELSE Goto(w, [j EXCEPT !.inode = i], "readAt")
    /\ UNCHANGED <<volume, locks, told, bounds>>

\* and what it holds goes to the client.
ReadAt(w) ==
    /\ job[w].pc = "readAt"
    /\ Finish(w)
    /\ UNCHANGED <<volume, locks, told, bounds>>

-----------------------------------------------------------------------------
(* Failures.  There is no recovery; a copy left in tmp is never looked at. *)

Restart ==
    /\ tmp' = [t \in Fid \X Workers |-> Absent]
    /\ nameLock' = {} /\ cacheLock' = NoWorker
    /\ job' = [w \in Workers |-> Idle]
    /\ UNCHANGED <<nextFid, told, nreq>>

\* The process dies: the kernel still has all its updates.
Kill ==
    /\ kills + powerFailures < MaxFailures
    /\ kills' = kills + 1
    /\ Restart
    /\ UNCHANGED <<disk, log, data, unsynced, powerFailures>>

\* Some updates are lost, and blocks that were not synced.
PowerFailure ==
    /\ kills + powerFailures < MaxFailures
    /\ powerFailures' = powerFailures + 1
    /\ \E S \in Survivors : disk' = Applied(S)
    /\ log' = <<>>
    /\ \E lost \in SUBSET (unsynced \X Blocks) :
          data' = [i \in Inodes |-> [k \in Blocks |->
                     IF <<i, k>> \in lost THEN 0 ELSE data[i][k]]]
    /\ unsynced' = {}
    /\ Restart
    /\ UNCHANGED kills

Linking(w) == \/ Resolve(w) \/ Claim(w) \/ MkNumbered(w) \/ MkNamed(w)
              \/ Sync(w) \/ SetAttr(w) \/ Move(w) \/ SyncMoved(w) \/ DropOld(w)

Unlinking(w) == Unlink(w) \/ SyncUnlinked(w) \/ DropNamed(w) \/ SyncDropped(w)

Contents(w) == \/ Find(w) \/ Copy(w) \/ OpenTmp(w) \/ Fill(w) \/ SyncTmp(w)
               \/ Replace(w) \/ Open(w) \/ ReadAt(w)

Next ==
    \/ \E w \in Workers : Start(w) \/ Linking(w) \/ Unlinking(w) \/ Contents(w)
    \/ Kill \/ PowerFailure

Spec == Init /\ [][Next]_vars

-----------------------------------------------------------------------------
(* Properties.                                                             *)

Steps == {"claim", "resolve", "mkNumbered", "syncNumbered", "mkNamed",
          "syncNamed", "syncLinked", "setAttr", "unlink", "syncUnlinked",
          "dropNamed", "syncDropped", "move", "syncMoved", "dropOld", "find",
          "copy", "openTmp", "fill", "syncTmp", "replace", "open", "readAt"}

Job == [pc : Steps, req : Requests, id : 1 .. MaxRequests, dir : Dirs,
        fid : Fid, inode : {Absent} \union Inodes, at : Nat]

TypeOK ==
    /\ disk \in [Entries -> {Absent} \union Inodes]
    /\ log \in Seq({log[i] : i \in DOMAIN log})
    /\ \A i \in DOMAIN log :
          /\ DOMAIN log[i] \subseteq Entries
          /\ log[i] \in [DOMAIN log[i] -> {Absent} \union Inodes]
    /\ data \in [Inodes -> [Blocks -> 0 .. MaxRequests]]
    /\ unsynced \subseteq Inodes
    /\ tmp \in [Fid \X Workers -> {Absent} \union Inodes]
    /\ nextFid \in Nat \ {0} /\ nreq \in Nat
    /\ nameLock \subseteq Dirs \X Names
    /\ cacheLock \in Workers \union {NoWorker}
    /\ job \in [Workers -> Job \union {Idle}]
    /\ promised \union gone \subseteq Dirs \X Fid \X Names
    /\ live \subseteq Fid
    /\ acked \in [Fid -> 0 .. MaxRequests]

Whole(i) == \A k, m \in Blocks : data[i][k] = data[i][m]

Filling == {"openTmp", "fill", "syncTmp", "replace"}

\* A copy in tmp is its writer's alone, and no entry's or reader's.
OwnCopies ==
    \A t \in Fid \X Workers : tmp[t] # Absent =>
        /\ job[t[2]].pc \in Filling /\ job[t[2]].fid = t[1]
        /\ tmp[t] \notin Stored \union {EmptyFile}
        /\ \A u \in Fid \X Workers : tmp[u] = tmp[t] => u = t
        /\ \A w \in Workers : job[w].pc = "readAt" => job[w].inode # tmp[t]

\* How far a writer has got with its copy, and a reader with what it opened.
Progress(w) ==
    LET j == job[w] IN
    /\ j.pc \in {"find", "copy", "openTmp"} => j.at = 1
    /\ j.pc \in Filling => tmp[<<j.fid, w>>] # Absent
    /\ j.pc \in Filling \ {"openTmp"} => j.inode = tmp[<<j.fid, w>>]
    /\ j.pc = "fill" => j.at \in Blocks
    /\ j.pc \in {"fill", "syncTmp", "replace"} =>
          \A k \in Blocks : j.pc # "fill" \/ k < j.at => data[j.inode][k] = j.id
    /\ j.pc = "replace" => j.inode \notin unsynced
    /\ j.pc = "readAt" => j.inode \in Inodes /\ Whole(j.inode)

\* What makes writes atomic: what an entry has, or may have after a power
\* failure, is whole and synced.
StorageInv ==
    /\ TypeOK
    /\ \A i \in (Stored \union {EmptyFile}) \ {Absent} : Whole(i) /\ i \notin unsynced
    /\ OwnCopies
    /\ \A w \in Workers : Progress(w)

(* A create or a rename that was acknowledged is there after a power       *)
(* failure: the syncs of fs_create_obj (mod.rs:466-473) and of rename      *)
(* (1051, 1072) come before the reply.                                     *)
Survives == \A l \in promised : Visible(l[1], l[2], l[3])

(* A name whose removal was acknowledged does not come back: not by a      *)
(* power failure, nor by a write to the path found before it (mod.rs:590-  *)
(* 597, 688, 1293).                                                        *)
Gone == \A l \in gone : ~Visible(l[1], l[2], l[3])

(* README, Crash Recovery: an existing file always has its data and its    *)
(* metadata file together, in exactly one directory, through power         *)
(* failures between the steps of a rename (mod.rs:1043-1092).              *)
Existing ==
    \A f \in live : \E d \in Dirs : \A c \in Dirs : VisibleIn(c, f) <=> c = d

(* README: small writes are atomic.  No file and no read shows half of a   *)
(* write, with writers side by side in tmp (mod.rs:660-665) and power      *)
(* failures before and after the rename.                                   *)
AtomicWrites ==
    /\ \A d \in Dirs, f \in Fid : VisibleIn(d, f) => Whole(View[<<d, f, Data>>])
    /\ \A w \in Workers : job[w].pc = "readAt" => Whole(job[w].inode)

Holds(f, id) ==
    \A d \in Dirs : VisibleIn(d, f) =>
        \A k \in Blocks : data[View[<<d, f, Data>>]][k] = id

(* A write that was acknowledged is what the file holds until the next     *)
(* one starts, deaths of the process included (mod.rs:688).                *)
WritesSeen ==
    powerFailures = 0 => \A f \in Fid : acked[f] # 0 => Holds(f, acked[f])

(* README, Writes: "all of the writes are persisted before the server      *)
(* ACKs", of a commit; FILE_SYNC says the same of a stable write.          *)
DurableWrites == \A f \in Fid : acked[f] # 0 => Holds(f, acked[f])
=============================================================================
