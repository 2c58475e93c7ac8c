----------------------------- MODULE ServerLocks ------------------------------
(***************************************************************************)
(* The locks of the server (server/src/handler/mod.rs) and the order in    *)
(* which each handler takes and drops them: the read-write locks fid_cache *)
(* and async_bufs, the mutexes name_lock and of the counter, and the mutex *)
(* of a buffer of unstable writes.                                         *)
(*                                                                         *)
(* A search by FID reads fid_cache once per directory of the path, each    *)
(* read lock taken while the ones before are held, and then locks it for   *)
(* writing.  Whether a reader overtakes a writer that waits depends on the *)
(* platform (std::sync::RwLock promises nothing): with glibc's rwlocks, on *)
(* which the code relies, it does.                                         *)
(*                                                                         *)
(* What the handlers do with their locks is in Namespace, WriteProtocol    *)
(* and FidCounter; panics, which poison them, are in Namespace.            *)
(***************************************************************************)
EXTENDS Integers, FiniteSets

CONSTANTS
    Workers,        \* the threads of the Thrift server
    Nobody,
    MaxDepth,       \* bound: cached directories between a file and the root
    MaxRequests,    \* bound: requests that come
    WriterFirst     \* a writer that waits keeps new readers out

Locks == {"fid_cache", "async_bufs", "name_lock", "counter", "buffer"}

\* A getattr, lookup or readdir ends after its search, like a remove that is
\* refused; a mkdir is a create, an rmdir a remove.
Ops == {"create", "remove", "rename", "write", "commit"}

ASSUME LocksAssumption ==
    /\ Nobody \notin Workers
    /\ MaxDepth \in Nat /\ MaxRequests \in Nat
    /\ WriterFirst \in BOOLEAN

VARIABLES
    op,             \* op[w]: the kind of request w serves
    pc,             \* pc[w]: where it is in it
    finds,          \* finds[w]: searches that it has yet to make
    owner,          \* owner[l]: who has l to himself
    reads,          \* reads[w][l]: read locks of l that w holds
    left            \* requests that have yet to come

vars == <<op, pc, finds, owner, reads, left>>

Init ==
    /\ op = [w \in Workers |-> "none"] /\ pc = [w \in Workers |-> "idle"]
    /\ finds = [w \in Workers |-> 0]
    /\ owner = [l \in Locks |-> Nobody]
    /\ reads = [w \in Workers |-> [l \in Locks |-> 0]]
    /\ left = MaxRequests

-----------------------------------------------------------------------------
(* The handlers, after their searches: <<from, what, lock, to>>.           *)

\* The guard of unlock_name is dropped after the cache has been updated.
CreateEnd_LateUnlock ==
    {<<"unlockName", "take", "name_lock", "insert">>,
     <<"insert", "take", "fid_cache", "inserting">>,
     <<"inserting", "drop", "fid_cache", "unlocking">>,
     <<"unlocking", "drop", "name_lock", "idle">>}

CreateEnd ==
    {<<"unlockName", "take", "name_lock", "unlocking">>,
     <<"unlocking", "drop", "name_lock", "insert">>,
     <<"insert", "take", "fid_cache", "inserting">>,
     <<"inserting", "drop", "fid_cache", "idle">>}

\* create_object: lock_name, fetch_inc, unlock_name, the cache; or the name
\* is taken; or the search panics, or fetch_inc or a step after it fails, and
\* the request ends with its name still locked.
CreateSteps ==
    {<<"lockName", "take", "name_lock", "locking">>,
     <<"locking", "drop", "name_lock", "named">>,
     <<"named", "go", "name_lock", "idle">>,
     <<"named", "go", "name_lock", "draw">>,
     <<"named", "go", "name_lock", "giveUpName">>,
     <<"draw", "take", "counter", "drawing">>,
     <<"drawing", "drop", "counter", "unlockName">>,
     <<"drawing", "drop", "counter", "idle">>,
     <<"giveUpName", "take", "name_lock", "givingUp">>,
     <<"givingUp", "drop", "name_lock", "idle">>}
    \union CreateEnd

\* fs_delete_obj: fid_cache from the first sync to the last.
RemoveSteps ==
    {<<"delete", "take", "fid_cache", "deleting">>,
     <<"deleting", "drop", "fid_cache", "idle">>}

\* handle_rename: lock_name, fid_cache, unlock_name, which comes before
\* fid_cache is dropped when rename(2) or the sync fails.
RenameSteps ==
    {<<"lockName", "take", "name_lock", "locking">>,
     <<"locking", "drop", "name_lock", "named">>,
     <<"named", "go", "name_lock", "idle">>,
     <<"named", "go", "name_lock", "move">>,
     <<"named", "go", "name_lock", "unlockName">>,
     <<"move", "take", "fid_cache", "moving">>,
     <<"moving", "drop", "fid_cache", "unlockName">>,
     <<"unlockName", "take", "name_lock", "unlocking">>,
     <<"unlocking", "drop", "name_lock", "idle">>,
     <<"moving", "go", "fid_cache", "moveFailed">>,
     <<"moveFailed", "take", "name_lock", "failing">>,
     <<"failing", "drop", "name_lock", "failed">>,
     <<"failed", "drop", "fid_cache", "idle">>}

\* The guard of the look is kept until the request ends.
Look_KeepsReadLock == {<<"look", "read", "async_bufs", "looked">>}

Look == {<<"look", "read", "async_bufs", "looking">>,
         <<"looking", "leave", "async_bufs", "looked">>}

\* An unstable write: get_or_create_async_bufs, and the push.
WriteSteps ==
    {<<"looked", "go", "async_bufs", "push">>,
     <<"looked", "go", "async_bufs", "enter">>,
     <<"enter", "take", "async_bufs", "entering">>,
     <<"entering", "drop", "async_bufs", "push">>,
     <<"push", "take", "buffer", "pushing">>,
     <<"pushing", "drop", "buffer", "idle">>}
    \union Look

\* handle_commit: the table, then the buffer until the copy is in place.
CommitSteps ==
    {<<"takeOut", "take", "async_bufs", "takingOut">>,
     <<"takingOut", "drop", "async_bufs", "idle">>,
     <<"takingOut", "drop", "async_bufs", "drain">>,
     <<"drain", "take", "buffer", "draining">>,
     <<"draining", "drop", "buffer", "idle">>}

Steps(o) ==
    CASE o = "create" -> CreateSteps
      [] o = "remove" -> RemoveSteps
      [] o = "rename" -> RenameSteps
      [] o = "write"  -> WriteSteps
      [] o = "commit" -> CommitSteps
      [] OTHER        -> {}

\* How many searches come first, and where the handler goes on.
Finds(o) == CASE o = "write"  -> 0
              [] o = "rename" -> 2
              [] OTHER        -> 1

AfterFinds(o) ==
    CASE o \in {"create", "rename"} -> "lockName"
      [] o = "remove"               -> "delete"
      [] o = "commit"               -> "takeOut"
      [] o = "write"                -> "look"
      [] OTHER                      -> "idle"

-----------------------------------------------------------------------------
(* The locks.                                                              *)

\* The lock that w takes next, when it can go no further without.
WantsToTake(w, l) ==
    \/ pc[w] = "extend" /\ l = "fid_cache"
    \/ \E s \in Steps(op[w]) : s[1] = pc[w] /\ s[2] = "take" /\ s[3] = l

WantsToRead(w, l) ==
    \/ pc[w] = "descend" /\ l = "fid_cache"
    \/ \E s \in Steps(op[w]) : s[1] = pc[w] /\ s[2] = "read" /\ s[3] = l

Waiting(l) == {w \in Workers : WantsToTake(w, l)}

Readers(l) == {w \in Workers : reads[w][l] > 0}

CanRead(l) == owner[l] = Nobody /\ (WriterFirst => Waiting(l) = {})

CanTake(l) == owner[l] = Nobody /\ Readers(l) = {}

\* A request that ends is forgotten.
Goto(w, to) ==
    /\ pc' = [pc EXCEPT ![w] = to]
    /\ op' = IF to = "idle" THEN [op EXCEPT ![w] = "none"] ELSE op

Left(w, to, n) == finds' = [finds EXCEPT ![w] = IF to = "idle" THEN 0 ELSE n]

Take(w, l) == owner' = [owner EXCEPT ![l] = w] /\ UNCHANGED reads
Drop(w, l) == owner' = [owner EXCEPT ![l] = Nobody] /\ UNCHANGED reads
Read(w, l) == reads' = [reads EXCEPT ![w][l] = @ + 1] /\ UNCHANGED owner
Leave(w, l) == reads' = [reads EXCEPT ![w][l] = @ - 1] /\ UNCHANGED owner

-----------------------------------------------------------------------------
(* Workers.                                                                *)

Start(w) ==
    /\ pc[w] = "idle" /\ left > 0
    /\ left' = left - 1
    /\ \E o \in Ops :
          /\ op' = [op EXCEPT ![w] = o]
          /\ finds' = [finds EXCEPT ![w] = Finds(o)]
          /\ pc' = [pc EXCEPT ![w] = IF Finds(o) = 0 THEN AfterFinds(o) ELSE "find"]
    /\ UNCHANGED <<owner, reads>>

\* fs_find_by_fid_cached: another directory that is not the root: read
\* fid_cache, and go on with the parent while the guard lives;
Descend(w) ==
    /\ pc[w] = "find" /\ reads[w]["fid_cache"] < MaxDepth
    /\ Goto(w, "descend")
    /\ UNCHANGED <<finds, owner, reads, left>>

ReadCache(w) ==
    /\ pc[w] = "descend"
    /\ CanRead("fid_cache")
    /\ Read(w, "fid_cache")
    /\ Goto(w, "find")
    /\ UNCHANGED <<finds, left>>

\* or the root, or a search on disk.  Then all of the calls return and drop
\* their guards; the file was found, or not.
Return(w) ==
    /\ pc[w] = "find"
    /\ reads' = [reads EXCEPT ![w]["fid_cache"] = 0]
    /\ \E to \in {"extend", "idle"} : Goto(w, to) /\ Left(w, to, finds[w])
    /\ UNCHANGED <<owner, left>>

Extend(w) ==
    /\ pc[w] = "extend"
    /\ CanTake("fid_cache")
    /\ Take(w, "fid_cache")
    /\ Goto(w, "extending")
    /\ UNCHANGED <<finds, left>>

Extended(w) ==
    /\ pc[w] = "extending"
    /\ Drop(w, "fid_cache")
    /\ Goto(w, IF finds[w] > 1 THEN "find" ELSE AfterFinds(op[w]))
    /\ finds' = [finds EXCEPT ![w] = @ - 1]
    /\ UNCHANGED left

\* A step of the handler; after a search it may also give up.
Handle(w) ==
    /\ \E s \in Steps(op[w]) :
          /\ s[1] = pc[w]
          /\ \/ s[2] = "take" /\ CanTake(s[3]) /\ Take(w, s[3])
             \/ s[2] = "read" /\ CanRead(s[3]) /\ Read(w, s[3])
             \/ s[2] = "drop" /\ Drop(w, s[3])
             \/ s[2] = "leave" /\ Leave(w, s[3])
             \/ s[2] = "go" /\ UNCHANGED <<owner, reads>>
          /\ Goto(w, s[4])
    /\ UNCHANGED <<finds, left>>

\* STALE, NOTDIR, NOENT and so on: an early return with no lock held.
Refuse(w) ==
    /\ pc[w] \in {"lockName", "delete"}
    /\ Goto(w, "idle")
    /\ UNCHANGED <<finds, owner, reads, left>>

Work(w) == \/ Descend(w) \/ ReadCache(w) \/ Return(w) \/ Extend(w)
           \/ Extended(w) \/ Handle(w) \/ Refuse(w)

Next == \E w \in Workers : Start(w) \/ Work(w)

Spec == Init /\ [][Next]_vars

(* The scheduler runs each thread that can run.                            *)
FairSpec == Spec /\ \A w \in Workers : WF_vars(Work(w))

-----------------------------------------------------------------------------
(* Properties.                                                             *)

\* Those who must let go, or go first, before w gets what it wants.
Blockers(w) ==
    {v \in Workers : \E l \in Locks :
        \/ /\ WantsToTake(w, l)
           /\ owner[l] = v \/ reads[v][l] > 0
        \/ /\ WantsToRead(w, l)
           /\ owner[l] = v \/ (WriterFirst /\ v \in Waiting(l))}

(* Workers never wait for each other in a circle, nor one for itself: the  *)
(* comments of mod.rs:508 and 698, the nested read locks of 218, and       *)
(* unlock_name under fid_cache at 1066.                                    *)
NoCircle ==
    \A S \in SUBSET Workers : S # {} => \E w \in S : Blockers(w) \intersect S = {}

(* When no more requests come, those in progress all end and no lock stays *)
(* held.                                                                   *)
Drains ==
    (left = 0) ~> \A w \in Workers : /\ pc[w] = "idle"
                                  /\ \A l \in Locks : /\ owner[l] # w
                                                      /\ reads[w][l] = 0
-----------------------------------------------------------------------------
(* What holds in every state, and why nobody waits in a circle.            *)

PCs == {"idle", "find", "descend", "extend", "extending"}
       \union UNION {{s[1], s[4]} : s \in UNION {Steps(o) : o \in Ops}}

TypeOK ==
    /\ op \in [Workers -> Ops \union {"none"}] /\ pc \in [Workers -> PCs]
    /\ finds \in [Workers -> 0 .. 2]
    /\ owner \in [Locks -> Workers \union {Nobody}]
    /\ reads \in [Workers -> [Locks -> Nat]]
    /\ left \in 0 .. MaxRequests

\* The guards of mutexes and write locks that live at p, whatever the handler.
Guards(p) ==
    CASE p \in {"extending", "inserting", "deleting", "moving", "moveFailed",
               "failed"}                            -> {"fid_cache"}
      [] p \in {"locking", "unlocking", "givingUp"} -> {"name_lock"}
      [] p = "failing"                              -> {"fid_cache", "name_lock"}
      [] p = "drawing"                              -> {"counter"}
      [] p \in {"entering", "takingOut"}            -> {"async_bufs"}
      [] p \in {"pushing", "draining"}              -> {"buffer"}
      [] OTHER                                      -> {}

\* Those of read locks; a search has one more than it had.
MayRead(p) == CASE p \in {"find", "descend"} -> {"fid_cache"}
                [] p = "looking"             -> {"async_bufs"}
                [] OTHER                     -> {}

(* Who owns a lock is where its guard lives, and the other way round; an   *)
(* owner shares the lock with no reader (mod.rs:233, 508 and 698, and all  *)
(* other guards of the handlers).                                          *)
GuardsMatch ==
    /\ \A w \in Workers, l \in Locks :
          /\ owner[l] = w <=> l \in Guards(pc[w])
          /\ reads[w][l] > 0 => l \in MayRead(pc[w]) /\ owner[l] = Nobody
    /\ \A w \in Workers :
          /\ reads[w]["fid_cache"] <= MaxDepth
          /\ pc[w] = "descend" => reads[w]["fid_cache"] < MaxDepth
          /\ pc[w] = "looking" => reads[w]["async_bufs"] = 1

\* A worker is idle when it serves no request, and searches when it has to.
OpsMatch ==
    \A w \in Workers :
        /\ pc[w] = "idle" <=> op[w] = "none"
        /\ pc[w] \in {"find", "descend", "extend", "extending"} => finds[w] > 0

LocksInv == TypeOK /\ GuardsMatch /\ OpsMatch
=============================================================================
