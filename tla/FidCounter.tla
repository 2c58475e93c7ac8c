----------------------------- MODULE FidCounter -----------------------------
(***************************************************************************)
(* AtomicPersistentUsize (server/src/handler/counter.rs): the counter file *)
(* mapped into memory, from which the server draws FIDs and, once per      *)
(* start, its epoch.                                                       *)
(*                                                                         *)
(* Two copies of the counter are told apart.  `mem' is the mapped page,    *)
(* which survives the death of the server process because the mapping is   *)
(* shared; `disk' is what a power failure leaves behind.  The kernel may   *)
(* write the page back at any moment, and fetch_inc forces it to.          *)
(*                                                                         *)
(* Covered: any number of workers, kill and power failure between any two  *)
(* steps, a failing flush.  Not covered: wrap-around of the 64-bit value,  *)
(* a power failure that tears the eight bytes.                             *)
(***************************************************************************)
EXTENDS Integers, Sequences

CONSTANTS
    Threads,        \* the server's worker threads
    NoThread,       \* nobody holds the mutex
    FirstFid,       \* what the counter file holds initially
    MaxCount,       \* bound: fetch_add stops here
    MaxCrashes      \* bound: number of crashes

ASSUME CounterAssumption ==
    /\ NoThread \notin Threads
    /\ FirstFid \in Nat
    /\ MaxCount \in Nat
    /\ MaxCrashes \in Nat

VARIABLES
    mem,            \* the value in the mapped page
    disk,           \* the value on stable storage
    lock,           \* owner of Mutex<Mmap>, or NoThread
    poisoned,       \* a thread panicked while it held the mutex
    pc,             \* pc[t]: where thread t is inside fetch_inc
    val,            \* val[t]: the number thread t is about to return
    up,             \* ZippynfsServer::new has returned
    epoch,          \* the epoch the running server drew
    crashes,        \* crashes so far
    issued          \* observation: the numbers fetch_inc has returned, in order

vars == <<mem, disk, lock, poisoned, pc, val, up, epoch, crashes, issued>>

Init ==
    /\ mem = FirstFid
    /\ disk = FirstFid
    /\ lock = NoThread
    /\ poisoned = FALSE
    /\ pc = [t \in Threads |-> "idle"]
    /\ val = [t \in Threads |-> 0]
    /\ up = FALSE
    /\ epoch = 0
    /\ crashes = 0
    /\ issued = <<>>

-----------------------------------------------------------------------------
(* fetch_inc, one action per step that another thread or a crash can see.  *)

MutexFree_Ignored == TRUE

MutexFree == lock = NoThread

\* Until `new' has drawn the epoch only the main thread runs.
Acquire(t) ==
    /\ pc[t] = "idle"
    /\ MutexFree /\ ~poisoned
    /\ up \/ \A u \in Threads : pc[u] = "idle"
    /\ lock' = t
    /\ pc' = [pc EXCEPT ![t] = "locked"]
    /\ UNCHANGED <<mem, disk, poisoned, val, up, epoch, crashes, issued>>

FetchAdd(t) ==
    /\ pc[t] = "locked"
    /\ mem < MaxCount
    /\ val' = [val EXCEPT ![t] = mem]
    /\ mem' = mem + 1
    /\ pc' = [pc EXCEPT ![t] = "added"]
    /\ UNCHANGED <<disk, lock, poisoned, up, epoch, crashes, issued>>

Flush_BeforeAdd(t) ==
    /\ pc[t] = "added"
    /\ disk' = val[t]
    /\ pc' = [pc EXCEPT ![t] = "flushed"]
    /\ UNCHANGED <<mem, lock, poisoned, val, up, epoch, crashes, issued>>

Flush(t) ==
    /\ pc[t] = "added"
    /\ disk' = mem
    /\ pc' = [pc EXCEPT ![t] = "flushed"]
    /\ UNCHANGED <<mem, lock, poisoned, val, up, epoch, crashes, issued>>

\* flush() fails, unwrap() panics and the guard poisons the mutex.
FlushFails(t) ==
    /\ pc[t] = "added"
    /\ poisoned' = TRUE
    /\ lock' = NoThread
    /\ pc' = [pc EXCEPT ![t] = "idle"]
    /\ UNCHANGED <<mem, disk, val, up, epoch, crashes, issued>>

\* The guard is dropped and the number returned; the first number drawn by
\* a server that is starting becomes its epoch.
Return(t) ==
    /\ pc[t] = "flushed"
    /\ issued' = Append(issued, val[t])
    /\ IF up THEN UNCHANGED <<up, epoch>>
             ELSE up' = TRUE /\ epoch' = val[t]
    /\ lock' = NoThread
    /\ pc' = [pc EXCEPT ![t] = "idle"]
    /\ UNCHANGED <<mem, disk, poisoned, val, crashes>>

-----------------------------------------------------------------------------
(* The environment: write-back by the kernel and the two kinds of crash.   *)

WriteBack ==
    /\ disk' = mem
    /\ UNCHANGED <<mem, lock, poisoned, pc, val, up, epoch, crashes, issued>>

\* The process is gone: threads, mutex and epoch with it.
Restart ==
    /\ crashes < MaxCrashes
    /\ crashes' = crashes + 1
    /\ lock' = NoThread
    /\ poisoned' = FALSE
    /\ pc' = [t \in Threads |-> "idle"]
    /\ val' = [t \in Threads |-> 0]
    /\ up' = FALSE
    /\ UNCHANGED <<disk, epoch, issued>>

Kill == Restart /\ UNCHANGED mem

PowerFailure == Restart /\ mem' = disk

Next ==
    \/ \E t \in Threads : \/ Acquire(t) \/ FetchAdd(t) \/ Flush(t)
                          \/ FlushFails(t) \/ Return(t)
    \/ WriteBack \/ Kill \/ PowerFailure

Spec == Init /\ [][Next]_vars

-----------------------------------------------------------------------------
(* Properties.                                                             *)

TypeOK ==
    /\ mem \in Nat /\ disk \in Nat /\ epoch \in Nat /\ crashes \in Nat
    /\ lock \in Threads \union {NoThread}
    /\ poisoned \in BOOLEAN /\ up \in BOOLEAN
    /\ pc \in [Threads -> {"idle", "locked", "added", "flushed"}]
    /\ val \in [Threads -> Nat]
    /\ issued \in Seq(Nat)

\* Nobody is inside fetch_inc without the mutex.
Exclusive == \A t \in Threads : pc[t] # "idle" => lock = t

\* A number on its way out is the last one added, newer than all returned.
InFlight ==
    \A t \in Threads :
        pc[t] \in {"added", "flushed"} =>
            /\ val[t] = mem - 1
            /\ \A i \in 1 .. Len(issued) : issued[i] < val[t]

\* Whatever has been returned, a power failure can not take back.
Durable ==
    /\ disk <= mem
    /\ \A i \in 1 .. Len(issued) : issued[i] < disk
    /\ \A t \in Threads : pc[t] = "flushed" => disk = mem

(* Safety invariant of fetch_inc (counter.rs:36-50), strong enough to be   *)
(* inductive: one thread at a time between lock and return, the number it  *)
(* carries is fresh, and no crash can make the counter fall back to or     *)
(* below a number that was returned.                                       *)
CounterInv == TypeOK /\ Exclusive /\ InFlight /\ Durable

(* The epoch a restarted server draws (handler/mod.rs:92) is newer than    *)
(* every FID and every epoch returned before: what the client asserts with *)
(* epoch >= self.server_epoch.                                             *)
EpochNewest ==
    [][~up /\ up' => \A i \in 1 .. Len(issued) : issued[i] < epoch']_vars

Fresh == INSTANCE FreshIds WITH Ids <- Nat, issued <- issued

(* Every step that returns a number is a step of the abstract generator:   *)
(* the number is larger than all returned before, crashes included.        *)
(* (FreshIds!Next with its quantifier bounded by what mem can reach.)      *)
ReturnsFresh ==
    [][\E n \in FirstFid .. MaxCount : Fresh!Issue(n)]_issued
=============================================================================
