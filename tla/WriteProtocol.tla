--------------------------- MODULE WriteProtocol ----------------------------
(***************************************************************************)
(* Unstable writes and commits, between the FUSE client                    *)
(* (client/src/bin/client_fuse.rs) and the server (handler/mod.rs).        *)
(*                                                                         *)
(* The client keeps every write until a commit of its file succeeds under  *)
(* the epoch it knows, and sends the writes again when a reply carries a   *)
(* new epoch.  The server keeps unstable writes in memory, one shared      *)
(* buffer per file, until a commit copies the file, applies them and       *)
(* renames the copy over it.  FUSE gives the client one operation at a     *)
(* time; the server may still be at work on a request the client has given *)
(* up, since a broken connection does not stop its worker.                 *)
(*                                                                         *)
(* A write is a number, in the order the application makes them, and goes  *)
(* to one block of a file; a block holds the number of the last write      *)
(* applied to it.  Covered: crash and restart of the server between any    *)
(* two steps, broken connections, a commit that fails.  Not covered:       *)
(* several clients, removal and rename of the file, power failures.        *)
(***************************************************************************)
EXTENDS Integers, Sequences, FiniteSets

CONSTANTS
    Files,
    Blocks,
    Workers,        \* workers of the server this client's calls can occupy
    NoWorker,       \* no call is outstanding
    MaxTries,       \* MAX_TRIES of do_with_retry
    MaxBuffers,     \* bound: buffers allocated between two crashes
    MaxWrites,      \* bound: writes of the application
    MaxCommits,     \* bound: fsyncs of the application
    MaxCrashes,     \* bound: crashes of the server
    MaxBreaks,      \* bound: connections broken while the server runs
    MaxFailures     \* bound: commits that fail copying the file

NoBuffer == 0
Buffers == 1 .. MaxBuffers

ASSUME WriteAssumption ==
    /\ NoWorker \notin Workers
    /\ MaxTries \in Nat \ {0}
    /\ {MaxBuffers, MaxWrites, MaxCommits, MaxCrashes, MaxBreaks,
        MaxFailures} \subseteq Nat

VARIABLES
    \* the client
    op,             \* "none", "write" or "fsync": what FUSE asked for
    cpc,            \* where the client is in it
    file,           \* the file it is about
    pos,            \* next write to send, in write_async_handle_epochs
    tries,          \* attempts made in do_with_retry
    call,           \* the worker that serves the outstanding call
    cEpoch,         \* server_epoch, as the client knows it
    asyncBufs,      \* asyncBufs[f]: the client's uncommitted writes
    \* the server
    up,
    epoch,
    table,          \* async_bufs: table[f] is the buffer of f, or NoBuffer
    heap,           \* heap[b]: the writes in buffer b
    used,           \* buffers allocated since the start
    holder,         \* holder[b]: who holds the mutex of b
    job,            \* job[h]: the request worker h serves
    \* the disk
    content,        \* content[f][k]: the last write applied to block k
    \* what the application knows, and bounds
    written,        \* writes made so far
    acked,          \* acked[f][k]: the last write that returned success
    durable,        \* the same at the last fsync of f that returned success
    commits, crashes, breaks, failures

client == <<op, cpc, file, pos, tries, call, cEpoch, asyncBufs>>
server == <<up, epoch, table, heap, used, holder, job, content>>
observed == <<written, acked, durable>>
bounds == <<commits, crashes, breaks, failures>>
vars == <<client, server, observed, bounds>>

Idle == [pc |-> "idle"]

Blank == [f \in Files |-> [k \in Blocks |-> 0]]

Init ==
    /\ op = "none" /\ cpc = "idle" /\ file \in Files /\ pos = 1 /\ tries = 0
    /\ call = NoWorker /\ cEpoch = 1
    /\ asyncBufs = [f \in Files |-> <<>>]
    /\ up = TRUE /\ epoch = 1
    /\ table = [f \in Files |-> NoBuffer]
    /\ heap = [b \in Buffers |-> <<>>] /\ used = 0
    /\ holder = [b \in Buffers |-> NoWorker]
    /\ job = [h \in Workers |-> Idle]
    /\ content = Blank
    /\ written = 0 /\ acked = Blank /\ durable = Blank
    /\ commits = 0 /\ crashes = 0 /\ breaks = 0 /\ failures = 0

Applied_Reversed(blocks, writes) ==
    [k \in Blocks |->
        LET at == {i \in 1 .. Len(writes) : writes[i].block = k} IN
        IF at = {} THEN blocks[k]
                   ELSE writes[CHOOSE i \in at : \A j \in at : i <= j].id]

\* The file after some writes, in order.
Applied(blocks, writes) ==
    [k \in Blocks |->
        LET at == {i \in 1 .. Len(writes) : writes[i].block = k} IN
        IF at = {} THEN blocks[k]
                   ELSE writes[CHOOSE i \in at : \A j \in at : j <= i].id]

-----------------------------------------------------------------------------
(* The application calls the client.                                       *)

\* write: the data goes to the end of async_bufs and is sent from there.
AppWrite ==
    /\ op = "none"
    /\ written < MaxWrites
    /\ written' = written + 1
    /\ \E f \in Files, k \in Blocks :
          /\ asyncBufs' = [asyncBufs EXCEPT
                             ![f] = Append(@, [block |-> k, id |-> written'])]
          /\ file' = f
          /\ pos' = Len(asyncBufs'[f])
    /\ op' = "write" /\ cpc' = "send" /\ tries' = 0
    /\ UNCHANGED <<call, cEpoch, server, acked, durable, bounds>>

\* fsync and flush: commit.
AppFsync ==
    /\ op = "none"
    /\ commits < MaxCommits
    /\ commits' = commits + 1
    /\ file' \in Files
    /\ op' = "fsync" /\ cpc' = "commit" /\ tries' = 0
    /\ UNCHANGED <<pos, call, cEpoch, asyncBufs, server, observed, crashes,
                   breaks, failures>>

Done == op' = "none" /\ cpc' = "idle" /\ pos' = 1 /\ tries' = 0

\* do_with_retry has used up its attempts: EIO, and async_bufs stays.
GiveUp ==
    /\ cpc \in {"send", "commit"} /\ call = NoWorker
    /\ tries = MaxTries
    /\ Done
    /\ UNCHANGED <<file, call, cEpoch, asyncBufs, server, observed, bounds>>

CanTry_Always == TRUE

CanTry == tries < MaxTries

\* An attempt, and another: the request reaches a worker.
Call ==
    /\ cpc \in {"send", "commit"} /\ call = NoWorker
    /\ CanTry
    /\ up
    /\ \E h \in Workers :
          /\ job[h] = Idle
          /\ call' = h
          /\ job' = [job EXCEPT ![h] =
                       IF cpc = "send"
                       THEN [pc |-> "get", file |-> file,
                             write |-> asyncBufs[file][pos]]
                       ELSE [pc |-> "take", file |-> file]]
    /\ UNCHANGED <<op, cpc, file, pos, tries, cEpoch, asyncBufs, up, epoch,
                   table, heap, used, holder, content, observed, bounds>>

\* A transport error: the server is down.
CallFails ==
    /\ cpc \in {"send", "commit"} /\ call = NoWorker
    /\ CanTry
    /\ ~up
    /\ tries' = tries + 1
    /\ UNCHANGED <<op, cpc, file, pos, call, cEpoch, asyncBufs, server,
                   observed, bounds>>

\* A transport error while the server runs: the request does not arrive,
CallLost ==
    /\ cpc \in {"send", "commit"} /\ call = NoWorker
    /\ CanTry
    /\ up /\ breaks < MaxBreaks
    /\ breaks' = breaks + 1
    /\ tries' = tries + 1
    /\ UNCHANGED <<op, cpc, file, pos, call, cEpoch, asyncBufs, server,
                   observed, commits, crashes, failures>>

\* or it has arrived, and the worker goes on regardless.
Break ==
    /\ call # NoWorker
    /\ breaks < MaxBreaks
    /\ breaks' = breaks + 1
    /\ call' = NoWorker
    /\ tries' = tries + 1
    /\ UNCHANGED <<op, cpc, file, pos, cEpoch, asyncBufs, server, observed,
                   commits, crashes, failures>>

-----------------------------------------------------------------------------
(* The server: handle_write for an unstable write.                         *)

Answer(h, ok) == job' = [job EXCEPT ![h] = [pc |-> "reply", ok |-> ok]]

WithBuffer(r, pc, b) ==
    [pc |-> pc, file |-> r.file, write |-> r.write, buffer |-> b]

\* get_or_create_async_bufs, the look under the read lock, then dropped.
Get(h) ==
    /\ job[h].pc = "get"
    /\ LET b == table[job[h].file] IN
          job' = [job EXCEPT ![h] =
                    WithBuffer(@, IF b = NoBuffer THEN "insert" ELSE "push", b)]
    /\ UNCHANGED <<client, up, epoch, table, heap, used, holder, content,
                   observed, bounds>>

\* A new buffer goes into the table, whatever is there by now.
Insert(h) ==
    /\ job[h].pc = "insert"
    /\ used < MaxBuffers
    /\ used' = used + 1
    /\ table' = [table EXCEPT ![job[h].file] = used']
    /\ job' = [job EXCEPT ![h] = WithBuffer(@, "push", used')]
    /\ UNCHANGED <<client, up, epoch, heap, holder, content, observed, bounds>>

Push(h) ==
    LET b == job[h].buffer IN
    /\ job[h].pc = "push"
    /\ holder[b] = NoWorker
    /\ heap' = [heap EXCEPT ![b] = Append(@, job[h].write)]
    /\ Answer(h, TRUE)
    /\ UNCHANGED <<client, up, epoch, table, used, holder, content, observed,
                   bounds>>

-----------------------------------------------------------------------------
(* The server: handle_commit.                                              *)

\* The buffer is taken out of the table; without one there is no work.
Take(h) ==
    LET f == job[h].file IN
    /\ job[h].pc = "take"
    /\ table' = [table EXCEPT ![f] = NoBuffer]
    /\ IF table[f] = NoBuffer
       THEN Answer(h, TRUE)
       ELSE job' = [job EXCEPT ![h] =
                      [pc |-> "lock", file |-> f, buffer |-> table[f]]]
    /\ UNCHANGED <<client, up, epoch, heap, used, holder, content, observed,
                   bounds>>

LockBuffer(h) ==
    LET b == job[h].buffer IN
    /\ job[h].pc = "lock"
    /\ holder[b] = NoWorker
    /\ IF heap[b] = <<>>
       THEN Answer(h, TRUE) /\ UNCHANGED holder
       ELSE /\ holder' = [holder EXCEPT ![b] = h]
            /\ job' = [job EXCEPT ![h].pc = "copy"]
    /\ UNCHANGED <<client, up, epoch, table, heap, used, content, observed,
                   bounds>>

Copy(h) ==
    LET r == job[h] IN
    /\ r.pc = "copy"
    /\ job' = [job EXCEPT ![h] = [pc |-> "rename", file |-> r.file,
                                  buffer |-> r.buffer,
                                  copy |-> content[r.file]]]
    /\ UNCHANGED <<client, up, epoch, table, heap, used, holder, content,
                   observed, bounds>>

\* `?' on an I/O error: the buffer is in no table any more.
CopyFails(h) ==
    /\ job[h].pc = "copy"
    /\ failures < MaxFailures
    /\ failures' = failures + 1
    /\ holder' = [holder EXCEPT ![job[h].buffer] = NoWorker]
    /\ Answer(h, FALSE)
    /\ UNCHANGED <<client, up, epoch, table, heap, used, content, observed,
                   commits, crashes, breaks>>

\* The writes drained from the buffer, the copy renamed over the file.
Rename(h) ==
    LET r == job[h] IN
    /\ r.pc = "rename"
    /\ content' = [content EXCEPT ![r.file] = Applied(r.copy, heap[r.buffer])]
    /\ heap' = [heap EXCEPT ![r.buffer] = <<>>]
    /\ holder' = [holder EXCEPT ![r.buffer] = NoWorker]
    /\ Answer(h, TRUE)
    /\ UNCHANGED <<client, up, epoch, table, used, observed, bounds>>

-----------------------------------------------------------------------------
(* The client takes a reply.                                               *)

Replied(h) == job[h].pc = "reply" /\ job' = [job EXCEPT ![h] = Idle]

NextPos_NoReset(e) == pos + 1

\* The position after a reply that carries epoch e.
NextPos(e) == IF e = cEpoch THEN pos + 1 ELSE 1

\* write_async_handle_epochs: one write after the other, all of them again
\* when the epoch has changed.
WriteReply(h) ==
    /\ call = h /\ cpc = "send"
    /\ Replied(h)
    /\ cEpoch' = epoch
    /\ call' = NoWorker /\ tries' = 0
    /\ pos' = NextPos(epoch)
    /\ pos' <= Len(asyncBufs[file])
    /\ UNCHANGED <<op, cpc, file, asyncBufs, up, epoch, table, heap, used,
                   holder, content, observed, bounds>>

\* The last of them; the application's write returns, or commit goes on.
LastWriteReply(h) ==
    /\ call = h /\ cpc = "send"
    /\ NextPos(epoch) > Len(asyncBufs[file])
    /\ Replied(h)
    /\ cEpoch' = epoch
    /\ call' = NoWorker
    /\ \/ /\ op = "write" /\ Done
          /\ LET w == asyncBufs[file][Len(asyncBufs[file])] IN
                acked' = [acked EXCEPT ![file][w.block] = w.id]
       \/ /\ op = "fsync" /\ cpc' = "commit" /\ pos' = 1 /\ tries' = 0
          /\ UNCHANGED <<op, acked>>
    /\ UNCHANGED <<file, asyncBufs, up, epoch, table, heap, used, holder,
                   content, written, durable, bounds>>

\* commit under the known epoch: the file's writes can be forgotten.
CommitReply(h) ==
    /\ call = h /\ cpc = "commit"
    /\ Replied(h) /\ job[h].ok
    /\ epoch = cEpoch
    /\ asyncBufs' = [asyncBufs EXCEPT ![file] = <<>>]
    /\ durable' = [durable EXCEPT ![file] = acked[file]]
    /\ call' = NoWorker /\ Done
    /\ UNCHANGED <<file, cEpoch, up, epoch, table, heap, used, holder, content,
                   written, acked, bounds>>

CommitReply_OfAnyEpoch(h) ==
    /\ call = h /\ cpc = "commit"
    /\ Replied(h) /\ job[h].ok
    /\ epoch # cEpoch
    /\ cEpoch' = epoch
    /\ asyncBufs' = [asyncBufs EXCEPT ![file] = <<>>]
    /\ durable' = [durable EXCEPT ![file] = acked[file]]
    /\ call' = NoWorker /\ Done
    /\ UNCHANGED <<file, up, epoch, table, heap, used, holder, content,
                   written, acked, bounds>>

CommitReplyNewEpoch_Forever(h) ==
    /\ call = h /\ cpc = "commit"
    /\ Replied(h) /\ job[h].ok
    /\ epoch # cEpoch
    /\ call' = NoWorker /\ tries' = 0
    /\ UNCHANGED <<op, cpc, file, pos, cEpoch, asyncBufs, up, epoch, table,
                   heap, used, holder, content, observed, bounds>>

\* commit under a new epoch: send this file's writes again, and commit again.
CommitReplyNewEpoch(h) ==
    /\ call = h /\ cpc = "commit"
    /\ Replied(h) /\ job[h].ok
    /\ epoch # cEpoch
    /\ cEpoch' = epoch
    /\ call' = NoWorker /\ tries' = 0 /\ pos' = 1
    /\ cpc' = IF asyncBufs[file] = <<>> THEN "commit" ELSE "send"
    /\ UNCHANGED <<op, file, asyncBufs, up, epoch, table, heap, used, holder,
                   content, observed, bounds>>

\* An error of the server: EAGAIN, and async_bufs stays.
ErrorReply(h) ==
    /\ call = h /\ cpc = "commit"
    /\ Replied(h) /\ ~job[h].ok
    /\ call' = NoWorker /\ Done
    /\ UNCHANGED <<file, cEpoch, asyncBufs, up, epoch, table, heap, used,
                   holder, content, observed, bounds>>

\* The connection is gone; nobody reads the reply.
LateReply(h) ==
    /\ call # h
    /\ Replied(h)
    /\ UNCHANGED <<client, up, epoch, table, heap, used, holder, content,
                   observed, bounds>>

-----------------------------------------------------------------------------
(* Crash and restart of the server.                                        *)

Crash ==
    /\ up /\ crashes < MaxCrashes
    /\ crashes' = crashes + 1
    /\ up' = FALSE
    /\ table' = [f \in Files |-> NoBuffer]
    /\ heap' = [b \in Buffers |-> <<>>] /\ used' = 0
    /\ holder' = [b \in Buffers |-> NoWorker]
    /\ job' = [h \in Workers |-> Idle]
    /\ call' = NoWorker
    /\ tries' = IF call = NoWorker THEN tries ELSE tries + 1
    /\ UNCHANGED <<op, cpc, file, pos, cEpoch, asyncBufs, epoch, content,
                   observed, commits, breaks, failures>>

\* counter.fetch_inc(), which FidCounter shows to be newer than all before.
NewEpoch(e) == e + 1

\* ZippynfsServer::new draws a new epoch.
Restart ==
    /\ ~up
    /\ up' = TRUE
    /\ epoch' = NewEpoch(epoch)
    /\ UNCHANGED <<client, table, heap, used, holder, job, content, observed,
                   bounds>>

Serve(h) == \/ Get(h) \/ Insert(h) \/ Push(h)
            \/ Take(h) \/ LockBuffer(h) \/ Copy(h) \/ CopyFails(h) \/ Rename(h)

TakeReply(h) == \/ WriteReply(h) \/ LastWriteReply(h) \/ CommitReply(h)
                \/ CommitReplyNewEpoch(h) \/ ErrorReply(h) \/ LateReply(h)

Next ==
    \/ AppWrite \/ AppFsync \/ GiveUp \/ Call \/ CallFails \/ CallLost \/ Break
    \/ \E h \in Workers : Serve(h) \/ TakeReply(h)
    \/ Crash \/ Restart

Spec == Init /\ [][Next]_vars

(* The client is a loop that does not stop, a worker that serves a request *)
(* runs on, and a server that has crashed is started again.                *)
FairSpec ==
    /\ Spec
    /\ WF_vars(GiveUp \/ Call \/ CallFails)
    /\ \A h \in Workers : WF_vars(Serve(h)) /\ WF_vars(TakeReply(h))
    /\ WF_vars(Restart)

-----------------------------------------------------------------------------
(* Properties.                                                             *)

Write == [block : Blocks, id : 1 .. MaxWrites]

TypeOK ==
    /\ op \in {"none", "write", "fsync"} /\ cpc \in {"idle", "send", "commit"}
    /\ file \in Files /\ pos \in Nat /\ tries \in 0 .. MaxTries
    /\ call \in Workers \union {NoWorker}
    /\ cEpoch \in Nat /\ epoch \in Nat /\ up \in BOOLEAN
    /\ asyncBufs \in [Files -> Seq(Write)]
    /\ table \in [Files -> Buffers \union {NoBuffer}]
    /\ heap \in [Buffers -> Seq(Write)] /\ used \in 0 .. MaxBuffers
    /\ holder \in [Buffers -> Workers \union {NoWorker}]
    /\ {content, acked, durable} \subseteq [Files -> [Blocks -> 0 .. MaxWrites]]
    /\ written \in 0 .. MaxWrites
    /\ {commits, crashes, breaks, failures} \subseteq Nat

(* A write that succeeded is on disk or still with the client: the client  *)
(* forgets one (client_fuse.rs:363) only when a commit has persisted it,   *)
(* whatever the server forgot in crashes before.                           *)
NothingLost ==
    \A f \in Files, k \in Blocks :
        \/ content[f][k] >= acked[f][k]
        \/ \E i \in 1 .. Len(asyncBufs[f]) :
              /\ asyncBufs[f][i].block = k
              /\ asyncBufs[f][i].id >= acked[f][k]

(* README, Writes: when fsync returns success, all writes the application  *)
(* made before are on disk, and none of them is undone later.              *)
FsyncDurable ==
    \A f \in Files, k \in Blocks : content[f][k] >= durable[f][k]

(* A file on disk never goes back to an older write: a retried or resent   *)
(* write (client_fuse.rs:106-152, 262-308) does not overwrite a newer one. *)
NeverBack ==
    [][\A f \in Files, k \in Blocks : content'[f][k] >= content[f][k]]_content

(* An fsync returns, with success or an error: the loop of commit          *)
(* (client_fuse.rs:338-377) and its resending end, crashes included.       *)
FsyncReturns == op = "fsync" ~> op = "none"
-----------------------------------------------------------------------------
(* What holds in every state.                                              *)

\* The requests a worker serves, by where it is in them.
JobOK(r) ==
    \/ r = Idle
    \/ r \in [pc : {"get"}, file : Files, write : Write]
    \/ r \in [pc : {"insert"}, file : Files, write : Write, buffer : {NoBuffer}]
    \/ r \in [pc : {"push"}, file : Files, write : Write, buffer : Buffers]
    \/ r \in [pc : {"take"}, file : Files]
    \/ r \in [pc : {"lock", "copy"}, file : Files, buffer : Buffers]
    \/ r \in [pc : {"rename"}, file : Files, buffer : Buffers,
              copy : [Blocks -> 0 .. MaxWrites]]
    \/ r \in [pc : {"reply"}, ok : BOOLEAN]

\* The client sends a write that is there, and waits only while it may retry.
ClientOK ==
    /\ op = "none" <=> cpc = "idle"
    /\ cpc = "send" => pos <= Len(asyncBufs[file]) /\ pos > 0
    /\ call # NoWorker => cpc # "idle" /\ tries < MaxTries

\* An epoch is drawn once and not lowered.
EpochsGrow == cEpoch <= epoch

ProtocolInv ==
    /\ TypeOK /\ ClientOK /\ EpochsGrow
    /\ DOMAIN job = Workers /\ \A h \in Workers : JobOK(job[h])

(* And when the only failures are crashes of the server, and the           *)
(* application uses one file:                                              *)

CrashesOnly ==
    /\ MaxBreaks = 0 /\ MaxFailures = 0
    /\ \A f, g \in Files : f = g

Sends == asyncBufs[file]

\* Writes of the file that the server has and the disk has not.
Pending ==
    IF table[file] # NoBuffer THEN heap[table[file]]
    ELSE IF call # NoWorker /\ job[call].pc \in {"lock", "copy", "rename"}
    THEN heap[job[call].buffer]
    ELSE <<>>

\* The file as the next commit would leave it.
View == Applied(content[file], Pending)

Warm == up /\ epoch = cEpoch

\* First of the client's writes that the server of this epoch still lacks.
Unsent ==
    IF cpc # "send" THEN Len(Sends) + 1
    ELSE IF call # NoWorker /\ job[call].pc = "reply" THEN NextPos(epoch)
    ELSE pos

\* The one call under way, and nothing besides.
OneCall ==
    /\ \A h \in Workers \ {call} : job[h] = Idle
    /\ \A b \in Buffers : b > used => heap[b] = <<>>
    /\ table[file] <= used
    /\ ~up => call = NoWorker /\ table[file] = NoBuffer
    /\ call # NoWorker =>
         LET r == job[call] IN
         /\ r.pc \in IF cpc = "send" THEN {"get", "insert", "push", "reply"}
                     ELSE {"take", "lock", "copy", "rename", "reply"}
         /\ IF r.pc = "reply" THEN r.ok ELSE r.file = file
         /\ r.pc \in {"get", "insert", "push"} => r.write = Sends[pos]
         /\ r.pc = "insert" => table[file] = NoBuffer
         /\ r.pc = "push" => table[file] = r.buffer
         /\ r.pc \in {"lock", "copy", "rename"} => table[file] = NoBuffer
         /\ r.pc = "reply" /\ cpc = "commit" => table[file] = NoBuffer
         /\ r.pc = "rename" => r.copy = content[file]

\* A server the client has not heard of has nothing, but for one write whose
\* reply is under way; attempts fail only when the server was down.
ColdServer ==
    /\ ~Warm => \/ Pending = <<>>
                \/ call # NoWorker /\ cpc = "send" /\ job[call].pc = "reply"
    /\ tries > 0 => ~Warm

\* Newer writes have larger numbers.
InSequence ==
    /\ \A i \in 1 .. Len(Sends) :
          /\ Sends[i].id <= written
          /\ \A j \in 1 .. Len(Sends) : i < j => Sends[i].id < Sends[j].id
    /\ \A k \in Blocks : content[file][k] <= written /\ View[k] <= written

\* The server lacks none of what the client has sent it in this epoch.
Sent ==
    Warm => \A i \in 1 .. Len(Sends) :
               i < Unsent => View[Sends[i].block] >= Sends[i].id

\* A commit sets no block back, unless a newer write to it is yet to be sent;
NotBehind ==
    \A k \in Blocks :
        \/ content[file][k] <= View[k]
        \/ \E i \in 1 .. Len(Sends) : i >= Unsent /\ Sends[i].block = k

\* and the last write to a block is as new as what is there.
LastIsNewest ==
    \A i \in 1 .. Len(Sends) :
        /\ \E j \in i .. Len(Sends) : /\ Sends[j].block = Sends[i].block
                                      /\ content[file][Sends[i].block] <= Sends[j].id
        /\ \E j \in i .. Len(Sends) : /\ Sends[j].block = Sends[i].block
                                      /\ View[Sends[i].block] <= Sends[j].id

(* Between any two crashes the server, with its disk, has what the client  *)
(* has sent it since, and the client has the rest: why a resend            *)
(* (client_fuse.rs:286-304) and a commit under one epoch (363) suffice.    *)
Resendable ==
    /\ OneCall /\ ColdServer /\ InSequence
    /\ Sent /\ NotBehind /\ LastIsNewest
=============================================================================
