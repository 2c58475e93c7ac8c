------------------------- MODULE WriteProtocolProofs ------------------------
(***************************************************************************)
(* WriteProtocol proved for any number of files, blocks, workers, writes,  *)
(* commits, crashes, broken connections and failed commits: its types, and *)
(* that no epoch goes back.  And, for one file and no failures but crashes *)
(* of the server, what unstable writes are for: no write that succeeded is *)
(* lost, one that was synced is on disk, and no block of the file ever     *)
(* goes back to an older write.                                            *)
(***************************************************************************)
EXTENDS WriteProtocol, WellFoundedInduction, TLAPS

USE WriteAssumption DEF WriteAssumption, NoBuffer

-----------------------------------------------------------------------------
(* Writes applied in order.                                                *)

LEMMA LastExists ==
  ASSUME NEW n \in Nat, NEW S \in SUBSET (1 .. n), S # {}
  PROVE  \E i \in S : \A j \in S : j <= i
<1> DEFINE T == {n - i : i \in S}
<1>1. T \in SUBSET Nat /\ T # {}
  <2>1. \A i \in S : n - i \in Nat
    OBVIOUS
  <2>2. PICK i \in S : TRUE
    OBVIOUS
  <2>3. n - i \in T
    OBVIOUS
  <2> QED
    BY <2>1, <2>3
<1>2. PICK m \in T : \A k \in T : ~ (k < m)
  <2> DEFINE R == {ss \in Nat \X Nat : ss[1] < ss[2]}
  <2>1. \A a, b \in Nat : <<a, b>> \in R <=> a < b
    OBVIOUS
  <2> HIDE DEF T
  <2>2. IsWellFoundedOn(R, Nat)
    BY NatLessThanWellFounded DEF OpToRel
  <2> HIDE DEF R
  <2>3. \E m \in T : \A k \in T : ~ (<<k, m>> \in R)
    BY <1>1, <2>2, WFMin
  <2> QED
    BY <1>1, <2>1, <2>3
<1>3. PICK i \in S : m = n - i
  BY <1>2
<1>4. ASSUME NEW j \in S PROVE j <= i
  <2>1. n - j \in T
    OBVIOUS
  <2> HIDE DEF T
  <2>2. ~ (n - j < n - i)
    BY <1>2, <1>3, <2>1
  <2>3. i \in Nat /\ j \in Nat
    OBVIOUS
  <2> QED
    BY <2>2, <2>3
<1> QED
  BY <1>4

\* The positions of the writes to one block.
At(writes, k) == {i \in 1 .. Len(writes) : writes[i].block = k}

LEMMA AppliedAt ==
  ASSUME NEW blocks, NEW writes, Len(writes) \in Nat, NEW k \in Blocks
  PROVE  \/ At(writes, k) = {} /\ Applied(blocks, writes)[k] = blocks[k]
         \/ \E i \in At(writes, k) :
               /\ \A j \in At(writes, k) : j <= i
               /\ Applied(blocks, writes)[k] = writes[i].id
<1> DEFINE at == {i \in 1 .. Len(writes) : writes[i].block = k}
           last == CHOOSE i \in at : \A j \in at : j <= i
<1>1. Applied(blocks, writes)[k] =
         IF at = {} THEN blocks[k] ELSE writes[last].id
  BY DEF Applied
<1>2. at = At(writes, k)
  BY DEF At
<1>3. CASE at = {}
  BY <1>1, <1>2, <1>3
<1>4. CASE at # {}
  <2>1. \E i \in at : \A j \in at : j <= i
    <3>1. at \in SUBSET (1 .. Len(writes))
      OBVIOUS
    <3> HIDE DEF at
    <3> QED
      BY <1>4, <3>1, LastExists
  <2>2. last \in at /\ \A j \in at : j <= last
    <3> HIDE DEF at
    <3> QED
      BY <2>1
  <2> HIDE DEF at, last
  <2> QED
    BY <1>1, <1>2, <1>4, <2>2
<1> QED
  BY <1>3, <1>4

LEMMA AppliedType ==
  ASSUME NEW blocks \in [Blocks -> 0 .. MaxWrites], NEW writes \in Seq(Write)
  PROVE  Applied(blocks, writes) \in [Blocks -> 0 .. MaxWrites]
<1>1. ASSUME NEW k \in Blocks PROVE Applied(blocks, writes)[k] \in 0 .. MaxWrites
  <2>1. Len(writes) \in Nat /\ blocks[k] \in 0 .. MaxWrites
    OBVIOUS
  <2>2. ASSUME NEW i \in At(writes, k) PROVE writes[i].id \in 0 .. MaxWrites
    <3>1. writes[i] \in Write
      BY <2>1 DEF At
    <3> QED
      BY <3>1 DEF Write
  <2> QED
    BY <2>1, <2>2, AppliedAt
<1>2. Applied(blocks, writes) = [k \in Blocks |-> Applied(blocks, writes)[k]]
  BY DEF Applied
<1> QED
  BY <1>1, <1>2

LEMMA AppliedNone ==
  ASSUME NEW blocks, NEW k \in Blocks
  PROVE  Applied(blocks, <<>>)[k] = blocks[k]
BY AppliedAt DEF At

(* One more write sets its block and no other.                             *)
LEMMA AppliedAppend ==
  ASSUME NEW blocks, NEW writes \in Seq(Write), NEW w \in Write,
         NEW k \in Blocks
  PROVE  Applied(blocks, Append(writes, w))[k] =
            IF k = w.block THEN w.id ELSE Applied(blocks, writes)[k]
<1> DEFINE more == Append(writes, w)  n == Len(writes)
<1>1. /\ n \in Nat /\ Len(more) = n + 1
      /\ more[n + 1] = w
      /\ \A i \in 1 .. n : more[i] = writes[i]
  OBVIOUS
<1>2. CASE k = w.block
  <2>1. n + 1 \in At(more, k)
    BY <1>1, <1>2 DEF At
  <2>2. PICK i \in At(more, k) :
           /\ \A j \in At(more, k) : j <= i
           /\ Applied(blocks, more)[k] = more[i].id
    <3>1. Len(more) \in Nat /\ k \in Blocks /\ At(more, k) # {}
      BY <1>1, <2>1
    <3> HIDE DEF more
    <3> QED
      BY <3>1, AppliedAt
  <2>3. i = n + 1
    BY <1>1, <2>1, <2>2 DEF At
  <2> QED
    BY <1>1, <1>2, <2>2, <2>3
<1>3. CASE k # w.block
  <2>1. At(more, k) = At(writes, k)
    BY <1>1, <1>3 DEF At
  <2>2. CASE At(writes, k) = {}
    <3>1. Len(more) \in Nat /\ Len(writes) \in Nat /\ At(more, k) = {}
      BY <1>1, <2>1, <2>2
    <3> HIDE DEF more
    <3>2. Applied(blocks, more)[k] = blocks[k]
      BY <3>1, AppliedAt
    <3>3. Applied(blocks, writes)[k] = blocks[k]
      BY <2>2, <3>1, AppliedAt
    <3> QED
      BY <1>3, <3>2, <3>3 DEF more
  <2>3. CASE At(writes, k) # {}
    <3>1. PICK i \in At(writes, k) :
             /\ \A j \in At(writes, k) : j <= i
             /\ Applied(blocks, writes)[k] = writes[i].id
      BY <1>1, <2>3, AppliedAt
    <3>2. PICK l \in At(more, k) :
             /\ \A j \in At(more, k) : j <= l
             /\ Applied(blocks, more)[k] = more[l].id
      <4>1. Len(more) \in Nat /\ At(more, k) # {}
        BY <1>1, <2>1, <2>3
      <4> HIDE DEF more
      <4> QED
        BY <4>1, AppliedAt
    <3>3. i = l /\ more[i] = writes[i]
      BY <1>1, <2>1, <3>1, <3>2 DEF At
    <3> QED
      BY <1>3, <3>1, <3>2, <3>3
  <2> QED
    BY <2>2, <2>3
<1> QED
  BY <1>2, <1>3

-----------------------------------------------------------------------------
(* Types, whatever fails.                                                  *)

\* The type invariant by parts.
ClientType ==
    /\ op \in {"none", "write", "fsync"} /\ cpc \in {"idle", "send", "commit"}
    /\ file \in Files /\ pos \in Nat /\ tries \in 0 .. MaxTries
    /\ call \in Workers \union {NoWorker} /\ cEpoch \in Nat
ServerType ==
    /\ epoch \in Nat /\ up \in BOOLEAN
    /\ table \in [Files -> Buffers \union {NoBuffer}]
    /\ used \in 0 .. MaxBuffers
    /\ holder \in [Buffers -> Workers \union {NoWorker}]
DataType ==
    /\ content \in [Files -> [Blocks -> 0 .. MaxWrites]]
    /\ acked \in [Files -> [Blocks -> 0 .. MaxWrites]]
    /\ durable \in [Files -> [Blocks -> 0 .. MaxWrites]]
    /\ written \in 0 .. MaxWrites
CountType ==
    commits \in Nat /\ crashes \in Nat /\ breaks \in Nat /\ failures \in Nat

LEMMA TypeParts ==
  TypeOK <=> /\ ClientType /\ ServerType /\ DataType /\ CountType
             /\ asyncBufs \in [Files -> Seq(Write)]
             /\ heap \in [Buffers -> Seq(Write)]
BY DEF TypeOK, ClientType, ServerType, DataType, CountType

LEMMA JobFacts ==
  ASSUME NEW r, JobOK(r)
  PROVE  /\ r.pc = "get" => r.file \in Files /\ r.write \in Write
         /\ r.pc = "insert" => r.file \in Files /\ r.write \in Write
         /\ r.pc = "push" => /\ r.file \in Files /\ r.write \in Write
                             /\ r.buffer \in Buffers
         /\ r.pc = "take" => r.file \in Files
         /\ r.pc = "lock" => r.file \in Files /\ r.buffer \in Buffers
         /\ r.pc = "copy" => /\ r \in [pc : {"copy"}, file : Files, buffer : Buffers]
                             /\ r.file \in Files /\ r.buffer \in Buffers
         /\ r.pc = "rename" => /\ r.file \in Files /\ r.buffer \in Buffers
                               /\ r.copy \in [Blocks -> 0 .. MaxWrites]
         /\ r.pc = "reply" => r.ok \in BOOLEAN
BY DEF JobOK, Idle

LEMMA JobStep ==
  ASSUME ProtocolInv, NEW h \in Workers, NEW r, JobOK(r),
         job' = [job EXCEPT ![h] = r]
  PROVE  DOMAIN job' = Workers /\ \A g \in Workers : JobOK(job'[g])
<1>1. DOMAIN job = Workers /\ \A g \in Workers : JobOK(job[g])
  BY DEF ProtocolInv
<1>2. job'[h] = r /\ \A g \in Workers \ {h} : job'[g] = job[g]
  BY <1>1
<1> QED
  BY <1>1, <1>2

LEMMA InitEstablishesProtocolInv == Init => ProtocolInv
<1> SUFFICES ASSUME Init PROVE ProtocolInv
  OBVIOUS
<1>1. Blank \in [Files -> [Blocks -> 0 .. MaxWrites]]
  BY DEF Blank
<1>2. TypeOK
  <2>1. asyncBufs \in [Files -> Seq(Write)] /\ heap \in [Buffers -> Seq(Write)]
    BY DEF Init
  <2>2. table \in [Files -> Buffers \union {NoBuffer}]
    BY DEF Init
  <2>3. holder \in [Buffers -> Workers \union {NoWorker}]
    BY DEF Init
  <2> QED
    BY <1>1, <2>1, <2>2, <2>3 DEF Init, TypeOK
<1>3. DOMAIN job = Workers /\ \A h \in Workers : JobOK(job[h])
  BY DEF Init, JobOK
<1> QED
  BY <1>2, <1>3 DEF Init, ProtocolInv, ClientOK, EpochsGrow

LEMMA AppKeeps == ASSUME ProtocolInv, AppWrite \/ AppFsync PROVE ProtocolInv'
<1> USE DEF ProtocolInv
<1>1. CASE AppWrite
  <2> USE <1>1 DEF AppWrite
  <2>1. PICK f \in Files, k \in Blocks :
           /\ asyncBufs' = [asyncBufs EXCEPT
                              ![f] = Append(@, [block |-> k, id |-> written'])]
           /\ file' = f
           /\ pos' = Len(asyncBufs'[f])
    OBVIOUS
  <2>2. written' \in 1 .. MaxWrites
    BY DEF TypeOK
  <2>3. [block |-> k, id |-> written'] \in Write
    BY <2>2 DEF Write
  <2>4. /\ asyncBufs' \in [Files -> Seq(Write)]
        /\ Len(asyncBufs'[f]) = Len(asyncBufs[f]) + 1
    <3> DEFINE w == [block |-> k, id |-> written']
    <3>1. asyncBufs \in [Files -> Seq(Write)] /\ asyncBufs[f] \in Seq(Write)
      BY DEF TypeOK
    <3>2. w \in Write
      BY <2>3
    <3>3. asyncBufs' = [asyncBufs EXCEPT ![f] = Append(@, w)]
      BY <2>1
    <3> HIDE <1>1 DEF w
    <3>4. /\ Append(asyncBufs[f], w) \in Seq(Write)
          /\ Len(Append(asyncBufs[f], w)) = Len(asyncBufs[f]) + 1
      BY <3>1, <3>2
    <3> QED
      BY <3>1, <3>3, <3>4
  <2>5. Len(asyncBufs[f]) \in Nat
    BY DEF TypeOK
  <2>6. TypeOK'
    <3>1. ClientType'
      BY <2>1, <2>4, <2>5 DEF TypeOK, ClientType
    <3>2. ServerType' /\ heap' \in [Buffers -> Seq(Write)]
      BY DEF TypeOK, ServerType, server
    <3>3. DataType'
      <4>1. UNCHANGED <<content, acked, durable>>
        BY DEF server
      <4>2. DataType /\ written' \in 0 .. MaxWrites
        BY <2>2, TypeParts
      <4> HIDE <1>1
      <4> QED
        BY <4>1, <4>2 DEF DataType
    <3>4. CountType'
      BY TypeParts DEF CountType, bounds
    <3> HIDE <1>1
    <3> QED
      BY <2>4, <3>1, <3>2, <3>3, <3>4
      DEF TypeOK, ClientType, ServerType, DataType, CountType
  <2>7. ClientOK'
    BY <2>1, <2>4, <2>5 DEF ClientOK
  <2> QED
    BY <2>6, <2>7 DEF EpochsGrow, server
<1>2. CASE AppFsync
  <2> USE <1>2 DEF AppFsync
  <2>1. TypeOK'
    BY DEF TypeOK, server, observed
  <2>2. ClientOK'
    BY DEF ClientOK
  <2> QED
    BY <2>1, <2>2 DEF EpochsGrow, server
<1> QED
  BY <1>1, <1>2

LEMMA AttemptKeeps ==
  ASSUME ProtocolInv, GiveUp \/ CallFails \/ CallLost \/ Break
  PROVE  ProtocolInv'
<1> USE DEF ProtocolInv
<1>1. CASE GiveUp
  BY <1>1 DEF GiveUp, Done, TypeOK, ClientOK, EpochsGrow, server, observed, bounds
<1>2. CASE CallFails
  BY <1>2 DEF CallFails, CanTry, TypeOK, ClientOK, EpochsGrow, server, observed,
     bounds
<1>3. CASE CallLost
  BY <1>3 DEF CallLost, CanTry, TypeOK, ClientOK, EpochsGrow, server, observed
<1>4. CASE Break
  BY <1>4 DEF Break, TypeOK, ClientOK, EpochsGrow, server, observed
<1> QED
  BY <1>1, <1>2, <1>3, <1>4

LEMMA CallKeeps == ASSUME ProtocolInv, Call PROVE ProtocolInv'
<1> USE DEF ProtocolInv
<1>1. PICK h \in Workers :
         /\ job[h] = Idle
         /\ call' = h
         /\ job' = [job EXCEPT ![h] =
                      IF cpc = "send"
                      THEN [pc |-> "get", file |-> file,
                            write |-> asyncBufs[file][pos]]
                      ELSE [pc |-> "take", file |-> file]]
  BY DEF Call
<1>2. cpc = "send" => asyncBufs[file][pos] \in Write
  BY DEF TypeOK, ClientOK
<1>3. DOMAIN job' = Workers /\ \A g \in Workers : JobOK(job'[g])
  <2> DEFINE r == IF cpc = "send"
                  THEN [pc |-> "get", file |-> file, write |-> asyncBufs[file][pos]]
                  ELSE [pc |-> "take", file |-> file]
  <2>1. JobOK(r)
    BY <1>2 DEF JobOK, TypeOK
  <2>2. job' = [job EXCEPT ![h] = r]
    BY <1>1
  <2> HIDE DEF r
  <2> QED
    BY <2>1, <2>2, JobStep
<1>4. TypeOK' /\ ClientOK' /\ EpochsGrow'
  BY <1>1 DEF Call, CanTry, TypeOK, ClientOK, EpochsGrow, observed, bounds
<1> QED
  BY <1>3, <1>4

\* What a step of the server leaves alone.
ServeFrame ==
    UNCHANGED <<op, cpc, file, pos, tries, call, cEpoch, asyncBufs, up, epoch,
                written, acked, durable, commits, crashes, breaks>>

LEMMA ServeFrames == ASSUME NEW h, Serve(h) PROVE ServeFrame
BY DEF Serve, Get, Insert, Push, Take, LockBuffer, Copy, CopyFails, Rename,
   ServeFrame, client, observed, bounds

LEMMA ServeKeeps == ASSUME ProtocolInv, NEW h \in Workers, Serve(h) PROVE ProtocolInv'
<1> USE DEF ProtocolInv
<1> DEFINE r == job[h]
<1>1. JobOK(r)
  OBVIOUS
<1>2. SUFFICES
        /\ ServerType' /\ heap' \in [Buffers -> Seq(Write)]
        /\ content' \in [Files -> [Blocks -> 0 .. MaxWrites]]
        /\ failures' \in Nat
        /\ \E s : JobOK(s) /\ job' = [job EXCEPT ![h] = s]
  <2>1. ServeFrame
    BY ServeFrames
  <2>2. ClientType' /\ asyncBufs' \in [Files -> Seq(Write)]
    BY <2>1, TypeParts DEF ServeFrame, ClientType
  <2>3. DataType' /\ CountType'
    BY <1>2, <2>1, TypeParts DEF ServeFrame, DataType, CountType
  <2>4. TypeOK'
    BY <1>2, <2>2, <2>3
    DEF TypeOK, ClientType, ServerType, DataType, CountType
  <2>5. ClientOK' /\ EpochsGrow'
    BY <2>1 DEF ServeFrame, ClientOK, EpochsGrow
  <2>6. DOMAIN job' = Workers /\ \A g \in Workers : JobOK(job'[g])
    BY <1>2, JobStep
  <2> QED
    BY <2>4, <2>5, <2>6
<1>3. /\ ServerType /\ heap \in [Buffers -> Seq(Write)]
      /\ content \in [Files -> [Blocks -> 0 .. MaxWrites]]
      /\ failures \in Nat
  BY TypeParts DEF DataType, CountType
<1>4. CASE Get(h)
  <2> USE <1>4 DEF Get
  <2> DEFINE b == table[r.file]
             s == WithBuffer(r, IF b = NoBuffer THEN "insert" ELSE "push", b)
  <2>1. r.file \in Files /\ r.write \in Write /\ b \in Buffers \union {NoBuffer}
    BY <1>1, <1>3, JobFacts DEF ServerType
  <2>2. JobOK(s)
    BY <2>1 DEF JobOK, WithBuffer
  <2>3. job' = [job EXCEPT ![h] = s]
    OBVIOUS
  <2>4. ServerType'
    BY <1>3 DEF ServerType
  <2>5. UNCHANGED <<heap, content, failures>>
    BY DEF bounds
  <2> HIDE <1>4 DEF s
  <2> QED
    BY <1>3, <2>2, <2>3, <2>4, <2>5
<1>5. CASE Insert(h)
  <2> USE <1>5 DEF Insert
  <2> DEFINE s == WithBuffer(r, "push", used')
  <2>1. r.file \in Files /\ r.write \in Write
    BY <1>1, JobFacts
  <2>2. used' \in Buffers
    BY <1>3 DEF ServerType, Buffers
  <2>3. JobOK(s)
    BY <2>1, <2>2 DEF JobOK, WithBuffer
  <2>4. job' = [job EXCEPT ![h] = s]
    OBVIOUS
  <2>5. ServerType'
    <3>1. used' \in 0 .. MaxBuffers
      BY <2>2 DEF Buffers
    <3>2. table' = [table EXCEPT ![r.file] = used']
      OBVIOUS
    <3>3. UNCHANGED <<epoch, up, holder>>
      OBVIOUS
    <3> HIDE <1>5
    <3> QED
      BY <1>3, <2>2, <3>1, <3>2, <3>3 DEF ServerType
  <2>6. UNCHANGED <<heap, content, failures>>
    BY DEF bounds
  <2> HIDE <1>5 DEF s
  <2> QED
    BY <1>3, <2>3, <2>4, <2>5, <2>6
<1>6. CASE Push(h)
  <2> USE <1>6 DEF Push
  <2>1. r.write \in Write /\ r.buffer \in Buffers
    BY <1>1, JobFacts
  <2>2. Append(heap[r.buffer], r.write) \in Seq(Write)
    BY <1>3, <2>1
  <2>3. heap' \in [Buffers -> Seq(Write)]
    BY <1>3, <2>2
  <2>4. JobOK([pc |-> "reply", ok |-> TRUE])
    BY DEF JobOK
  <2>5. job' = [job EXCEPT ![h] = [pc |-> "reply", ok |-> TRUE]]
    BY DEF Answer
  <2>6. ServerType'
    BY <1>3 DEF ServerType
  <2>7. UNCHANGED <<content, failures>>
    BY DEF bounds
  <2> HIDE <1>6
  <2> QED
    BY <1>3, <2>3, <2>4, <2>5, <2>6, <2>7
<1>7. CASE Take(h)
  <2> USE <1>7 DEF Take
  <2> DEFINE f == r.file
             s == IF table[f] = NoBuffer THEN [pc |-> "reply", ok |-> TRUE]
                  ELSE [pc |-> "lock", file |-> f, buffer |-> table[f]]
  <2>1. f \in Files /\ table[f] \in Buffers \union {NoBuffer}
    BY <1>1, <1>3, JobFacts DEF ServerType
  <2>2. JobOK(s)
    BY <2>1 DEF JobOK
  <2>3. job' = [job EXCEPT ![h] = s]
    BY DEF Answer
  <2>4. ServerType'
    BY <1>3 DEF ServerType
  <2>5. UNCHANGED <<heap, content, failures>>
    BY DEF bounds
  <2> HIDE <1>7 DEF s
  <2> QED
    BY <1>3, <2>2, <2>3, <2>4, <2>5
<1>8. CASE LockBuffer(h)
  <2> USE <1>8 DEF LockBuffer
  <2> DEFINE b == r.buffer
             s == IF heap[b] = <<>> THEN [pc |-> "reply", ok |-> TRUE]
                  ELSE [pc |-> "copy", file |-> r.file, buffer |-> b]
  <2>1. r \in [pc : {"lock"}, file : Files, buffer : Buffers]
    BY <1>1 DEF JobOK, Idle
  <2>2. JobOK(s)
    BY <2>1 DEF JobOK
  <2>3. job' = [job EXCEPT ![h] = s]
    <3>1. CASE heap[b] = <<>>
      BY <3>1 DEF Answer
    <3>2. CASE heap[b] # <<>>
      <4>1. [r EXCEPT !.pc = "copy"] = [pc |-> "copy", file |-> r.file, buffer |-> b]
        BY <2>1
      <4>2. job' = [job EXCEPT ![h] = [r EXCEPT !.pc = "copy"]]
        BY <3>2
      <4> QED
        BY <3>2, <4>1, <4>2
    <3> QED
      BY <3>1, <3>2
  <2>4. ServerType'
    BY <1>3 DEF ServerType
  <2>5. UNCHANGED <<heap, content, failures>>
    BY DEF bounds
  <2> HIDE <1>8 DEF s
  <2> QED
    BY <1>3, <2>2, <2>3, <2>4, <2>5
<1>9. CASE Copy(h)
  <2> USE <1>9 DEF Copy
  <2> DEFINE s == [pc |-> "rename", file |-> r.file, buffer |-> r.buffer,
                   copy |-> content[r.file]]
  <2>1. /\ r.file \in Files /\ r.buffer \in Buffers
        /\ content[r.file] \in [Blocks -> 0 .. MaxWrites]
    BY <1>1, <1>3, JobFacts
  <2>2. JobOK(s)
    BY <2>1 DEF JobOK
  <2>3. job' = [job EXCEPT ![h] = s]
    OBVIOUS
  <2>4. ServerType'
    BY <1>3 DEF ServerType
  <2>5. UNCHANGED <<heap, content, failures>>
    BY DEF bounds
  <2> HIDE <1>9 DEF s
  <2> QED
    BY <1>3, <2>2, <2>3, <2>4, <2>5
<1>10. CASE CopyFails(h)
  <2> USE <1>10 DEF CopyFails
  <2>1. JobOK([pc |-> "reply", ok |-> FALSE])
    BY DEF JobOK
  <2>2. job' = [job EXCEPT ![h] = [pc |-> "reply", ok |-> FALSE]]
    BY DEF Answer
  <2>3. ServerType'
    BY <1>3 DEF ServerType
  <2>4. UNCHANGED <<heap, content>> /\ failures' \in Nat
    BY <1>3
  <2> HIDE <1>10
  <2> QED
    BY <1>3, <2>1, <2>2, <2>3, <2>4
<1>11. CASE Rename(h)
  <2> USE <1>11 DEF Rename
  <2>1. /\ r.file \in Files /\ r.buffer \in Buffers
        /\ r.copy \in [Blocks -> 0 .. MaxWrites]
        /\ heap[r.buffer] \in Seq(Write)
    BY <1>1, <1>3, JobFacts
  <2>2. Applied(r.copy, heap[r.buffer]) \in [Blocks -> 0 .. MaxWrites]
    BY <2>1, AppliedType
  <2>3. content' \in [Files -> [Blocks -> 0 .. MaxWrites]]
    BY <1>3, <2>2
  <2>4. heap' \in [Buffers -> Seq(Write)]
    <3>1. <<>> \in Seq(Write) /\ heap' = [heap EXCEPT ![r.buffer] = <<>>]
      OBVIOUS
    <3> HIDE <1>11
    <3> QED
      BY <1>3, <3>1
  <2>5. JobOK([pc |-> "reply", ok |-> TRUE])
    BY DEF JobOK
  <2>6. job' = [job EXCEPT ![h] = [pc |-> "reply", ok |-> TRUE]]
    BY DEF Answer
  <2>7. ServerType'
    BY <1>3 DEF ServerType
  <2>8. failures' = failures
    BY DEF bounds
  <2> HIDE <1>11
  <2> QED
    BY <1>3, <2>3, <2>4, <2>5, <2>6, <2>7, <2>8
<1> QED
  BY <1>4, <1>5, <1>6, <1>7, <1>8, <1>9, <1>10, <1>11 DEF Serve

\* What taking a reply leaves alone.
ReplyFrame ==
    UNCHANGED <<file, up, epoch, table, heap, used, holder, content, written,
                bounds>>

LEMMA ReplyFrames == ASSUME NEW h, TakeReply(h) PROVE ReplyFrame
BY DEF TakeReply, WriteReply, LastWriteReply, CommitReply, CommitReplyNewEpoch,
   ErrorReply, LateReply, Done, ReplyFrame, client, observed, bounds

LEMMA ReplyKeeps == ASSUME ProtocolInv, NEW h \in Workers, TakeReply(h) PROVE ProtocolInv'
<1> USE DEF ProtocolInv
<1>1. ReplyFrame /\ Replied(h)
  BY ReplyFrames
  DEF TakeReply, WriteReply, LastWriteReply, CommitReply, CommitReplyNewEpoch,
      ErrorReply, LateReply
<1>2. DOMAIN job' = Workers /\ \A g \in Workers : JobOK(job'[g])
  <2>1. JobOK(Idle)
    BY DEF JobOK
  <2>2. job' = [job EXCEPT ![h] = Idle]
    BY <1>1 DEF Replied
  <2> QED
    BY <2>1, <2>2, JobStep
<1>3. SUFFICES
        /\ ClientType' /\ asyncBufs' \in [Files -> Seq(Write)]
        /\ acked' \in [Files -> [Blocks -> 0 .. MaxWrites]]
        /\ durable' \in [Files -> [Blocks -> 0 .. MaxWrites]]
        /\ ClientOK' /\ cEpoch' <= epoch
  <2>1. ServerType' /\ heap' \in [Buffers -> Seq(Write)]
    BY <1>1, TypeParts DEF ReplyFrame, ServerType
  <2>2. DataType' /\ CountType'
    BY <1>1, <1>3, TypeParts DEF ReplyFrame, DataType, CountType, bounds
  <2>3. TypeOK'
    BY <1>3, <2>1, <2>2
    DEF TypeOK, ClientType, ServerType, DataType, CountType
  <2>4. EpochsGrow'
    BY <1>1, <1>3 DEF ReplyFrame, EpochsGrow
  <2> QED
    BY <1>2, <1>3, <2>3, <2>4
<1>4. /\ ClientType /\ asyncBufs \in [Files -> Seq(Write)]
      /\ acked \in [Files -> [Blocks -> 0 .. MaxWrites]]
      /\ durable \in [Files -> [Blocks -> 0 .. MaxWrites]]
      /\ file' = file /\ epoch \in Nat /\ cEpoch <= epoch
      /\ ClientOK
  BY <1>1, TypeParts DEF ReplyFrame, DataType, ServerType, EpochsGrow
<1>5. Len(asyncBufs[file]) \in Nat
  BY <1>4 DEF ClientType
<1>6. CASE WriteReply(h)
  <2> USE <1>6 DEF WriteReply
  <2>1. UNCHANGED <<op, cpc, asyncBufs, acked, durable>>
    BY DEF observed
  <2>2. pos' \in Nat \ {0} /\ pos' <= Len(asyncBufs[file])
    BY <1>4 DEF NextPos, ClientType
  <2>3. cEpoch' = epoch /\ call' = NoWorker /\ tries' = 0 /\ cpc = "send"
    OBVIOUS
  <2> HIDE <1>6
  <2>4. ClientType' /\ ClientOK'
    BY <1>4, <2>1, <2>2, <2>3 DEF ClientType, ClientOK
  <2> QED
    BY <1>4, <2>1, <2>3, <2>4
<1>7. CASE LastWriteReply(h)
  <2> USE <1>7 DEF LastWriteReply
  <2>1. UNCHANGED <<asyncBufs, durable>> /\ cEpoch' = epoch /\ call' = NoWorker
    OBVIOUS
  <2>2. ClientType' /\ ClientOK'
    BY <1>4, <2>1 DEF ClientType, ClientOK, Done
  <2>3. acked' \in [Files -> [Blocks -> 0 .. MaxWrites]]
    <3> DEFINE w == asyncBufs[file][Len(asyncBufs[file])]
    <3>1. Len(asyncBufs[file]) > 0
      BY <1>4, <1>5 DEF ClientOK, ClientType
    <3>2. w \in Write
      BY <1>4, <1>5, <3>1 DEF ClientType
    <3>3. w.block \in Blocks /\ w.id \in 0 .. MaxWrites
      BY <3>2 DEF Write
    <3>4. acked' = [acked EXCEPT ![file][w.block] = w.id] \/ acked' = acked
      OBVIOUS
    <3> HIDE <1>7 DEF w
    <3>5. file \in Files /\ acked[file] \in [Blocks -> 0 .. MaxWrites]
      BY <1>4 DEF ClientType
    <3>6. [acked[file] EXCEPT ![w.block] = w.id] \in [Blocks -> 0 .. MaxWrites]
      BY <3>3, <3>5
    <3> QED
      BY <1>4, <3>4, <3>5, <3>6
  <2> QED
    BY <1>4, <2>1, <2>2, <2>3
<1>8. CASE CommitReply(h)
  <2> USE <1>8 DEF CommitReply
  <2>1. asyncBufs' \in [Files -> Seq(Write)]
    <3>1. <<>> \in Seq(Write) /\ asyncBufs' = [asyncBufs EXCEPT ![file] = <<>>]
      OBVIOUS
    <3> HIDE <1>8
    <3> QED
      BY <1>4, <3>1
  <2>2. durable' \in [Files -> [Blocks -> 0 .. MaxWrites]]
    BY <1>4 DEF ClientType
  <2>3. ClientType' /\ ClientOK'
    BY <1>4 DEF ClientType, ClientOK, Done
  <2> QED
    BY <1>4, <2>1, <2>2, <2>3
<1>9. CASE CommitReplyNewEpoch(h)
  <2> USE <1>9 DEF CommitReplyNewEpoch
  <2>1. UNCHANGED <<op, asyncBufs, acked, durable>>
    BY DEF observed
  <2>2. asyncBufs[file] # <<>> => 1 <= Len(asyncBufs[file])
    BY <1>4, <1>5 DEF ClientType
  <2>3. ClientType' /\ ClientOK'
    BY <1>4, <2>1, <2>2 DEF ClientType, ClientOK
  <2> QED
    BY <1>4, <2>1, <2>3
<1>10. CASE ErrorReply(h)
  BY <1>4, <1>10 DEF ErrorReply, ClientType, ClientOK, Done, observed
<1>11. CASE LateReply(h)
  BY <1>4, <1>11 DEF LateReply, ClientType, ClientOK, client, observed
<1> QED
  BY <1>6, <1>7, <1>8, <1>9, <1>10, <1>11 DEF TakeReply

LEMMA CrashKeeps == ASSUME ProtocolInv, Crash \/ Restart PROVE ProtocolInv'
<1> USE DEF ProtocolInv
<1>1. CASE Crash
  <2> USE <1>1 DEF Crash
  <2>1. ServerType'
    <3>1. table' \in [Files -> Buffers \union {NoBuffer}]
      OBVIOUS
    <3>2. holder' \in [Buffers -> Workers \union {NoWorker}]
      OBVIOUS
    <3>3. up' = FALSE /\ epoch' = epoch /\ used' = 0
      OBVIOUS
    <3>4. used' \in 0 .. MaxBuffers
      BY <3>3
    <3>5. epoch \in Nat
      BY TypeParts DEF ServerType
    <3> HIDE <1>1
    <3> QED
      BY <3>1, <3>2, <3>3, <3>4, <3>5 DEF ServerType
  <2>2. ClientType' /\ ClientOK' /\ EpochsGrow'
    BY TypeParts DEF ClientType, ClientOK, EpochsGrow
  <2>3. DataType' /\ CountType'
    BY TypeParts DEF DataType, CountType, observed
  <2>4. heap' \in [Buffers -> Seq(Write)] /\ asyncBufs' \in [Files -> Seq(Write)]
    <3>1. <<>> \in Seq(Write) /\ heap' = [b \in Buffers |-> <<>>]
      OBVIOUS
    <3>2. asyncBufs' = asyncBufs
      OBVIOUS
    <3> HIDE <1>1
    <3> QED
      BY <3>1, <3>2, TypeParts
  <2>5. TypeOK'
    BY <2>1, <2>2, <2>3, <2>4
    DEF TypeOK, ClientType, ServerType, DataType, CountType
  <2>6. DOMAIN job' = Workers /\ \A h \in Workers : JobOK(job'[h])
    BY DEF JobOK
  <2> QED
    BY <2>2, <2>5, <2>6
<1>2. CASE Restart
  <2> USE <1>2 DEF Restart
  <2>1. ServerType'
    BY TypeParts DEF ServerType, NewEpoch
  <2>2. ClientType' /\ ClientOK'
    BY TypeParts DEF ClientType, ClientOK, client
  <2>3. EpochsGrow'
    BY TypeParts DEF EpochsGrow, NewEpoch, ClientType, ServerType, client
  <2>4. DataType' /\ CountType'
    BY TypeParts DEF DataType, CountType, observed, bounds
  <2>5. UNCHANGED <<heap, asyncBufs, job>>
    BY DEF client
  <2> HIDE <1>2
  <2>6. heap' \in [Buffers -> Seq(Write)] /\ asyncBufs' \in [Files -> Seq(Write)]
    BY <2>5, TypeParts
  <2>7. TypeOK'
    BY <2>1, <2>2, <2>4, <2>6
    DEF TypeOK, ClientType, ServerType, DataType, CountType
  <2> QED
    BY <2>2, <2>3, <2>5, <2>7
<1> QED
  BY <1>1, <1>2

LEMMA StepPreservesProtocolInv == ProtocolInv /\ [Next]_vars => ProtocolInv'
<1> SUFFICES ASSUME ProtocolInv, [Next]_vars PROVE ProtocolInv'
  OBVIOUS
<1>1. CASE UNCHANGED vars
  <2>1. UNCHANGED <<op, cpc, file, pos, tries, call, cEpoch, asyncBufs, up,
                    epoch, table, heap, used, holder, job, content, written,
                    acked, durable, commits, crashes, breaks, failures>>
    BY <1>1 DEF vars, client, server, observed, bounds
  <2> QED
    BY <2>1 DEF ProtocolInv, TypeOK, ClientOK, EpochsGrow
<1>2. CASE Next
  BY <1>2, AppKeeps, AttemptKeeps, CallKeeps, ServeKeeps, ReplyKeeps, CrashKeeps
  DEF Next
<1> QED
  BY <1>1, <1>2

(* The client, the server and the workers keep the shapes handler/mod.rs   *)
(* and client_fuse.rs give them, whatever breaks: the client sends a write *)
(* that is in async_bufs, a request is in one of its stages with what that *)
(* stage needs, and no attempt is made beyond MAX_TRIES.                   *)
THEOREM ProtocolInvariant == Spec => []ProtocolInv
BY InitEstablishesProtocolInv, StepPreservesProtocolInv, PTL DEF Spec

-----------------------------------------------------------------------------
(* One file, and no failures but crashes.  Core is what the client's       *)
(* writes, the disk and the server's buffer say of each other; the rest of *)
(* Resendable is about the one call under way.                             *)

Core == /\ InSequence /\ Sent /\ NotBehind /\ LastIsNewest
        /\ NothingLost /\ FsyncDurable

CoreType ==
    /\ file \in Files /\ \A f \in Files : f = file
    /\ Sends \in Seq(Write) /\ Len(Sends) \in Nat
    /\ \A i \in 1 .. Len(Sends) : Sends[i].block \in Blocks /\ Sends[i].id \in Nat
    /\ content[file] \in [Blocks -> Nat] /\ View \in [Blocks -> Nat]
    /\ acked[file] \in [Blocks -> Nat] /\ durable[file] \in [Blocks -> Nat]
    /\ written \in Nat

LEMMA PendingType ==
  ASSUME ProtocolInv, OneCall
  PROVE  Pending \in Seq(Write)
<1>1. file \in Files /\ heap \in [Buffers -> Seq(Write)]
  BY DEF ProtocolInv, TypeOK
<1>2. CASE table[file] # NoBuffer
  <2>1. table[file] \in Buffers
    BY <1>1, <1>2 DEF ProtocolInv, TypeOK
  <2> QED
    BY <1>1, <1>2, <2>1 DEF Pending
<1>3. CASE /\ table[file] = NoBuffer
           /\ call # NoWorker /\ job[call].pc \in {"lock", "copy", "rename"}
  <2>1. JobOK(job[call])
    BY <1>3 DEF ProtocolInv, TypeOK
  <2>2. job[call].buffer \in Buffers
    BY <1>3, <2>1, JobFacts
  <2> QED
    BY <1>1, <1>3, <2>2 DEF Pending
<1>4. CASE /\ table[file] = NoBuffer
           /\ ~ (call # NoWorker /\ job[call].pc \in {"lock", "copy", "rename"})
  BY <1>4 DEF Pending
<1> QED
  BY <1>2, <1>3, <1>4

LEMMA CoreTypes ==
  ASSUME ProtocolInv, OneCall, CrashesOnly
  PROVE  CoreType
<1>1. file \in Files /\ \A f \in Files : f = file
  BY DEF ProtocolInv, TypeOK, CrashesOnly
<1>2. /\ asyncBufs \in [Files -> Seq(Write)]
      /\ DataType
  BY TypeParts DEF ProtocolInv
<1>3. Sends \in Seq(Write) /\ Len(Sends) \in Nat
  BY <1>1, <1>2 DEF Sends
<1>4. ASSUME NEW i \in 1 .. Len(Sends)
      PROVE  Sends[i].block \in Blocks /\ Sends[i].id \in Nat
  <2>1. Sends[i] \in Write
    BY <1>3
  <2> QED
    BY <2>1 DEF Write
<1>5. /\ content[file] \in [Blocks -> 0 .. MaxWrites]
      /\ acked[file] \in [Blocks -> 0 .. MaxWrites]
      /\ durable[file] \in [Blocks -> 0 .. MaxWrites]
      /\ written \in Nat
  BY <1>1, <1>2 DEF DataType
<1>6. View \in [Blocks -> 0 .. MaxWrites]
  BY <1>5, PendingType, AppliedType DEF View
<1> QED
  BY <1>1, <1>3, <1>4, <1>5, <1>6 DEF CoreType

(* A step that sends nothing, applies nothing and gives nothing up.        *)
LEMMA CoreFrame ==
  ASSUME Core, CoreType,
         UNCHANGED <<file, asyncBufs, content, written, acked, durable>>,
         View' = View, Unsent' = Unsent,
         Warm' => Warm \/ Unsent = 1
  PROVE  Core'
<1>1. Sends' = Sends /\ content'[file'] = content[file]
  BY DEF Sends
<1>2. InSequence' /\ LastIsNewest' /\ NotBehind'
  BY <1>1 DEF Core, InSequence, LastIsNewest, NotBehind
<1>3. Sent'
  BY <1>1 DEF Core, Sent
<1>4. NothingLost' /\ FsyncDurable'
  BY DEF Core, NothingLost, FsyncDurable
<1> QED
  BY <1>2, <1>3, <1>4 DEF Core

(* A step that ends or restarts the sending while the server has nothing   *)
(* of the client's.                                                        *)
LEMMA CoreCold ==
  ASSUME Core, CoreType,
         UNCHANGED <<file, asyncBufs, content, written, acked, durable>>,
         View' = content[file],
         Warm' => Unsent' = 1
  PROVE  Core'
<1>1. Sends' = Sends /\ content'[file'] = content[file]
  BY DEF Sends
<1>2. InSequence' /\ LastIsNewest'
  BY <1>1 DEF Core, InSequence, LastIsNewest
<1>3. NotBehind'
  BY <1>1 DEF NotBehind, CoreType
<1>4. Sent'
  BY <1>1 DEF Sent
<1>5. NothingLost' /\ FsyncDurable'
  BY DEF Core, NothingLost, FsyncDurable
<1> QED
  BY <1>2, <1>3, <1>4, <1>5 DEF Core

(* A new write, to be sent.                                                *)
LEMMA CoreNewWrite ==
  ASSUME Core, CoreType,
         UNCHANGED <<file, content, acked, durable>>,
         NEW w, w.block \in Blocks, w.id = written + 1, written' = w.id,
         asyncBufs' = [asyncBufs EXCEPT ![file] = Append(@, w)],
         file \in DOMAIN asyncBufs,
         View' = View, Warm' = Warm,
         Unsent = Len(Sends) + 1, Unsent' = Len(Sends) + 1
  PROVE  Core'
<1> DEFINE n == Len(Sends)
<1>1. /\ Sends' = Append(Sends, w) /\ content'[file'] = content[file]
      /\ n \in Nat
  BY DEF Sends, CoreType
<1>2. /\ Len(Sends') = n + 1 /\ Sends'[n + 1] = w
      /\ \A i \in 1 .. n : Sends'[i] = Sends[i]
  BY <1>1 DEF CoreType
<1>3. \A i \in 1 .. n + 1 : i \in 1 .. n \/ i = n + 1
  BY <1>1
<1> HIDE DEF n
<1>4. \A k \in Blocks : /\ content[file][k] \in Nat /\ View[k] \in Nat
                        /\ content[file][k] <= written /\ View[k] <= written
  BY DEF CoreType, Core, InSequence
<1>5. \A i \in 1 .. n : /\ Sends[i].id \in Nat /\ Sends[i].id <= written
                        /\ Sends[i].block \in Blocks
  BY DEF CoreType, Core, InSequence, n
<1>6. written \in Nat
  BY DEF CoreType
<1>7. InSequence'
  <2>1. ASSUME NEW i \in 1 .. n + 1
        PROVE  /\ Sends'[i].id <= written'
               /\ \A j \in 1 .. n + 1 : i < j => Sends'[i].id < Sends'[j].id
    <3>1. CASE i = n + 1
      BY <1>1, <1>2, <1>6, <3>1
    <3>2. CASE i \in 1 .. n
      <4>1. Sends[i].id \in Nat /\ Sends[i].id <= written /\ Sends'[i] = Sends[i]
        BY <1>2, <1>5, <3>2
      <4>2. \A j \in 1 .. n : i < j => Sends[i].id < Sends[j].id
        BY <3>2 DEF Core, InSequence, n
      <4> QED
        BY <1>1, <1>2, <1>3, <1>6, <4>1, <4>2, SMTT(30)
    <3> QED
      BY <1>3, <3>1, <3>2
  <2>2. \A k \in Blocks :
           content'[file'][k] <= written' /\ View'[k] <= written'
    BY <1>1, <1>4, <1>6
  <2> QED
    BY <1>2, <2>1, <2>2 DEF InSequence
<1>8. Sent'
  <2>1. \A i \in 1 .. n + 1 : i < Unsent' => i \in 1 .. n
    BY <1>1, <1>3 DEF n
  <2>2. Warm => \A i \in 1 .. n : View[Sends[i].block] >= Sends[i].id
    BY <1>1 DEF Core, Sent, n
  <2> QED
    BY <1>2, <2>1, <2>2 DEF Sent
<1>9. NotBehind'
  <2>1. \A k \in Blocks : content[file][k] <= View[k]
    BY <1>1 DEF Core, NotBehind, n
  <2> QED
    BY <1>1, <2>1 DEF NotBehind
<1>10. LastIsNewest'
  <2>1. ASSUME NEW i \in 1 .. n + 1
        PROVE  /\ \E j \in i .. n + 1 :
                     /\ Sends'[j].block = Sends'[i].block
                     /\ content'[file'][Sends'[i].block] <= Sends'[j].id
               /\ \E j \in i .. n + 1 :
                     /\ Sends'[j].block = Sends'[i].block
                     /\ View'[Sends'[i].block] <= Sends'[j].id
    <3>1. CASE i = n + 1
      <4>1. i \in i .. n + 1 /\ Sends'[i] = w
        BY <1>1, <1>2, <3>1
      <4>2. content[file][w.block] <= w.id /\ View[w.block] <= w.id
        BY <1>4, <1>6
      <4> QED
        BY <1>1, <4>1, <4>2
    <3>2. CASE i \in 1 .. n
      <4>1. /\ \E j \in i .. n : /\ Sends[j].block = Sends[i].block
                                 /\ content[file][Sends[i].block] <= Sends[j].id
            /\ \E j \in i .. n : /\ Sends[j].block = Sends[i].block
                                 /\ View[Sends[i].block] <= Sends[j].id
        BY <3>2 DEF Core, LastIsNewest, n
      <4>2. \A j \in i .. n : j \in i .. n + 1 /\ j \in 1 .. n
        BY <1>1, <3>2
      <4> QED
        BY <1>1, <1>2, <3>2, <4>1, <4>2
    <3> QED
      BY <1>3, <3>1, <3>2
  <2> QED
    BY <1>2, <2>1 DEF LastIsNewest
<1>11. NothingLost'
  <2>1. ASSUME NEW k \in Blocks
        PROVE  \/ content[file][k] >= acked[file][k]
               \/ \E i \in 1 .. n + 1 : /\ Sends'[i].block = k
                                        /\ Sends'[i].id >= acked[file][k]
    <3>1. \/ content[file][k] >= acked[file][k]
          \/ \E i \in 1 .. n : Sends[i].block = k /\ Sends[i].id >= acked[file][k]
      BY DEF Core, NothingLost, CoreType, Sends, n
    <3>2. \A i \in 1 .. n : i \in 1 .. n + 1
      BY <1>1
    <3> QED
      BY <1>2, <3>1, <3>2
  <2>2. \A f \in Files : f = file
    BY DEF CoreType
  <2> QED
    BY <1>1, <1>2, <2>1, <2>2, SMTT(30) DEF NothingLost, Sends
<1>12. FsyncDurable'
  BY DEF Core, FsyncDurable
<1> QED
  BY <1>7, <1>8, <1>9, <1>10, <1>11, <1>12 DEF Core

(* The server takes a write into its buffer: the first unsent one, or, in  *)
(* a new epoch, one after which the client starts over.                    *)
LEMMA CorePush ==
  ASSUME Core, CoreType,
         UNCHANGED <<file, asyncBufs, content, written, acked, durable>>,
         NEW p \in 1 .. Len(Sends), Unsent = p,
         \A k \in Blocks :
            View'[k] = IF k = Sends[p].block THEN Sends[p].id ELSE View[k],
         Warm' = Warm,
         Unsent' = IF Warm THEN p + 1 ELSE 1
  PROVE  Core'
<1> DEFINE n == Len(Sends)  w == Sends[p]
<1>1. /\ Sends' = Sends /\ content'[file'] = content[file]
      /\ n \in Nat /\ p \in 1 .. n
  BY DEF Sends, CoreType
<1>2. \A k \in Blocks : View'[k] = IF k = w.block THEN w.id ELSE View[k]
  OBVIOUS
<1>3. \A i \in 1 .. n : /\ Sends[i].id \in Nat /\ Sends[i].id <= written
                        /\ Sends[i].block \in Blocks
  BY DEF CoreType, Core, InSequence
<1>4. \A k \in Blocks : content[file][k] \in Nat /\ View[k] \in Nat
  BY DEF CoreType
<1>5. \A i, j \in 1 .. n : i < j => Sends[i].id < Sends[j].id
  BY DEF Core, InSequence
<1>6. InSequence'
  BY <1>1, <1>2, <1>3 DEF Core, InSequence
<1>7. Sent'
  <2>1. ASSUME Warm, NEW i \in 1 .. n, i < p + 1
        PROVE  View'[Sends[i].block] >= Sends[i].id
    <3>1. CASE i = p
      BY <1>2, <1>3, <3>1
    <3>2. CASE i < p
      <4>1. View[Sends[i].block] >= Sends[i].id
        BY <2>1, <3>2 DEF Core, Sent
      <4>2. Sends[i].id < w.id
        BY <1>1, <1>5, <3>2
      <4>3. w.id >= Sends[i].id
        BY <1>1, <1>3, <4>2
      <4> QED
        BY <1>2, <1>3, <4>1, <4>3
    <3> QED
      BY <1>1, <2>1, <3>1, <3>2
  <2> QED
    BY <1>1, <2>1 DEF Sent
<1>8. NotBehind'
  <2>1. ASSUME NEW k \in Blocks
        PROVE  \/ content[file][k] <= View'[k]
               \/ \E i \in 1 .. n : i >= Unsent' /\ Sends[i].block = k
    <3>1. CASE k = w.block
      <4>1. PICK j \in p .. n : /\ Sends[j].block = w.block
                                /\ content[file][w.block] <= Sends[j].id
        BY DEF Core, LastIsNewest
      <4>2. j \in 1 .. n /\ j >= p
        BY <1>1, <4>1
      <4>3. CASE j = p
        BY <1>2, <3>1, <4>1, <4>3
      <4>4. CASE j # p
        <5>1. j >= p + 1 /\ j >= 1
          BY <1>1, <4>2, <4>4
        <5>2. j >= Unsent'
          BY <5>1
        <5> QED
          BY <3>1, <4>1, <4>2, <5>2
      <4> QED
        BY <4>3, <4>4
    <3>2. CASE k # w.block
      <4>1. \/ content[file][k] <= View[k]
            \/ \E i \in 1 .. n : i >= p /\ Sends[i].block = k
        BY DEF Core, NotBehind
      <4>2. \A i \in 1 .. n : i >= p /\ i # p => i >= Unsent'
        BY <1>1
      <4> QED
        BY <1>2, <3>2, <4>1, <4>2
    <3> QED
      BY <3>1, <3>2
  <2> QED
    BY <1>1, <2>1 DEF NotBehind
<1>9. LastIsNewest'
  <2>1. ASSUME NEW i \in 1 .. n
        PROVE  \E j \in i .. n : /\ Sends[j].block = Sends[i].block
                                 /\ View'[Sends[i].block] <= Sends[j].id
    <3>1. CASE Sends[i].block # w.block
      <4>1. PICK j \in i .. n : /\ Sends[j].block = Sends[i].block
                                /\ View[Sends[i].block] <= Sends[j].id
        BY DEF Core, LastIsNewest
      <4>2. View'[Sends[i].block] = View[Sends[i].block]
        BY <1>2, <1>3, <3>1
      <4> QED
        BY <4>1, <4>2
    <3>2. CASE Sends[i].block = w.block /\ i <= p
      <4>1. p \in i .. n /\ View'[Sends[i].block] = w.id /\ w.id \in Nat
        BY <1>1, <1>2, <1>3, <3>2
      <4>2. w.id <= w.id
        BY <4>1
      <4> QED
        BY <3>2, <4>1, <4>2
    <3>3. CASE Sends[i].block = w.block /\ i > p
      <4>1. i \in i .. n /\ View'[Sends[i].block] = w.id
        BY <1>1, <1>2, <1>3, <3>3
      <4>2. w.id < Sends[i].id /\ w.id \in Nat /\ Sends[i].id \in Nat
        BY <1>1, <1>3, <1>5, <3>3
      <4>3. w.id <= Sends[i].id
        BY <4>2
      <4> QED
        BY <4>1, <4>3
    <3> QED
      BY <1>1, <3>1, <3>2, <3>3
  <2>2. \A i \in 1 .. n :
           \E j \in i .. n : /\ Sends[j].block = Sends[i].block
                             /\ content[file][Sends[i].block] <= Sends[j].id
    BY DEF Core, LastIsNewest
  <2> QED
    BY <1>1, <2>1, <2>2 DEF LastIsNewest
<1>10. NothingLost' /\ FsyncDurable'
  BY DEF Core, NothingLost, FsyncDurable
<1> QED
  BY <1>6, <1>7, <1>8, <1>9, <1>10 DEF Core

(* A commit ends: the file is what the server had in view.                 *)
LEMMA CoreRename ==
  ASSUME Core, CoreType,
         UNCHANGED <<file, asyncBufs, written, acked, durable>>,
         content'[file] = View, View' = View, Warm' = Warm,
         Unsent = Len(Sends) + 1, Unsent' = Unsent
  PROVE  /\ Core'
         /\ \A k \in Blocks : content'[file][k] >= content[file][k]
<1>1. Sends' = Sends /\ content'[file'] = View
  BY DEF Sends
<1>2. \A k \in Blocks : /\ content[file][k] \in Nat /\ View[k] \in Nat
                        /\ acked[file][k] \in Nat /\ durable[file][k] \in Nat
  BY DEF CoreType
<1>3. \A k \in Blocks : content[file][k] <= View[k]
  <2>1. Len(Sends) \in Nat
    BY DEF CoreType
  <2> QED
    BY <2>1 DEF Core, NotBehind
<1>4. InSequence' /\ Sent' /\ LastIsNewest'
  BY <1>1 DEF Core, InSequence, Sent, LastIsNewest
<1>5. NotBehind'
  BY <1>1, <1>2 DEF NotBehind
<1>6. NothingLost' /\ FsyncDurable'
  <2>1. \A f \in Files : f = file
    BY DEF CoreType
  <2>2. ASSUME NEW k \in Blocks
        PROVE  /\ View[k] >= durable[file][k]
               /\ \/ View[k] >= acked[file][k]
                  \/ \E i \in 1 .. Len(Sends) : /\ Sends[i].block = k
                                                /\ Sends[i].id >= acked[file][k]
    <3>1. content[file][k] >= durable[file][k]
      BY DEF Core, FsyncDurable, CoreType
    <3>2. \/ content[file][k] >= acked[file][k]
          \/ \E i \in 1 .. Len(Sends) : /\ Sends[i].block = k
                                        /\ Sends[i].id >= acked[file][k]
      BY DEF Core, NothingLost, CoreType, Sends
    <3> QED
      BY <1>2, <1>3, <3>1, <3>2
  <2> QED
    BY <1>1, <2>1, <2>2 DEF NothingLost, FsyncDurable, Sends
<1> QED
  BY <1>1, <1>2, <1>3, <1>4, <1>5, <1>6 DEF Core

(* A write returns success: it is the last of the client's.                *)
LEMMA CoreAcked ==
  ASSUME Core, CoreType,
         UNCHANGED <<file, asyncBufs, content, written, durable>>,
         Len(Sends) > 0,
         acked' = [acked EXCEPT ![file][Sends[Len(Sends)].block]
                                    = Sends[Len(Sends)].id],
         acked \in [Files -> [Blocks -> 0 .. MaxWrites]],
         View' = View, Unsent' = Unsent, Warm' => Warm \/ Unsent = 1
  PROVE  Core'
<1> DEFINE n == Len(Sends)  w == Sends[n]
<1>1. Sends' = Sends /\ content'[file'] = content[file]
  BY DEF Sends
<1>2. n \in 1 .. n /\ w.block \in Blocks /\ w.id \in Nat
  BY DEF CoreType
<1>3. InSequence' /\ LastIsNewest' /\ NotBehind'
  BY <1>1 DEF Core, InSequence, LastIsNewest, NotBehind
<1>4. Sent'
  BY <1>1 DEF Core, Sent
<1>5. NothingLost'
  <2>1. /\ \A f \in Files : f = file
        /\ file \in Files
    BY DEF CoreType
  <2>2. \A k \in Blocks :
           acked'[file][k] = IF k = w.block THEN w.id ELSE acked[file][k]
    BY <1>2, <2>1
  <2>3. w.id >= w.id
    BY <1>2
  <2>4. ASSUME NEW k \in Blocks
        PROVE  \/ content[file][k] >= acked'[file][k]
               \/ \E i \in 1 .. n : /\ Sends[i].block = k
                                    /\ Sends[i].id >= acked'[file][k]
    <3>1. CASE k = w.block
      BY <1>2, <2>2, <2>3, <3>1
    <3>2. CASE k # w.block
      <4>1. \/ content[file][k] >= acked[file][k]
            \/ \E i \in 1 .. n : Sends[i].block = k /\ Sends[i].id >= acked[file][k]
        BY <2>1 DEF Core, NothingLost, Sends
      <4> HIDE DEF n
      <4> QED
        BY <2>2, <3>2, <4>1
    <3> QED
      BY <3>1, <3>2
  <2> QED
    BY <1>1, <2>1, <2>4, SMTT(30) DEF NothingLost, Sends
<1>6. FsyncDurable'
  BY DEF Core, FsyncDurable
<1> QED
  BY <1>3, <1>4, <1>5, <1>6 DEF Core

(* A commit under one epoch returns: the client forgets its writes.        *)
LEMMA CoreForget ==
  ASSUME Core, CoreType,
         UNCHANGED <<file, content, written, acked>>,
         Sends' = <<>>, durable' = [durable EXCEPT ![file] = acked[file]],
         file \in DOMAIN durable,
         Warm, View = content[file], View' = View, Unsent = Len(Sends) + 1
  PROVE  Core'
<1>1. \A k \in Blocks : /\ content[file][k] \in Nat /\ View[k] \in Nat
                        /\ acked[file][k] \in Nat
  BY DEF CoreType
<1>2. Len(Sends) \in Nat /\ Len(Sends') = 0
  BY DEF CoreType
<1>3. ASSUME NEW k \in Blocks PROVE content[file][k] >= acked[file][k]
  <2>1. \/ content[file][k] >= acked[file][k]
        \/ \E i \in 1 .. Len(Sends) : /\ Sends[i].block = k
                                      /\ Sends[i].id >= acked[file][k]
    BY DEF Core, NothingLost, CoreType, Sends
  <2>2. ASSUME NEW i \in 1 .. Len(Sends) PROVE View[Sends[i].block] >= Sends[i].id
    BY <1>2 DEF Core, Sent
  <2>3. \A i \in 1 .. Len(Sends) : Sends[i].id \in Nat
    BY DEF CoreType
  <2>4. ASSUME NEW i \in 1 .. Len(Sends),
               Sends[i].block = k, Sends[i].id >= acked[file][k]
        PROVE  content[file][k] >= acked[file][k]
    <3>1. content[file][k] >= Sends[i].id
      BY <2>2, <2>4
    <3> QED
      BY <1>1, <2>3, <2>4, <3>1
  <2> QED
    BY <2>1, <2>4
<1>4. 1 .. Len(Sends') = {}
  BY <1>2
<1>5. InSequence'
  BY <1>4 DEF Core, InSequence
<1>6. Sent' /\ LastIsNewest'
  BY <1>4 DEF Sent, LastIsNewest
<1>7. NotBehind'
  BY <1>1 DEF NotBehind
<1>8. NothingLost' /\ FsyncDurable'
  <2>1. \A f \in Files : f = file
    BY DEF CoreType
  <2> QED
    BY <1>3, <2>1 DEF NothingLost, FsyncDurable
<1> QED
  BY <1>5, <1>6, <1>7, <1>8 DEF Core

\* The state of a run in which only the server crashes.
Safe == ProtocolInv /\ OneCall /\ ColdServer /\ Core

LEMMA SafeFacts ==
  ASSUME Safe, CrashesOnly
  PROVE  /\ CoreType /\ ClientType /\ ServerType /\ ClientOK
         /\ cEpoch <= epoch /\ Len(Sends) \in Nat
         /\ table[file] \in Buffers \union {NoBuffer}
         /\ \A h \in Workers : job[h].pc # "idle" => h = call
         /\ call # NoWorker => call \in Workers /\ up
BY CoreTypes, TypeParts, SMTT(30)
DEF Safe, ProtocolInv, OneCall, ClientType, ServerType, EpochsGrow, CoreType, Idle

LEMMA AppliedNothing ==
  ASSUME NEW blocks \in [Blocks -> Nat]
  PROVE  Applied(blocks, <<>>) = blocks
<1>1. \A k \in Blocks : Applied(blocks, <<>>)[k] = blocks[k]
  BY AppliedNone
<1>2. Applied(blocks, <<>>) = [k \in Blocks |-> Applied(blocks, <<>>)[k]]
  BY DEF Applied
<1>3. blocks = [k \in Blocks |-> blocks[k]]
  OBVIOUS
<1> QED
  BY <1>1, <1>2, <1>3

LEMMA OneFile ==
  ASSUME CoreType, file' \in Files
  PROVE  file' = file
BY DEF CoreType

LEMMA SafeAppWrite ==
  ASSUME CrashesOnly, Safe, ProtocolInv', AppWrite
  PROVE  Safe'
<1> USE SafeFacts
<1>1. file' = file
  BY OneFile DEF ProtocolInv, TypeOK
<1>2. PICK k \in Blocks :
         /\ asyncBufs' = [asyncBufs EXCEPT
                            ![file] = Append(@, [block |-> k, id |-> written'])]
         /\ pos' = Len(asyncBufs'[file])
  BY <1>1 DEF AppWrite
<1>3. /\ written' = written + 1 /\ op = "none" /\ cpc' = "send" /\ tries' = 0
      /\ UNCHANGED <<call, cEpoch, up, epoch, table, heap, used, job, content,
                     acked, durable>>
  BY DEF AppWrite, server
<1>4. cpc = "idle" /\ call = NoWorker
  BY <1>3 DEF ClientOK
<1>5. Pending' = Pending /\ View' = View /\ Warm' = Warm
  BY <1>1, <1>3, <1>4 DEF Pending, View, Warm
<1>6. OneCall'
  BY <1>1, <1>3, <1>4 DEF Safe, OneCall
<1>7. ColdServer'
  BY <1>3, <1>4, <1>5 DEF Safe, ColdServer
<1>8. Core'
  <2> DEFINE w == [block |-> k, id |-> written']
  <2>1. w.block \in Blocks /\ w.id = written + 1 /\ written' = w.id
    BY <1>3
  <2>2. /\ asyncBufs' = [asyncBufs EXCEPT ![file] = Append(@, w)]
        /\ asyncBufs \in [Files -> Seq(Write)] /\ file \in Files
    BY <1>2, TypeParts DEF Safe, ProtocolInv, CoreType
  <2> HIDE DEF w
  <2>3. Sends' = Append(Sends, w)
    BY <1>1, <2>2 DEF Sends
  <2>4. Len(Sends') = Len(Sends) + 1
    BY <2>3 DEF CoreType
  <2>5. Unsent = Len(Sends) + 1 /\ Unsent' = Len(Sends) + 1
    BY <1>1, <1>2, <1>3, <1>4, <2>4 DEF Unsent, Sends
  <2> QED
    BY <1>1, <1>3, <1>5, <2>1, <2>2, <2>5, CoreNewWrite DEF Safe
<1> QED
  BY <1>6, <1>7, <1>8 DEF Safe

LEMMA SafeAppFsync ==
  ASSUME CrashesOnly, Safe, ProtocolInv', AppFsync
  PROVE  Safe'
<1> USE SafeFacts
<1>1. file' = file
  BY OneFile DEF ProtocolInv, TypeOK
<1>2. /\ op = "none" /\ cpc' = "commit" /\ tries' = 0
      /\ UNCHANGED <<call, cEpoch, asyncBufs, up, epoch, table, heap, used, job,
                     content, written, acked, durable>>
  BY DEF AppFsync, server, observed
<1>3. cpc = "idle" /\ call = NoWorker
  BY <1>2 DEF ClientOK
<1>4. Pending' = Pending /\ View' = View /\ Warm' = Warm
  BY <1>1, <1>2, <1>3 DEF Pending, View, Warm
<1>5. Unsent' = Unsent
  BY <1>1, <1>2, <1>3 DEF Unsent, Sends
<1>6. OneCall' /\ ColdServer'
  BY <1>1, <1>2, <1>3, <1>4 DEF Safe, OneCall, ColdServer
<1> QED
  BY <1>1, <1>2, <1>4, <1>5, <1>6, CoreFrame DEF Safe

LEMMA SafeGiveUp ==
  ASSUME CrashesOnly, Safe, ProtocolInv', GiveUp
  PROVE  Safe'
<1> USE SafeFacts
<1>1. /\ call = NoWorker /\ tries = MaxTries /\ tries' = 0
      /\ UNCHANGED <<file, call, cEpoch, asyncBufs, up, epoch, table, heap, used,
                     job, content, written, acked, durable>>
  BY DEF GiveUp, Done, server, observed
<1>2. ~Warm /\ Pending = <<>>
  BY <1>1 DEF Safe, ColdServer
<1>3. ~Warm' /\ Pending' = <<>>
  BY <1>1, <1>2 DEF Warm, Pending
<1>4. View' = content[file]
  BY <1>1, <1>3, AppliedNothing DEF View, CoreType
<1>5. OneCall' /\ ColdServer'
  BY <1>1, <1>3 DEF Safe, OneCall, ColdServer
<1> QED
  BY <1>1, <1>3, <1>4, <1>5, CoreCold DEF Safe

LEMMA SafeCall ==
  ASSUME CrashesOnly, Safe, ProtocolInv', Call
  PROVE  Safe'
<1> USE SafeFacts
<1>1. PICK h \in Workers :
         /\ job[h] = Idle
         /\ call' = h
         /\ job' = [job EXCEPT ![h] =
                      IF cpc = "send"
                      THEN [pc |-> "get", file |-> file,
                            write |-> asyncBufs[file][pos]]
                      ELSE [pc |-> "take", file |-> file]]
  BY DEF Call
<1>2. /\ call = NoWorker /\ up /\ cpc \in {"send", "commit"}
      /\ UNCHANGED <<cpc, file, pos, tries, cEpoch, asyncBufs, up, epoch, table,
                     heap, used, content, written, acked, durable>>
  BY DEF Call, observed
<1>3. /\ DOMAIN job = Workers /\ NoWorker \notin Workers
      /\ \A g \in Workers : job[g] = Idle
  BY <1>2 DEF Safe, ProtocolInv, OneCall
<1>4. /\ call' \in Workers /\ call' # NoWorker
      /\ job'[call'] = IF cpc = "send"
                       THEN [pc |-> "get", file |-> file, write |-> Sends[pos]]
                       ELSE [pc |-> "take", file |-> file]
      /\ \A g \in Workers \ {call'} : job'[g] = Idle
  BY <1>1, <1>3 DEF Sends
<1>5. job'[call'].pc = IF cpc = "send" THEN "get" ELSE "take"
  BY <1>4
<1>6. Pending' = Pending /\ View' = View /\ Warm' = Warm
  BY <1>2, <1>5 DEF Pending, View, Warm
<1>7. Unsent' = Unsent
  BY <1>2, <1>5 DEF Unsent, Sends
<1>8. OneCall'
  <2>1. Sends' = Sends
    BY <1>2 DEF Sends
  <2> QED
    BY <1>2, <1>4, <2>1 DEF Safe, OneCall
<1>9. ColdServer'
  BY <1>2, <1>6 DEF Safe, ColdServer
<1> QED
  BY <1>2, <1>6, <1>7, <1>8, <1>9, CoreFrame DEF Safe

LEMMA SafeCallFails ==
  ASSUME CrashesOnly, Safe, ProtocolInv', CallFails
  PROVE  Safe'
<1> USE SafeFacts
<1>1. /\ call = NoWorker /\ ~up
      /\ UNCHANGED <<cpc, file, pos, call, cEpoch, asyncBufs, up, epoch, table,
                     heap, used, job, content, written, acked, durable>>
  BY DEF CallFails, server, observed
<1>2. Pending' = Pending /\ View' = View /\ ~Warm' /\ ~Warm
  BY <1>1 DEF Pending, View, Warm
<1>3. Unsent' = Unsent
  BY <1>1 DEF Unsent, Sends
<1>4. OneCall' /\ ColdServer'
  BY <1>1, <1>2 DEF Safe, OneCall, ColdServer
<1> QED
  BY <1>1, <1>2, <1>3, <1>4, CoreFrame DEF Safe

LEMMA NoBreaks ==
  ASSUME CrashesOnly, Safe
  PROVE  /\ ~CallLost /\ ~Break
         /\ \A h \in Workers : ~CopyFails(h) /\ ~ErrorReply(h) /\ ~LateReply(h)
<1>1. breaks \in Nat /\ failures \in Nat /\ MaxBreaks = 0 /\ MaxFailures = 0
  BY TypeParts DEF Safe, ProtocolInv, CountType, CrashesOnly
<1>2. ~ (breaks < MaxBreaks) /\ ~ (failures < MaxFailures)
  BY <1>1
<1>3. ~CallLost
  BY <1>2 DEF CallLost
<1>4. ~Break
  BY <1>2 DEF Break
<1>5. \A h \in Workers : ~CopyFails(h)
  BY <1>2 DEF CopyFails
<1>6. ASSUME NEW h \in Workers PROVE ~ErrorReply(h) /\ ~LateReply(h)
  BY SafeFacts DEF Safe, OneCall, ErrorReply, LateReply, Replied
<1> QED
  BY <1>3, <1>4, <1>5, <1>6

(* A step of the server: its worker is the one that serves the call.       *)
LEMMA ServeFacts ==
  ASSUME CrashesOnly, Safe, NEW h \in Workers, Serve(h)
  PROVE  /\ h = call /\ call # NoWorker /\ up
         /\ job[h].pc \in {"get", "insert", "push"} => cpc = "send"
         /\ job[h].pc \in {"take", "lock", "copy", "rename"} => cpc = "commit"
         /\ job[h].file = file
         /\ JobOK(job[h])
         /\ UNCHANGED <<cpc, file, pos, tries, call, cEpoch, asyncBufs, up,
                        epoch, written, acked, durable>>
         /\ DOMAIN job = Workers
<1>1. job[h].pc \in {"get", "insert", "push", "take", "lock", "copy", "rename"}
  BY DEF Serve, Get, Insert, Push, Take, LockBuffer, Copy, CopyFails, Rename
<1>2. h = call /\ call # NoWorker /\ up
  BY <1>1, SafeFacts
<1>3. /\ job[h].pc \in {"get", "insert", "push"} => cpc = "send"
      /\ job[h].pc \in {"take", "lock", "copy", "rename"} => cpc = "commit"
      /\ job[h].file = file
  BY <1>1, <1>2, SafeFacts DEF Safe, OneCall, ClientOK, ClientType
<1>4. JobOK(job[h]) /\ DOMAIN job = Workers
  BY DEF Safe, ProtocolInv
<1> QED
  BY <1>2, <1>3, <1>4, ServeFrames DEF ServeFrame

LEMMA SafeGet ==
  ASSUME CrashesOnly, Safe, ProtocolInv', NEW h \in Workers, Get(h)
  PROVE  Safe'
<1> USE SafeFacts
<1>1. Serve(h)
  BY DEF Serve
<1> USE <1>1, ServeFacts
<1>2. UNCHANGED <<table, heap, used, content>>
  BY DEF Get
<1>3. /\ job[call].pc = "get" /\ cpc = "send"
      /\ job'[call] = [pc |-> IF table[file] = NoBuffer THEN "insert" ELSE "push",
                       file |-> file, write |-> job[call].write,
                       buffer |-> table[file]]
      /\ \A g \in Workers \ {call} : job'[g] = job[g]
  BY DEF Get, WithBuffer
<1>4. job'[call].pc \in {"insert", "push"}
  BY <1>3
<1>5. Pending' = Pending /\ View' = View /\ Warm' = Warm
  BY <1>2, <1>3, <1>4 DEF Pending, View, Warm
<1>6. Unsent' = Unsent
  BY <1>3, <1>4 DEF Unsent, Sends
<1>7. OneCall'
  <2>1. job[call].write = Sends[pos] /\ Sends' = Sends
    BY <1>3 DEF Safe, OneCall, Sends
  <2> QED
    BY <1>2, <1>3, <2>1 DEF Safe, OneCall
<1>8. ColdServer'
  BY <1>3, <1>5 DEF Safe, ColdServer
<1> QED
  BY <1>2, <1>5, <1>6, <1>7, <1>8, CoreFrame DEF Safe

LEMMA SafeInsert ==
  ASSUME CrashesOnly, Safe, ProtocolInv', NEW h \in Workers, Insert(h)
  PROVE  Safe'
<1> USE SafeFacts
<1>1. Serve(h)
  BY DEF Serve
<1> USE <1>1, ServeFacts
<1>2. UNCHANGED <<heap, content>> /\ used' = used + 1 /\ used < MaxBuffers
  BY DEF Insert
<1>3. /\ job[call].pc = "insert" /\ cpc = "send" /\ table[file] = NoBuffer
      /\ job'[call] = [pc |-> "push", file |-> file,
                       write |-> job[call].write, buffer |-> used']
      /\ \A g \in Workers \ {call} : job'[g] = job[g]
  BY DEF Insert, WithBuffer, Safe, OneCall
<1>4. table'[file] = used' /\ used' \in Buffers /\ used' > used
  <2>1. used \in Nat /\ used' \in Buffers
    BY <1>2 DEF ServerType, Buffers
  <2> QED
    BY <1>2, <2>1 DEF Insert, ServerType, CoreType
<1>5. heap[used'] = <<>>
  BY <1>4 DEF Safe, OneCall
<1>6. Pending = <<>> /\ Pending' = <<>>
  <2>1. used' # NoBuffer
    BY <1>4 DEF Buffers
  <2> QED
    BY <1>2, <1>3, <1>4, <1>5, <2>1 DEF Pending
<1>7. View' = View /\ Warm' = Warm
  BY <1>2, <1>6 DEF View, Warm
<1>8. Unsent' = Unsent
  BY <1>3 DEF Unsent, Sends
<1>9. OneCall'
  <2>1. job[call].write = Sends[pos] /\ Sends' = Sends
    BY <1>3 DEF Safe, OneCall, Sends
  <2>2. \A b \in Buffers : b > used' => heap'[b] = <<>>
    BY <1>2 DEF Safe, OneCall, ServerType, Buffers
  <2>3. table'[file] <= used'
    BY <1>4 DEF Buffers
  <2> QED
    BY <1>3, <1>4, <2>1, <2>2, <2>3 DEF Safe, OneCall
<1>10. ColdServer'
  BY <1>3, <1>6, <1>7 DEF Safe, ColdServer
<1> QED
  BY <1>2, <1>7, <1>8, <1>9, <1>10, CoreFrame DEF Safe

LEMMA SafePush ==
  ASSUME CrashesOnly, Safe, ProtocolInv', NEW h \in Workers, Push(h)
  PROVE  Safe'
<1> USE SafeFacts
<1>1. Serve(h)
  BY DEF Serve
<1> USE <1>1, ServeFacts
<1> DEFINE b == table[file]  w == Sends[pos]
<1>2. UNCHANGED <<table, used, content>>
  BY DEF Push
<1>3. /\ job[call].pc = "push" /\ cpc = "send" /\ b = job[call].buffer
      /\ job[call].write = w
      /\ job'[call] = [pc |-> "reply", ok |-> TRUE]
      /\ \A g \in Workers \ {call} : job'[g] = job[g]
  BY DEF Push, Answer, Safe, OneCall
<1>4. pos \in 1 .. Len(Sends) /\ w \in Write
  <2>1. pos \in 1 .. Len(Sends)
    BY <1>3 DEF ClientOK, ClientType, Sends
  <2> QED
    BY <2>1 DEF CoreType
<1>5. b \in Buffers /\ b # NoBuffer
  BY <1>3, JobFacts DEF Buffers
<1>6. /\ heap' = [heap EXCEPT ![b] = Append(@, w)]
      /\ heap \in [Buffers -> Seq(Write)]
  BY <1>3, TypeParts DEF Push, Safe, ProtocolInv
<1>7. Pending = heap[b] /\ Pending' = Append(heap[b], w)
  BY <1>2, <1>5, <1>6 DEF Pending
<1>8. \A k \in Blocks : View'[k] = IF k = w.block THEN w.id ELSE View[k]
  <2>1. heap[b] \in Seq(Write)
    BY <1>5, <1>6
  <2>2. /\ View = Applied(content[file], heap[b])
        /\ View' = Applied(content[file], Append(heap[b], w))
    BY <1>2, <1>7 DEF View
  <2> HIDE DEF b, w
  <2> QED
    BY <1>4, <2>1, <2>2, AppliedAppend
<1>9. Warm' = Warm
  BY DEF Warm
<1>10. Unsent = pos /\ Unsent' = IF Warm THEN pos + 1 ELSE 1
  BY <1>3 DEF Unsent, NextPos, Warm
<1>11. OneCall'
  <2>1. ~ (b > used)
    <3>1. b <= used /\ b \in Nat /\ used \in Nat
      BY <1>5 DEF Safe, OneCall, ServerType, Buffers
    <3> QED
      BY <3>1
  <2>2. ASSUME NEW c \in Buffers, c > used' PROVE heap'[c] = <<>>
    BY <1>2, <1>6, <2>1, <2>2 DEF Safe, OneCall
  <2> QED
    BY <1>2, <1>3, <2>2 DEF Safe, OneCall
<1>12. ColdServer'
  BY <1>3, <1>9 DEF Safe, ColdServer
<1>13. Core'
  <2> HIDE DEF b
  <2> QED
    BY <1>2, <1>4, <1>8, <1>9, <1>10, CorePush DEF Safe
<1> QED
  BY <1>11, <1>12, <1>13 DEF Safe

LEMMA SafeTake ==
  ASSUME CrashesOnly, Safe, ProtocolInv', NEW h \in Workers, Take(h)
  PROVE  Safe'
<1> USE SafeFacts
<1>1. Serve(h)
  BY DEF Serve
<1> USE <1>1, ServeFacts
<1>2. UNCHANGED <<heap, used, content>>
  BY DEF Take
<1>3. /\ job[call].pc = "take" /\ cpc = "commit"
      /\ job'[call] = IF table[file] = NoBuffer
                      THEN [pc |-> "reply", ok |-> TRUE]
                      ELSE [pc |-> "lock", file |-> file, buffer |-> table[file]]
      /\ \A g \in Workers \ {call} : job'[g] = job[g]
  BY DEF Take, Answer
<1>4. table'[file] = NoBuffer
  BY DEF Take, ServerType, CoreType
<1>5. Pending' = Pending
  <2>1. CASE table[file] = NoBuffer
    BY <1>2, <1>3, <1>4, <2>1 DEF Pending
  <2>2. CASE table[file] # NoBuffer
    BY <1>2, <1>3, <1>4, <2>2 DEF Pending
  <2> QED
    BY <2>1, <2>2
<1>6. View' = View /\ Warm' = Warm
  BY <1>2, <1>5 DEF View, Warm
<1>7. Unsent' = Unsent
  BY <1>3 DEF Unsent, Sends
<1>8. OneCall'
  <2>1. used' \in Nat
    BY <1>2 DEF ServerType
  <2> QED
    BY <1>2, <1>3, <1>4, <2>1 DEF Safe, OneCall
<1>9. ColdServer'
  BY <1>3, <1>5, <1>6 DEF Safe, ColdServer
<1> QED
  BY <1>2, <1>6, <1>7, <1>8, <1>9, CoreFrame DEF Safe

LEMMA SafeLockBuffer ==
  ASSUME CrashesOnly, Safe, ProtocolInv', NEW h \in Workers, LockBuffer(h)
  PROVE  Safe'
<1> USE SafeFacts
<1>1. Serve(h)
  BY DEF Serve
<1> USE <1>1, ServeFacts
<1> DEFINE b == job[call].buffer
<1>2. UNCHANGED <<table, heap, used, content>>
  BY DEF LockBuffer
<1>3. /\ job[call].pc = "lock" /\ cpc = "commit" /\ table[file] = NoBuffer
      /\ \A g \in Workers \ {call} : job'[g] = job[g]
  BY DEF LockBuffer, Answer, Safe, OneCall
<1>4. job'[call] = IF heap[b] = <<>>
                   THEN [pc |-> "reply", ok |-> TRUE]
                   ELSE [pc |-> "copy", file |-> file, buffer |-> b]
  <2>1. job[call] \in [pc : {"lock"}, file : Files, buffer : Buffers]
    BY <1>3 DEF JobOK, Idle
  <2>2. [job[call] EXCEPT !.pc = "copy"] =
           [pc |-> "copy", file |-> job[call].file, buffer |-> b]
    BY <2>1
  <2>3. heap[b] # <<>> => job'[call] = [job[call] EXCEPT !.pc = "copy"]
    BY DEF LockBuffer
  <2>4. heap[b] = <<>> => job'[call] = [pc |-> "reply", ok |-> TRUE]
    BY DEF LockBuffer, Answer
  <2> QED
    BY <2>2, <2>3, <2>4
<1>5. Pending' = Pending
  <2>1. CASE heap[b] = <<>>
    BY <1>2, <1>3, <1>4, <2>1 DEF Pending
  <2>2. CASE heap[b] # <<>>
    BY <1>2, <1>3, <1>4, <2>2 DEF Pending
  <2> QED
    BY <2>1, <2>2
<1>6. View' = View /\ Warm' = Warm
  BY <1>2, <1>5 DEF View, Warm
<1>7. Unsent' = Unsent
  BY <1>3 DEF Unsent, Sends
<1>8. OneCall'
  BY <1>2, <1>3, <1>4 DEF Safe, OneCall
<1>9. ColdServer'
  BY <1>3, <1>5, <1>6 DEF Safe, ColdServer
<1> QED
  BY <1>2, <1>6, <1>7, <1>8, <1>9, CoreFrame DEF Safe

LEMMA SafeCopy ==
  ASSUME CrashesOnly, Safe, ProtocolInv', NEW h \in Workers, Copy(h)
  PROVE  Safe'
<1> USE SafeFacts
<1>1. Serve(h)
  BY DEF Serve
<1> USE <1>1, ServeFacts
<1>2. UNCHANGED <<table, heap, used, content>>
  BY DEF Copy
<1>3. /\ job[call].pc = "copy" /\ cpc = "commit" /\ table[file] = NoBuffer
      /\ job'[call] = [pc |-> "rename", file |-> file,
                       buffer |-> job[call].buffer, copy |-> content[file]]
      /\ \A g \in Workers \ {call} : job'[g] = job[g]
  BY DEF Copy, Safe, OneCall
<1>4. Pending' = Pending
  BY <1>2, <1>3 DEF Pending
<1>5. View' = View /\ Warm' = Warm
  BY <1>2, <1>4 DEF View, Warm
<1>6. Unsent' = Unsent
  BY <1>3 DEF Unsent, Sends
<1>7. OneCall'
  BY <1>2, <1>3 DEF Safe, OneCall
<1>8. ColdServer'
  BY <1>3, <1>4, <1>5 DEF Safe, ColdServer
<1> QED
  BY <1>2, <1>5, <1>6, <1>7, <1>8, CoreFrame DEF Safe

LEMMA SafeRename ==
  ASSUME CrashesOnly, Safe, ProtocolInv', NEW h \in Workers, Rename(h)
  PROVE  Safe' /\ \A k \in Blocks : content'[file][k] >= content[file][k]
<1> USE SafeFacts
<1>1. Serve(h)
  BY DEF Serve
<1> USE <1>1, ServeFacts
<1> DEFINE b == job[call].buffer
<1>2. UNCHANGED <<table, used>>
  BY DEF Rename
<1>3. /\ job[call].pc = "rename" /\ cpc = "commit" /\ table[file] = NoBuffer
      /\ job[call].copy = content[file]
      /\ job'[call] = [pc |-> "reply", ok |-> TRUE]
      /\ \A g \in Workers \ {call} : job'[g] = job[g]
  BY DEF Rename, Answer, Safe, OneCall
<1>4. /\ content'[file] = Applied(content[file], heap[b])
      /\ heap' = [heap EXCEPT ![b] = <<>>]
  <2>1. file \in Files /\ content \in [Files -> [Blocks -> 0 .. MaxWrites]]
    BY TypeParts DEF Safe, ProtocolInv, DataType, ClientType
  <2> QED
    BY <1>3, <2>1 DEF Rename
<1>5. Pending = heap[b] /\ Pending' = <<>>
  BY <1>2, <1>3 DEF Pending
<1>6. content'[file] = View
  BY <1>4, <1>5 DEF View
<1>7. View' = View /\ Warm' = Warm
  BY <1>5, <1>6, AppliedNothing DEF View, Warm, CoreType
<1>8. Unsent' = Unsent /\ Unsent = Len(Sends) + 1
  BY <1>3 DEF Unsent, Sends
<1>9. OneCall'
  <2>1. \A c \in Buffers : c > used' => heap'[c] = <<>>
    <3>1. heap \in [Buffers -> Seq(Write)]
      BY TypeParts DEF Safe, ProtocolInv
    <3> QED
      BY <1>2, <1>4, <3>1 DEF Safe, OneCall
  <2> QED
    BY <1>2, <1>3, <2>1 DEF Safe, OneCall
<1>10. ColdServer'
  BY <1>5, <1>7 DEF Safe, ColdServer
<1>11. /\ Core'
       /\ \A k \in Blocks : content'[file][k] >= content[file][k]
  <2> HIDE DEF b
  <2> QED
    BY <1>6, <1>7, <1>8, CoreRename DEF Safe
<1> QED
  BY <1>9, <1>10, <1>11 DEF Safe

(* The client takes the reply: the server has one call no longer.          *)
LEMMA ReplyFacts ==
  ASSUME CrashesOnly, Safe, NEW h \in Workers, h = call, Replied(h),
         TakeReply(h), call' = NoWorker
  PROVE  /\ up /\ call # NoWorker
         /\ job[call].pc = "reply" /\ job[call].ok
         /\ UNCHANGED <<file, up, epoch, table, heap, used, content, written>>
         /\ Pending' = Pending /\ View' = View
         /\ OneCall'
         /\ cpc = "commit" => Pending = <<>> /\ View = content[file]
<1> USE SafeFacts
<1>1. UNCHANGED <<file, up, epoch, table, heap, used, content, written>>
  BY ReplyFrames DEF ReplyFrame
<1>2. /\ up /\ call # NoWorker /\ job[call].pc = "reply" /\ job[call].ok
      /\ cpc = "commit" => table[file] = NoBuffer
  BY DEF Replied, Safe, OneCall
<1>3. Pending' = Pending /\ View' = View
  BY <1>1, <1>2 DEF Pending, View
<1>4. cpc = "commit" => Pending = <<>> /\ View = content[file]
  <2>1. cpc = "commit" => Pending = <<>>
    BY <1>2 DEF Pending
  <2> QED
    BY <2>1, AppliedNothing DEF View, CoreType
<1>5. OneCall'
  <2>1. \A g \in Workers : job'[g] = Idle
    BY DEF Replied, Safe, OneCall, ProtocolInv
  <2> QED
    BY <1>1, <1>2, <2>1 DEF Safe, OneCall
<1> QED
  BY <1>1, <1>2, <1>3, <1>4, <1>5

LEMMA SafeWriteReply ==
  ASSUME CrashesOnly, Safe, ProtocolInv', NEW h \in Workers, WriteReply(h)
  PROVE  Safe'
<1> USE SafeFacts
<1>1. TakeReply(h) /\ Replied(h) /\ h = call /\ call' = NoWorker
  BY DEF TakeReply, WriteReply
<1>2. /\ cpc = "send" /\ cpc' = "send" /\ cEpoch' = epoch /\ tries' = 0
      /\ pos' = NextPos(epoch)
      /\ UNCHANGED <<asyncBufs, acked, durable>>
  BY DEF WriteReply, observed
<1> USE <1>1, ReplyFacts
<1>3. Warm'
  BY <1>2 DEF Warm
<1>4. Unsent = NextPos(epoch) /\ Unsent' = Unsent
  BY <1>2 DEF Unsent
<1>5. Warm \/ Unsent = 1
  BY <1>4 DEF NextPos, Warm
<1>6. ColdServer'
  BY <1>2, <1>3 DEF ColdServer, ClientType
<1> QED
  BY <1>2, <1>4, <1>5, <1>6, CoreFrame DEF Safe

LEMMA SafeLastWriteReply ==
  ASSUME CrashesOnly, Safe, ProtocolInv', NEW h \in Workers, LastWriteReply(h)
  PROVE  Safe'
<1> USE SafeFacts
<1>1. TakeReply(h) /\ Replied(h) /\ h = call /\ call' = NoWorker
  BY DEF TakeReply, LastWriteReply
<1>2. /\ cpc = "send" /\ cpc' # "send" /\ cEpoch' = epoch /\ tries' = 0
      /\ NextPos(epoch) > Len(Sends)
      /\ UNCHANGED <<asyncBufs, durable>>
      /\ \/ acked' = [acked EXCEPT ![file][Sends[Len(Sends)].block]
                                       = Sends[Len(Sends)].id]
         \/ acked' = acked
  BY DEF LastWriteReply, Done, Sends
<1> USE <1>1, ReplyFacts
<1>3. pos <= Len(Sends) /\ pos > 0 /\ pos \in Nat
  BY <1>2 DEF ClientOK, ClientType, Sends
<1>4. Warm /\ NextPos(epoch) = Len(Sends) + 1
  BY <1>2, <1>3 DEF NextPos, Warm
<1>5. Unsent = Len(Sends) + 1 /\ Unsent' = Unsent
  BY <1>2, <1>4 DEF Unsent, Sends
<1>6. ColdServer'
  BY <1>2 DEF ColdServer, Warm, ClientType
<1>7. Core'
  <2>1. acked \in [Files -> [Blocks -> 0 .. MaxWrites]]
    BY TypeParts DEF Safe, ProtocolInv, DataType
  <2>2. Len(Sends) > 0
    BY <1>3
  <2>3. CASE acked' = acked
    BY <1>2, <1>4, <1>5, <2>3, CoreFrame DEF Safe
  <2>4. CASE acked' = [acked EXCEPT ![file][Sends[Len(Sends)].block]
                                        = Sends[Len(Sends)].id]
    BY <1>2, <1>4, <1>5, <2>1, <2>2, <2>4, CoreAcked DEF Safe
  <2> QED
    BY <1>2, <2>3, <2>4
<1> QED
  BY <1>6, <1>7 DEF Safe

LEMMA SafeCommitReply ==
  ASSUME CrashesOnly, Safe, ProtocolInv', NEW h \in Workers, CommitReply(h)
  PROVE  Safe'
<1> USE SafeFacts
<1>1. TakeReply(h) /\ Replied(h) /\ h = call /\ call' = NoWorker
  BY DEF TakeReply, CommitReply
<1>2. /\ cpc = "commit" /\ epoch = cEpoch /\ tries' = 0
      /\ asyncBufs' = [asyncBufs EXCEPT ![file] = <<>>]
      /\ durable' = [durable EXCEPT ![file] = acked[file]]
      /\ UNCHANGED <<cEpoch, acked>>
  BY DEF CommitReply, Done
<1> USE <1>1, ReplyFacts
<1>3. Warm /\ Warm' /\ tries' = 0
  BY <1>2 DEF Warm
<1>4. ColdServer'
  BY <1>3 DEF ColdServer
<1>5. Core'
  <2>1. asyncBufs \in [Files -> Seq(Write)] /\ file \in DOMAIN durable
    BY TypeParts DEF Safe, ProtocolInv, DataType, CoreType
  <2>2. Sends' = <<>>
    BY <1>2, <2>1 DEF Sends, CoreType
  <2>3. Unsent = Len(Sends) + 1
    BY <1>2 DEF Unsent
  <2> QED
    BY <1>2, <1>3, <2>1, <2>2, <2>3, CoreForget DEF Safe
<1> QED
  BY <1>4, <1>5 DEF Safe

LEMMA SafeCommitReplyNewEpoch ==
  ASSUME CrashesOnly, Safe, ProtocolInv', NEW h \in Workers, CommitReplyNewEpoch(h)
  PROVE  Safe'
<1> USE SafeFacts
<1>1. TakeReply(h) /\ Replied(h) /\ h = call /\ call' = NoWorker
  BY DEF TakeReply, CommitReplyNewEpoch
<1>2. /\ cpc = "commit" /\ cEpoch' = epoch /\ tries' = 0 /\ pos' = 1
      /\ cpc' = IF Sends = <<>> THEN "commit" ELSE "send"
      /\ UNCHANGED <<asyncBufs, acked, durable>>
  BY DEF CommitReplyNewEpoch, Sends, observed
<1> USE <1>1, ReplyFacts
<1>3. Warm' /\ tries' = 0
  BY <1>2 DEF Warm
<1>4. Unsent' = 1
  BY <1>2 DEF Unsent, Sends
<1>5. ColdServer'
  BY <1>3 DEF ColdServer
<1>6. View' = content[file]
  BY <1>2
<1> QED
  BY <1>2, <1>4, <1>5, <1>6, CoreCold DEF Safe

LEMMA SafeCrash ==
  ASSUME CrashesOnly, Safe, ProtocolInv', Crash
  PROVE  Safe'
<1> USE SafeFacts
<1>1. /\ up' = FALSE /\ call' = NoWorker /\ used' = 0
      /\ table' = [f \in Files |-> NoBuffer]
      /\ heap' = [b \in Buffers |-> <<>>]
      /\ job' = [g \in Workers |-> Idle]
      /\ UNCHANGED <<file, asyncBufs, content, written, acked, durable>>
  BY DEF Crash, observed
<1>2. ~Warm' /\ table'[file'] = NoBuffer
  BY <1>1 DEF Warm, CoreType
<1>3. Pending' = <<>>
  BY <1>1, <1>2 DEF Pending
<1>4. View' = content[file]
  BY <1>1, <1>3, AppliedNothing DEF View, CoreType
<1>5. OneCall'
  BY <1>1, <1>2 DEF OneCall
<1>6. ColdServer'
  BY <1>2, <1>3 DEF ColdServer
<1> QED
  BY <1>1, <1>2, <1>4, <1>5, <1>6, CoreCold DEF Safe

LEMMA SafeRestart ==
  ASSUME CrashesOnly, Safe, ProtocolInv', Restart
  PROVE  Safe'
<1> USE SafeFacts
<1>1. /\ ~up /\ epoch' = epoch + 1 /\ call = NoWorker
      /\ UNCHANGED <<cpc, file, pos, call, tries, cEpoch, asyncBufs, table, heap,
                     used, job, content, written, acked, durable>>
  BY DEF Restart, NewEpoch, client, observed
<1>2. table[file] = NoBuffer
  BY <1>1 DEF Safe, OneCall
<1>3. Pending = <<>> /\ Pending' = <<>> /\ View' = View
  BY <1>1, <1>2 DEF Pending, View
<1>4. ~Warm'
  BY <1>1 DEF Warm, ClientType, ServerType
<1>5. Unsent' = Unsent
  BY <1>1 DEF Unsent, Sends
<1>6. OneCall' /\ ColdServer'
  BY <1>1, <1>2, <1>3, <1>4 DEF Safe, OneCall, ColdServer
<1> QED
  BY <1>1, <1>3, <1>4, <1>5, <1>6, CoreFrame DEF Safe

LEMMA InitIsSafe ==
  ASSUME CrashesOnly, Init
  PROVE  Safe
<1>1. ProtocolInv
  BY InitEstablishesProtocolInv
<1>2. /\ file \in Files /\ cpc = "idle" /\ call = NoWorker /\ up
      /\ epoch = 1 /\ cEpoch = 1 /\ tries = 0 /\ used = 0 /\ written = 0
      /\ table[file] = NoBuffer /\ Sends = <<>>
      /\ \A f \in Files : asyncBufs[f] = <<>>
      /\ \A h \in Workers : job[h] = Idle
      /\ \A b \in Buffers : heap[b] = <<>>
      /\ \A f \in Files, k \in Blocks :
            content[f][k] = 0 /\ acked[f][k] = 0 /\ durable[f][k] = 0
  BY DEF Init, Sends, Blank
<1>3. Pending = <<>>
  BY <1>2 DEF Pending
<1>4. \A k \in Blocks : View[k] = 0
  BY <1>2, <1>3, AppliedNone DEF View
<1>5. OneCall /\ ColdServer
  BY <1>2, <1>3 DEF OneCall, ColdServer
<1>6. Len(Sends) = 0 /\ 1 .. Len(Sends) = {}
  BY <1>2
<1>7. Core
  BY <1>2, <1>4, <1>6
  DEF Core, InSequence, Sent, NotBehind, LastIsNewest, NothingLost, FsyncDurable
<1> QED
  BY <1>1, <1>5, <1>7 DEF Safe

LEMMA SafeStutter ==
  ASSUME Safe, UNCHANGED vars
  PROVE  Safe'
<1>1. UNCHANGED <<op, cpc, file, pos, tries, call, cEpoch, asyncBufs, up,
                  epoch, table, heap, used, holder, job, content, written,
                  acked, durable, commits, crashes, breaks, failures>>
  BY DEF vars, client, server, observed, bounds
<1>2. ProtocolInv'
  BY StepPreservesProtocolInv DEF Safe
<1>3. /\ Sends' = Sends /\ Pending' = Pending /\ Warm' = Warm /\ View' = View
      /\ Unsent' = Unsent
  BY <1>1 DEF Sends, Pending, Warm, View, Unsent, NextPos
<1>4. OneCall'
  BY <1>1, <1>3 DEF Safe, OneCall
<1>5. ColdServer'
  BY <1>1, <1>3 DEF Safe, ColdServer
<1>6. InSequence' /\ Sent' /\ NotBehind' /\ LastIsNewest'
  BY <1>1, <1>3 DEF Safe, Core, InSequence, Sent, NotBehind, LastIsNewest
<1>7. NothingLost' /\ FsyncDurable'
  BY <1>1 DEF Safe, Core, NothingLost, FsyncDurable
<1> QED
  BY <1>2, <1>4, <1>5, <1>6, <1>7 DEF Safe, Core

LEMMA StepPreservesSafe ==
  ASSUME CrashesOnly
  PROVE  Safe /\ [Next]_vars => Safe'
<1> SUFFICES ASSUME Safe, [Next]_vars PROVE Safe'
  OBVIOUS
<1>1. ProtocolInv'
  BY StepPreservesProtocolInv DEF Safe
<1>2. CASE UNCHANGED vars
  BY <1>2, SafeStutter
<1>3. CASE AppWrite \/ AppFsync \/ GiveUp \/ Call \/ CallFails \/ CallLost \/ Break
  BY <1>1, <1>3, SafeAppWrite, SafeAppFsync, SafeGiveUp, SafeCall,
     SafeCallFails, NoBreaks
<1>4. ASSUME NEW h \in Workers, Serve(h) PROVE Safe'
  BY <1>1, <1>4, SafeGet, SafeInsert, SafePush, SafeTake, SafeLockBuffer,
     SafeCopy, SafeRename, NoBreaks DEF Serve
<1>5. ASSUME NEW h \in Workers, TakeReply(h) PROVE Safe'
  BY <1>1, <1>5, SafeWriteReply, SafeLastWriteReply, SafeCommitReply,
     SafeCommitReplyNewEpoch, NoBreaks DEF TakeReply
<1>6. CASE Crash \/ Restart
  BY <1>1, <1>6, SafeCrash, SafeRestart
<1> QED
  BY <1>2, <1>3, <1>4, <1>5, <1>6 DEF Next

LEMMA AlwaysSafe ==
  ASSUME CrashesOnly
  PROVE  Spec => []Safe
<1>1. Init => Safe
  BY InitIsSafe
<1> QED
  BY <1>1, StepPreservesSafe, PTL DEF Spec

(* Between any two crashes the server, with its disk, has the writes the   *)
(* client has sent since, in order, and the client has the others: a       *)
(* commit under one epoch needs no more, and after a new epoch sending     *)
(* all of async_bufs again (client_fuse.rs:286-304, 338-377) suffices.     *)
THEOREM ResendSuffices ==
  ASSUME CrashesOnly
  PROVE  Spec => []Resendable
<1>1. Safe => Resendable
  BY DEF Safe, Core, Resendable
<1> QED
  BY <1>1, AlwaysSafe, PTL

(* A write that returned success is on disk or still in async_bufs, after  *)
(* any number of crashes of the server.                                    *)
THEOREM NoWriteIsLost ==
  ASSUME CrashesOnly
  PROVE  Spec => []NothingLost
<1>1. Safe => NothingLost
  BY DEF Safe, Core
<1> QED
  BY <1>1, AlwaysSafe, PTL

(* When fsync has returned success, what was written before it is on disk, *)
(* and stays there.                                                        *)
THEOREM FsyncIsDurable ==
  ASSUME CrashesOnly
  PROVE  Spec => []FsyncDurable
<1>1. Safe => FsyncDurable
  BY DEF Safe, Core
<1> QED
  BY <1>1, AlwaysSafe, PTL

LEMMA OnlyRename ==
  ASSUME CrashesOnly, Safe, ProtocolInv', [Next]_vars
  PROVE  [\A f \in Files, k \in Blocks : content'[f][k] >= content[f][k]]_content
<1> SUFFICES ASSUME content' # content
             PROVE  \A f \in Files, k \in Blocks :
                       content'[f][k] >= content[f][k]
  OBVIOUS
<1>1. PICK h \in Workers : Rename(h)
  <2>1. \A h \in Workers :
           TakeReply(h) => content' = content
    BY ReplyFrames DEF ReplyFrame
  <2>2. \A h \in Workers : Serve(h) => content' = content \/ Rename(h)
    BY DEF Serve, Get, Insert, Push, Take, LockBuffer, Copy, CopyFails
  <2>3. content' = content \/ \E h \in Workers : Serve(h) \/ TakeReply(h)
    BY DEF Next, AppWrite, AppFsync, GiveUp, Call, CallFails, CallLost, Break,
       Crash, Restart, vars, server
  <2> QED
    BY <2>1, <2>2, <2>3
<1>2. \A k \in Blocks : content'[file][k] >= content[file][k]
  BY <1>1, SafeRename
<1>3. \A f \in Files : f = file
  BY SafeFacts DEF CoreType
<1> QED
  BY <1>2, <1>3

(* No write that is resent or applied late takes the place of a newer one: *)
(* a file on disk never goes back.                                         *)
THEOREM FileNeverGoesBack ==
  ASSUME CrashesOnly
  PROVE  Spec => NeverBack
<1>1. Safe /\ ProtocolInv' /\ [Next]_vars =>
         [\A f \in Files, k \in Blocks : content'[f][k] >= content[f][k]]_content
  BY OnlyRename
<1>2. Spec => []Safe /\ []ProtocolInv
  BY AlwaysSafe, ProtocolInvariant, PTL
<1> QED
  BY <1>1, <1>2, PTL DEF Spec, NeverBack

=============================================================================
