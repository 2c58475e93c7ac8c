-------------------------- MODULE NamespaceProofs ---------------------------
(***************************************************************************)
(* Namespace proved for any number of workers, any file tree, any set of   *)
(* requests and any number of crashes: its types, the ownership of names   *)
(* between lock_name and unlock_name, and that no request changes another  *)
(* directory than those it names.                                          *)
(***************************************************************************)
EXTENDS Namespace, TLAPS

IInv == TypeOK /\ JobsOK /\ LockOwned

LEMMA PathFacts ==
  ASSUME NEW p \in Paths
  PROVE  /\ p # <<>>
         /\ Here(p) \in Fid
         /\ Len(p) \in Nat \ {0}
         /\ \A i \in 1 .. Len(p) : p[i] \in Fid
<1>1. PICK n \in 1 .. MaxDepth : p \in [1 .. n -> Fid]
  BY DEF Paths
<1>2. p \in Seq(Fid) /\ Len(p) = n /\ n \in Nat \ {0}
  BY <1>1, NamespaceAssumption DEF NamespaceAssumption
<1> QED
  BY <1>1, <1>2 DEF Here

LEMMA GotoJob ==
  ASSUME NEW j \in Job, NEW pc \in PCs, NEW w \in Workers,
         job \in [Workers -> Job], Goto(w, j, pc)
  PROVE  /\ job' \in [Workers -> Job]
         /\ \A v \in Workers \ {w} : job'[v] = job[v]
         /\ job'[w] = IF pc = "idle" THEN Idle ELSE [j EXCEPT !.pc = pc]
         /\ job'[w] \in Job
<1>1. Idle \in Job
  BY DEF Idle, Job, PCs
<1>2. [j EXCEPT !.pc = pc] \in Job
  BY DEF Job
<1> QED
  BY <1>1, <1>2 DEF Goto

LEMMA FinishJob ==
  ASSUME NEW w \in Workers, job \in [Workers -> Job], Finish(w)
  PROVE  /\ job' \in [Workers -> Job]
         /\ \A v \in Workers \ {w} : job'[v] = job[v]
         /\ job'[w] = Idle
         /\ WellFormed(Idle)
         /\ Idle.pc = "idle"
<1>1. Idle \in Job
  BY DEF Idle, Job, PCs
<1>2. WellFormed(Idle)
  BY DEF Idle, WellFormed, Owning
<1> QED
  BY <1>1, <1>2 DEF Finish, Idle

(* A step of one worker keeps the ownership of names, if it takes a name   *)
(* only when nobody has it and gives back none but its own.                *)
LEMMA OwnershipStep ==
  ASSUME LockOwned, NEW w \in Workers,
         \A v \in Workers \ {w} : job'[v] = job[v],
         job'[w].pc \in Owning =>
            /\ Key(job'[w]) \in nameLock'
            /\ \/ job[w].pc \in Owning /\ Key(job'[w]) = Key(job[w])
               \/ Key(job'[w]) \notin nameLock,
         \A key \in nameLock :
            key \in nameLock' \/ (job[w].pc \in Owning /\ key = Key(job[w]))
  PROVE  LockOwned'
<1> SUFFICES ASSUME NEW u \in Workers, job'[u].pc \in Owning
             PROVE  /\ Key(job'[u]) \in nameLock'
                    /\ \A v \in Workers \ {u} :
                          job'[v].pc \in Owning => Key(job'[u]) # Key(job'[v])
  BY DEF LockOwned, Key
<1>1. CASE u = w
  BY <1>1 DEF LockOwned
<1>2. CASE u # w
  <2>1. Key(job'[u]) \in nameLock'
    BY <1>2 DEF LockOwned
  <2>2. ASSUME NEW v \in Workers \ {u}, job'[v].pc \in Owning
        PROVE  Key(job'[u]) # Key(job'[v])
    BY <1>2, <2>2 DEF LockOwned
  <2> QED
    BY <2>1, <2>2
<1> QED
  BY <1>1, <1>2

(* What a step of one worker has to do to keep the invariant.              *)
LEMMA StepKeeps ==
  ASSUME IInv, NEW w \in Workers, TypeOK',
         \A v \in Workers \ {w} : job'[v] = job[v],
         WellFormed(job'[w]),
         job'[w].pc \in Owning =>
            /\ Key(job'[w]) \in nameLock'
            /\ \/ job[w].pc \in Owning /\ Key(job'[w]) = Key(job[w])
               \/ Key(job'[w]) \notin nameLock,
         \A key \in nameLock :
            key \in nameLock' \/ (job[w].pc \in Owning /\ key = Key(job[w]))
  PROVE  IInv'
<1>1. LockOwned'
  BY OwnershipStep DEF IInv
<1>2. ASSUME NEW v \in Workers PROVE WellFormed(job'[v])
  BY DEF IInv, JobsOK
<1> QED
  BY <1>1, <1>2 DEF IInv, JobsOK, WellFormed

(* A request that ends, with nothing but perhaps its own name unlocked.    *)
LEMMA FinishKeeps ==
  ASSUME IInv, NEW w \in Workers, Finish(w),
         UNCHANGED <<disk, cache, nreq, crashes>>, poisoned' \in BOOLEAN,
         \/ UNCHANGED nameLock
         \/ job[w].pc \in Owning /\ nameLock' = Unlocked(Key(job[w]))
  PROVE  IInv'
<1>1. job \in [Workers -> Job]
  BY DEF IInv, TypeOK
<1>2. TypeOK'
  BY <1>1, FinishJob DEF IInv, TypeOK, disk, Unlocked
<1>3. Idle.pc \notin Owning
  BY DEF Idle, Owning
<1> QED
  BY <1>1, <1>2, <1>3, FinishJob, StepKeeps DEF Unlocked

(* A worker that goes on to another step and changes nothing shared.       *)
LEMMA GotoKeeps ==
  ASSUME IInv, NEW w \in Workers, NEW j \in Job, NEW pc \in PCs,
         Goto(w, j, pc),
         WellFormed(IF pc = "idle" THEN Idle ELSE [j EXCEPT !.pc = pc]),
         pc \in Owning => job[w].pc \in Owning /\ Key(j) = Key(job[w]),
         UNCHANGED <<disk, memory, nreq, crashes>>
  PROVE  IInv'
<1>1. job \in [Workers -> Job]
  BY DEF IInv, TypeOK
<1>2. TypeOK'
  BY <1>1, GotoJob DEF IInv, TypeOK, disk, memory
<1>3. Idle.pc \notin Owning /\ [j EXCEPT !.pc = pc].pc = pc
  BY DEF Idle, Owning, Job
<1>4. Key([j EXCEPT !.pc = pc]) = Key(j)
  BY DEF Key, Job
<1>5. job[w].pc \in Owning => Key(job[w]) \in nameLock
  BY DEF IInv, LockOwned
<1>6. nameLock' = nameLock
  BY DEF memory
<1>7. /\ job'[w] = IF pc = "idle" THEN Idle ELSE [j EXCEPT !.pc = pc]
      /\ \A v \in Workers \ {w} : job'[v] = job[v]
  BY <1>1, GotoJob
<1>8. WellFormed(job'[w])
  BY <1>7
<1>9. job'[w].pc \in Owning =>
         job[w].pc \in Owning /\ Key(job'[w]) = Key(job[w])
  BY <1>3, <1>4, <1>7
<1> QED
  BY <1>2, <1>5, <1>6, <1>7, <1>8, <1>9, StepKeeps

-----------------------------------------------------------------------------
LEMMA InitEstablishesIInv == Init => IInv
<1> SUFFICES ASSUME Init PROVE IInv
  OBVIOUS
<1> USE NamespaceAssumption DEF NamespaceAssumption, Init
<1>1. Idle \in Job
  BY DEF Idle, Job, PCs
<1>2. TypeOK
  <2>1. live \subseteq Fid /\ dirs \subseteq Fid /\ nameLock \subseteq Paths \X Names
    OBVIOUS
  <2>2. cache \in [Fid -> Fid \union {None}] /\ job \in [Workers -> Job]
    BY <1>1
  <2>3. numbered \in [Fid -> Fid \union {None}] /\ named \subseteq Fid \X Fid \X Names
    OBVIOUS
  <2>4. nextFid \in Nat \ {0} /\ nreq \in Nat /\ crashes \in Nat
    OBVIOUS
  <2> QED
    BY <2>1, <2>2, <2>3, <2>4 DEF TypeOK
<1>3. WellFormed(Idle) /\ Idle.pc \notin Owning
  BY DEF Idle, WellFormed, Owning
<1>4. JobsOK /\ LockOwned
  BY <1>3 DEF JobsOK, LockOwned
<1> QED
  BY <1>2, <1>4 DEF IInv

LEMMA StartKeeps ==
  ASSUME IInv, NEW w \in Workers, Start(w)
  PROVE  IInv'
<1>1. PICK r \in Requests :
         job' = [job EXCEPT ![w] = [Idle EXCEPT
                    !.pc = IF r.op \in Creates THEN "findDst" ELSE "findSrc",
                    !.req = r]]
  BY DEF Start
<1> DEFINE pc == IF r.op \in Creates THEN "findDst" ELSE "findSrc"
           j == [Idle EXCEPT !.pc = pc, !.req = r]
<1>2. job \in [Workers -> Job]
  BY DEF IInv, TypeOK
<1>3. j \in Job /\ j.pc = pc /\ j.req = r
  BY DEF Idle, Job, PCs
<1>4. job'[w] = j /\ \A v \in Workers \ {w} : job'[v] = job[v]
  BY <1>1, <1>2
<1>5. TypeOK'
  BY <1>1, <1>2, <1>3 DEF Start, IInv, TypeOK, disk, memory
<1>6. WellFormed(j) /\ pc \notin Owning
  BY <1>3 DEF WellFormed, IsCreate, Owning
<1>7. nameLock' = nameLock
  BY DEF Start, memory
<1> HIDE DEF j, pc
<1> QED
  BY <1>3, <1>4, <1>5, <1>6, <1>7, StepKeeps

\* The operations and where they go after each lookup.
LEMMA RequestFacts ==
  ASSUME NEW r \in Requests
  PROVE  /\ r.op \in Ops
         /\ r.dir \in Fid /\ r.todir \in Fid
         /\ r.name \in Names /\ r.toname \in Names
  BY NamespaceAssumption DEF NamespaceAssumption, Request

LEMMA AfterLookupPC ==
  ASSUME NEW r \in Requests
  PROVE  /\ r.op \notin Creates => AfterSrc(r) \in PCs \ Owning
         /\ AfterDst(r) \in PCs \ Owning
  BY RequestFacts DEF AfterSrc, AfterDst, Owning, PCs, Ops, Creates, Deletes

LEMMA AfterSrcFacts ==
  ASSUME NEW j \in Job, j.req \in Requests, ~IsCreate(j),
         NEW x \in Job, x.req = j.req, x.src \in Paths, x.pc = AfterSrc(j.req)
  PROVE  WellFormed(x)
  BY RequestFacts DEF AfterSrc, WellFormed, IsCreate, Owning, PCs, Ops,
     Creates, Deletes

LEMMA AfterDstFacts ==
  ASSUME NEW j \in Job, j.req \in Requests, NEW x \in Job, x.req = j.req,
         x.dst \in Paths, IsCreate(j) \/ x.src \in Paths,
         x.pc = AfterDst(j.req)
  PROVE  WellFormed(x)
  BY RequestFacts DEF AfterDst, WellFormed, IsCreate, Owning, PCs, Ops,
     Creates, Deletes

LEMMA IdleFacts == Idle \in Job /\ WellFormed(Idle) /\ Idle.pc \notin Owning
  BY DEF Idle, Job, PCs, WellFormed, Owning

LEMMA ToCacheType ==
  ASSUME NEW p \in Paths, NEW k \in 1 .. Len(p)
  PROVE  ToCache(p, k) \in SUBSET (Fid \X Fid)
<1>1. \A i \in 1 .. k - 1 : i \in 1 .. Len(p) /\ i + 1 \in 1 .. Len(p)
  BY PathFacts
<1> QED
  BY <1>1, PathFacts DEF ToCache

LEMMA FindKeeps ==
  ASSUME IInv, NEW w \in Workers, FindSrc(w) \/ FindDst(w)
  PROVE  IInv'
<1> DEFINE j == job[w]
<1>1. j \in Job /\ WellFormed(j)
  BY DEF IInv, TypeOK, JobsOK
<1>2. CASE FindSrc(w)
  <2>0. PICK p \in Paths : \E k \in 1 .. Len(p) :
          Goto(w, [j EXCEPT !.src = p, !.pairs = ToCache(p, k)],
               IF k = 1 THEN AfterSrc(j.req) ELSE "extSrc")
    BY <1>2 DEF FindSrc
  <2>1. PICK k \in 1 .. Len(p) :
          Goto(w, [j EXCEPT !.src = p, !.pairs = ToCache(p, k)],
               IF k = 1 THEN AfterSrc(j.req) ELSE "extSrc")
    BY <2>0
  <2> DEFINE x  == [j EXCEPT !.src = p, !.pairs = ToCache(p, k)]
             pc == IF k = 1 THEN AfterSrc(j.req) ELSE "extSrc"
  <2>2. x \in Job /\ x.req = j.req /\ x.src \in Paths
    BY <1>1, ToCacheType DEF Job
  <2>3. j.req \in Requests /\ ~IsCreate(j) /\ ~IsCreate(x)
    BY <1>1, <1>2, <2>2 DEF FindSrc, WellFormed, IsCreate
  <2>4. [x EXCEPT !.pc = pc] \in Job /\ [x EXCEPT !.pc = pc].pc = pc
        /\ [x EXCEPT !.pc = pc].req = j.req
        /\ [x EXCEPT !.pc = pc].src \in Paths /\ pc \in PCs \ Owning
    <3>1. pc \in PCs \ Owning
      BY <2>3, AfterLookupPC DEF IsCreate, PCs, Owning
    <3> QED
      BY <2>2, <3>1 DEF Job
  <2>5. WellFormed([x EXCEPT !.pc = pc])
    <3>1. CASE k = 1
      BY <2>2, <2>3, <2>4, <3>1, AfterSrcFacts, <1>1
    <3>2. CASE k # 1
      BY <2>3, <2>4, <3>2 DEF WellFormed, IsCreate, Owning
    <3> QED
      BY <3>1, <3>2
  <2>6. Goto(w, x, pc) /\ UNCHANGED <<disk, memory, nreq, crashes>>
    BY <1>2, <2>1 DEF FindSrc
  <2> HIDE DEF x, pc
  <2> QED
    BY <2>2, <2>4, <2>5, <2>6, IdleFacts, GotoKeeps
<1>3. CASE FindDst(w)
  <2>0. PICK p \in Paths : \E k \in 1 .. Len(p) :
          Goto(w, [j EXCEPT !.dst = p, !.pairs = ToCache(p, k)],
               IF k = 1 THEN AfterDst(j.req) ELSE "extDst")
    BY <1>3 DEF FindDst
  <2>1. PICK k \in 1 .. Len(p) :
          Goto(w, [j EXCEPT !.dst = p, !.pairs = ToCache(p, k)],
               IF k = 1 THEN AfterDst(j.req) ELSE "extDst")
    BY <2>0
  <2> DEFINE x  == [j EXCEPT !.dst = p, !.pairs = ToCache(p, k)]
             pc == IF k = 1 THEN AfterDst(j.req) ELSE "extDst"
  <2>2. x \in Job /\ x.req = j.req /\ x.dst \in Paths /\ x.src = j.src
    BY <1>1, ToCacheType DEF Job
  <2>3. j.req \in Requests /\ (IsCreate(j) \/ j.src \in Paths)
        /\ (IsCreate(x) <=> IsCreate(j))
    BY <1>1, <1>3, <2>2 DEF FindDst, WellFormed, IsCreate
  <2>4. [x EXCEPT !.pc = pc] \in Job /\ [x EXCEPT !.pc = pc].pc = pc
        /\ [x EXCEPT !.pc = pc].req = x.req /\ [x EXCEPT !.pc = pc].dst = x.dst
        /\ [x EXCEPT !.pc = pc].src = x.src
        /\ pc \in PCs \ Owning
    <3>1. pc \in PCs \ Owning
      BY <2>3, AfterLookupPC DEF PCs, Owning
    <3> QED
      BY <2>2, <3>1 DEF Job
  <2>5. WellFormed([x EXCEPT !.pc = pc])
    <3>1. CASE k = 1
      BY <2>2, <2>3, <2>4, <3>1, AfterDstFacts
    <3>2. CASE k # 1
      BY <2>2, <2>3, <2>4, <3>2 DEF WellFormed, IsCreate, Owning
    <3> QED
      BY <3>1, <3>2
  <2>6. Goto(w, x, pc) /\ UNCHANGED <<disk, memory, nreq, crashes>>
    BY <1>3, <2>1 DEF FindDst
  <2> HIDE DEF x, pc
  <2> QED
    BY <2>2, <2>4, <2>5, <2>6, IdleFacts, GotoKeeps
<1> QED
  BY <1>2, <1>3

LEMMA ExtendKeeps ==
  ASSUME IInv, NEW w \in Workers, Extend(w)
  PROVE  IInv'
<1> DEFINE j  == job[w]
           x  == [j EXCEPT !.pairs = {}]
           pc == IF j.pc = "extSrc" THEN AfterSrc(j.req) ELSE AfterDst(j.req)
<1>1. j \in Job /\ WellFormed(j) /\ job \in [Workers -> Job]
  BY DEF IInv, TypeOK, JobsOK
<1>2. x \in Job /\ x.req = j.req /\ x.dst = j.dst /\ x.src = j.src
  BY <1>1 DEF Job
<1>3. j.req \in Requests
  BY <1>1 DEF Extend, WellFormed
<1>4. Goto(w, x, pc)
  BY DEF Extend
<1> HIDE DEF x
<1>5. pc \in PCs \ Owning /\ WellFormed([x EXCEPT !.pc = pc])
  <2>1. CASE j.pc = "extSrc"
    <3>1. ~IsCreate(j) /\ j.src \in Paths /\ pc \in PCs \ Owning
      BY <1>1, <1>3, <2>1, AfterLookupPC DEF WellFormed, IsCreate
    <3>2. [x EXCEPT !.pc = pc] \in Job /\ [x EXCEPT !.pc = pc].pc = pc
          /\ [x EXCEPT !.pc = pc].req = j.req /\ [x EXCEPT !.pc = pc].src = j.src
      BY <1>2, <3>1 DEF Job
    <3> QED
      BY <1>1, <1>3, <2>1, <3>1, <3>2, AfterSrcFacts
  <2>2. CASE j.pc # "extSrc"
    <3>1. j.dst \in Paths /\ (IsCreate(j) \/ j.src \in Paths)
      BY <1>1, <2>2 DEF Extend, WellFormed
    <3>2. pc \in PCs \ Owning
      BY <1>3, <2>2, AfterLookupPC
    <3>3. [x EXCEPT !.pc = pc] \in Job /\ [x EXCEPT !.pc = pc].pc = pc
          /\ [x EXCEPT !.pc = pc].req = j.req /\ [x EXCEPT !.pc = pc].dst = j.dst
          /\ [x EXCEPT !.pc = pc].src = j.src
      BY <1>2, <3>2 DEF Job
    <3> QED
      BY <1>1, <1>3, <2>2, <3>1, <3>2, <3>3, AfterDstFacts
  <2> QED
    BY <2>1, <2>2
<1> HIDE DEF pc
<1>6. cache' \in [Fid -> Fid \union {None}]
  <2>1. \A f \in Fid : cache[f] \in Fid \union {None}
    BY DEF IInv, TypeOK
  <2>2. cache' = [f \in Fid |->
                    IF \E d \in Fid : <<f, d>> \in j.pairs
                    THEN CHOOSE d \in Fid : <<f, d>> \in j.pairs
                    ELSE cache[f]]
    BY DEF Extend
  <2> QED
    BY <2>1, <2>2
<1>7. TypeOK'
  BY <1>1, <1>2, <1>4, <1>5, <1>6, GotoJob DEF IInv, TypeOK, Extend, disk
<1>8. job'[w] \in {Idle, [x EXCEPT !.pc = pc]}
      /\ \A v \in Workers \ {w} : job'[v] = job[v]
  BY <1>1, <1>2, <1>4, <1>5, GotoJob
<1>9. [x EXCEPT !.pc = pc].pc = pc
  BY <1>2 DEF Job
<1>10. nameLock' = nameLock
  BY DEF Extend
<1> QED
  BY <1>5, <1>7, <1>8, <1>9, <1>10, IdleFacts, StepKeeps

-----------------------------------------------------------------------------
(* Steps that end a request and write nothing but name_lock and the cache. *)
LEMMA EndingsKeep ==
  ASSUME IInv, NEW w \in Workers,
         \/ NotFound(w) \/ BadName(w) \/ LockRefused(w) \/ CheckPanics(w)
         \/ NameTaken(w) \/ MkNamedFails(w) \/ SetAttrFails(w)
         \/ UnlinkFails(w) \/ MoveFails(w) \/ NotEmpty(w) \/ ExtendPanics(w)
  PROVE  IInv'
<1>1. /\ Finish(w)
      /\ UNCHANGED <<disk, cache, poisoned, nreq, crashes>>
      /\ \/ UNCHANGED nameLock
         \/ job[w].pc \in Owning /\ nameLock' = Unlocked(Key(job[w]))
  BY DEF NotFound, BadName, LockRefused, CheckPanics, NameTaken, MkNamedFails,
     SetAttrFails, UnlinkFails, MoveFails, NotEmpty, ExtendPanics, memory, Owning
<1>2. poisoned' \in BOOLEAN
  BY <1>1 DEF IInv, TypeOK
<1> QED
  BY <1>1, <1>2, FinishKeeps

(* Steps that end a request and write to disk or to the cache.             *)
LEMMA WritingEndingsKeep ==
  ASSUME IInv, NEW w \in Workers,
         \/ CacheIns(w) \/ DropNamed(w) \/ DropNamedPanics(w) \/ DropOld(w)
  PROVE  IInv'
<1>1. Finish(w) /\ nameLock' = nameLock
      /\ UNCHANGED <<numbered, dirs, nextFid, live, nreq, crashes>>
  BY DEF CacheIns, DropNamed, DropNamedPanics, DropOld, disk, memory
<1>2. named' \subseteq named
  BY DEF CacheIns, DropNamed, DropNamedPanics, DropOld, disk
<1>3. poisoned' \in BOOLEAN
  BY DEF CacheIns, DropNamed, DropNamedPanics, DropOld, memory, IInv, TypeOK
<1>4. cache' \in [Fid -> Fid \union {None}]
  <2>1. CASE CacheIns(w)
    <3>1. job[w].req.todir \in Fid
      BY <2>1, RequestFacts DEF IInv, JobsOK, WellFormed, CacheIns
    <3> QED
      BY <2>1, <3>1 DEF CacheIns, IInv, TypeOK
  <2>2. CASE DropNamed(w) \/ DropNamedPanics(w)
    BY <2>2 DEF DropNamed, DropNamedPanics, IInv, TypeOK
  <2>3. CASE DropOld(w)
    BY <2>3 DEF DropOld, memory, IInv, TypeOK
  <2> QED
    BY <2>1, <2>2, <2>3
<1>5. job \in [Workers -> Job]
  BY DEF IInv, TypeOK
<1>6. TypeOK'
  BY <1>1, <1>2, <1>3, <1>4, <1>5, FinishJob DEF IInv, TypeOK
<1> QED
  BY <1>1, <1>5, <1>6, IdleFacts, FinishJob, StepKeeps

LEMMA ByNameKeeps ==
  ASSUME IInv, NEW w \in Workers, ByName(w)
  PROVE  IInv'
<1> DEFINE j  == job[w]
           pc == AfterName(j.req)
<1>1. j \in Job /\ WellFormed(j)
  BY DEF IInv, TypeOK, JobsOK
<1>2. PICK f \in Fid : Goto(w, [j EXCEPT !.fid = f], pc)
  BY DEF ByName, WithName
<1> DEFINE x == [j EXCEPT !.fid = f]
<1>3. x \in Job /\ x.req = j.req /\ x.dst = j.dst /\ x.src = j.src /\ x.fid = f
  BY <1>1 DEF Job
<1>4. j.req \in Requests /\ j.req.op \in Ops /\ ~IsCreate(j)
      /\ (j.req.op = "rename" => j.dst \in Paths) /\ j.src \in Paths
  BY <1>1, RequestFacts DEF ByName, WellFormed
<1>5. pc \in PCs \ Owning /\ (pc = "lock" => j.req.op = "rename")
      /\ pc \in {"lock", "readDir", "unlink", "idle"}
  BY <1>4 DEF AfterName, Ops, Creates, Deletes, PCs, Owning
<1> HIDE DEF x, pc
<1>6. WellFormed([x EXCEPT !.pc = pc])
  <2>1. /\ [x EXCEPT !.pc = pc].pc = pc
        /\ [x EXCEPT !.pc = pc].req = j.req
        /\ [x EXCEPT !.pc = pc].dst = j.dst
        /\ [x EXCEPT !.pc = pc].src = j.src
        /\ [x EXCEPT !.pc = pc].fid = f
    BY <1>3 DEF Job
  <2> QED
    BY <2>1, <1>4, <1>5 DEF WellFormed, Owning
<1>7. Goto(w, x, pc) /\ UNCHANGED <<disk, memory, nreq, crashes>>
  BY <1>2 DEF ByName, x
<1> QED
  BY <1>3, <1>5, <1>6, <1>7, IdleFacts, GotoKeeps

LEMMA LockKeeps ==
  ASSUME IInv, NEW w \in Workers, Lock(w)
  PROVE  IInv'
<1> DEFINE j == job[w]
           x == [j EXCEPT !.pc = "check"]
<1>1. j \in Job /\ WellFormed(j) /\ job \in [Workers -> Job]
  BY DEF IInv, TypeOK, JobsOK
<1>2. /\ x \in Job /\ x.pc = "check"
      /\ x.req = j.req /\ x.dst = j.dst /\ x.src = j.src /\ x.fid = j.fid
  BY <1>1 DEF Job, PCs
<1>3. /\ job' \in [Workers -> Job] /\ job'[w] = x
      /\ \A v \in Workers \ {w} : job'[v] = job[v]
  <2>1. Goto(w, j, "check") /\ "check" \in PCs
    BY DEF Lock, PCs
  <2> QED
    BY <1>1, <2>1, GotoJob
<1>4. j.req \in Requests /\ j.dst \in Paths
  BY <1>1 DEF Lock, WellFormed
<1>5. Key(j) \in Paths \X Names
  BY <1>4, RequestFacts DEF Key
<1>6. TypeOK'
  BY <1>3, <1>5 DEF Lock, IInv, TypeOK, disk
<1>7. WellFormed(x)
  BY <1>1, <1>2, <1>4 DEF Lock, WellFormed, IsCreate, Owning
<1>8. Key(x) = Key(j) /\ Key(j) \notin nameLock /\ nameLock' = nameLock \union {Key(j)}
  BY <1>2 DEF Lock, Lockable, Key
<1> HIDE DEF x
<1> QED
  BY <1>3, <1>6, <1>7, <1>8, StepKeeps

LEMMA CheckKeeps ==
  ASSUME IInv, NEW w \in Workers, Check(w)
  PROVE  IInv'
<1> DEFINE j  == job[w]
           pc == AfterCheck(j)
<1>1. j \in Job /\ WellFormed(j) /\ j.pc = "check"
  BY DEF IInv, TypeOK, JobsOK, Check
<1>2. pc \in {"mkNumbered", "mkNamed"} /\ (pc = "mkNamed" => ~IsCreate(j))
  BY DEF AfterCheck
<1>3. pc \in PCs /\ pc \in Owning /\ j.pc \in Owning /\ pc # "idle"
  BY <1>1, <1>2 DEF PCs, Owning
<1> HIDE DEF pc
<1>4. WellFormed([j EXCEPT !.pc = pc])
  <2>1. /\ [j EXCEPT !.pc = pc].pc = pc
        /\ [j EXCEPT !.pc = pc].req = j.req
        /\ [j EXCEPT !.pc = pc].dst = j.dst
        /\ [j EXCEPT !.pc = pc].src = j.src
        /\ [j EXCEPT !.pc = pc].fid = j.fid
    BY <1>1 DEF Job
  <2> QED
    BY <2>1, <1>1, <1>2 DEF WellFormed, IsCreate, Owning
<1>5. Goto(w, j, pc) /\ UNCHANGED <<disk, memory, nreq, crashes>>
  BY DEF Check, pc
<1> QED
  BY <1>1, <1>3, <1>4, <1>5, GotoKeeps

-----------------------------------------------------------------------------
(* Going on to the next step, for the handlers' steps that write.          *)
LEMMA NextStep ==
  ASSUME NEW w \in Workers, job \in [Workers -> Job], WellFormed(job[w]),
         NEW pc \in PCs \ {"idle"}, Goto(w, job[w], pc)
  PROVE  /\ job' \in [Workers -> Job]
         /\ \A v \in Workers \ {w} : job'[v] = job[v]
         /\ job'[w].pc = pc
         /\ job'[w].req = job[w].req
         /\ job'[w].dst = job[w].dst
         /\ job'[w].src = job[w].src
         /\ job'[w].fid = job[w].fid
<1>1. job[w] \in Job /\ pc # "idle" /\ pc \in PCs
  OBVIOUS
<1>2. /\ job' \in [Workers -> Job]
      /\ \A v \in Workers \ {w} : job'[v] = job[v]
      /\ job'[w] = IF pc = "idle" THEN Idle ELSE [job[w] EXCEPT !.pc = pc]
  BY <1>1, GotoJob
<1>3. job'[w] = [job[w] EXCEPT !.pc = pc]
  BY <1>1, <1>2
<1> QED
  BY <1>1, <1>2, <1>3 DEF Job

LEMMA MkNumberedKeeps ==
  ASSUME IInv, NEW w \in Workers, MkNumbered(w)
  PROVE  IInv'
<1> DEFINE j == job[w]
<1>1. /\ j \in Job /\ WellFormed(j) /\ job \in [Workers -> Job]
      /\ j.pc = "mkNumbered" /\ j.pc \in Owning
      /\ j.req \in Requests /\ j.dst \in Paths
  BY DEF IInv, TypeOK, JobsOK, MkNumbered, WellFormed, Owning
<1>2. nextFid \in Fid /\ nextFid' = nextFid + 1 /\ nextFid' \in Nat \ {0}
  BY NamespaceAssumption DEF NamespaceAssumption, MkNumbered, IInv, TypeOK, Fid
<1>3. UNCHANGED <<named, live, cache, nameLock, poisoned, nreq, crashes>>
  BY DEF MkNumbered, memory
<1>4. CASE IsDir(j.dst)
  <2> DEFINE x == [j EXCEPT !.fid = nextFid, !.pc = "mkNamed"]
  <2>1. /\ x \in Job /\ x.pc = "mkNamed"
        /\ x.req = j.req /\ x.dst = j.dst /\ x.src = j.src /\ x.fid = nextFid
    BY <1>1, <1>2 DEF Job, PCs
  <2>2. job' = [job EXCEPT ![w] = x]
    BY <1>4 DEF MkNumbered, Goto
  <2>3. /\ job' \in [Workers -> Job] /\ job'[w] = x
        /\ \A v \in Workers \ {w} : job'[v] = job[v]
    BY <1>1, <2>1, <2>2
  <2>4. numbered' \in [Fid -> Fid \union {None}] /\ dirs' \subseteq Fid
    BY <1>1, <1>2, <1>4, PathFacts DEF MkNumbered, IInv, TypeOK
  <2>5. TypeOK'
    BY <1>2, <1>3, <2>3, <2>4 DEF IInv, TypeOK
  <2>6. WellFormed(x)
    BY <1>1, <1>2, <2>1 DEF WellFormed, IsCreate, Owning
  <2>7. Key(x) = Key(j) /\ Key(j) \in nameLock
    BY <1>1, <2>1 DEF Key, IInv, LockOwned
  <2> HIDE DEF x
  <2> QED
    BY <1>1, <1>3, <2>3, <2>5, <2>6, <2>7, StepKeeps
<1>5. CASE ~IsDir(j.dst)
  <2>1. Finish(w) /\ UNCHANGED <<numbered, dirs>>
    BY <1>5 DEF MkNumbered
  <2>2. TypeOK'
    BY <1>1, <1>2, <1>3, <2>1, FinishJob DEF IInv, TypeOK
  <2> QED
    BY <1>1, <1>3, <2>1, <2>2, IdleFacts, FinishJob, StepKeeps
<1> QED
  BY <1>4, <1>5

LEMMA MkNamedKeeps ==
  ASSUME IInv, NEW w \in Workers, MkNamed(w)
  PROVE  IInv'
<1> DEFINE j  == job[w]
           pc == IF IsCreate(j) THEN "setAttr" ELSE "move"
<1>1. /\ j \in Job /\ WellFormed(j) /\ job \in [Workers -> Job]
      /\ j.pc \in Owning /\ j.fid \in Fid
      /\ j.req \in Requests /\ j.dst \in Paths
  BY DEF IInv, TypeOK, JobsOK, MkNamed, WellFormed, Owning
<1>2. Goto(w, j, pc) /\ pc \in PCs \ {"idle"} /\ pc \in {"setAttr", "move"}
      /\ (pc = "move" => ~IsCreate(j))
  BY DEF MkNamed, PCs
<1> HIDE DEF pc
<1>3. /\ job' \in [Workers -> Job] /\ job'[w].pc = pc
      /\ \A v \in Workers \ {w} : job'[v] = job[v]
      /\ job'[w].req = j.req /\ job'[w].dst = j.dst /\ job'[w].src = j.src
      /\ job'[w].fid = j.fid
  BY <1>1, <1>2, NextStep
<1>4. named' \subseteq Fid \X Fid \X Names /\ live' \subseteq Fid
  BY <1>1, PathFacts, RequestFacts DEF MkNamed, IInv, TypeOK
<1>5. UNCHANGED <<numbered, dirs, nextFid, cache, nameLock, poisoned, nreq, crashes>>
  BY DEF MkNamed, memory
<1>6. TypeOK'
  BY <1>3, <1>4, <1>5 DEF IInv, TypeOK
<1>7. WellFormed(job'[w])
  BY <1>1, <1>2, <1>3 DEF WellFormed, IsCreate, Owning
<1>8. Key(job'[w]) = Key(j) /\ Key(j) \in nameLock
  BY <1>1, <1>3 DEF Key, IInv, LockOwned
<1> QED
  BY <1>1, <1>3, <1>5, <1>6, <1>7, <1>8, StepKeeps

\* The steps that unlock the name and go on.
LEMMA UnlockKeeps ==
  ASSUME IInv, NEW w \in Workers, SetAttr(w) \/ Move(w)
  PROVE  IInv'
<1> DEFINE j  == job[w]
           pc == IF j.pc = "setAttr" THEN "cacheIns" ELSE "dropOld"
<1>1. /\ j \in Job /\ WellFormed(j) /\ job \in [Workers -> Job]
      /\ j.pc \in Owning /\ j.req \in Requests /\ j.dst \in Paths
      /\ j.fid \in Fid
  BY DEF IInv, TypeOK, JobsOK, SetAttr, Move, WellFormed, Owning
<1>2. Goto(w, j, pc) /\ pc \in PCs \ {"idle"} /\ pc \notin Owning
  BY DEF SetAttr, Move, PCs, Owning
<1>3. /\ job' \in [Workers -> Job] /\ job'[w].pc = pc
      /\ \A v \in Workers \ {w} : job'[v] = job[v]
      /\ job'[w].req = j.req /\ job'[w].dst = j.dst /\ job'[w].src = j.src
      /\ job'[w].fid = j.fid
  BY <1>1, <1>2, NextStep
<1>4. numbered' \in [Fid -> Fid \union {None}]
      /\ cache' \in [Fid -> Fid \union {None}]
  BY <1>1, PathFacts, RequestFacts, SMTT(30) DEF SetAttr, Move, disk, IInv, TypeOK
<1>5. /\ UNCHANGED <<named, dirs, nextFid, live, poisoned, nreq, crashes>>
      /\ nameLock' = nameLock \ {Key(j)}
  BY DEF SetAttr, Move, disk, Unlocked
<1>6. TypeOK'
  BY <1>3, <1>4, <1>5 DEF IInv, TypeOK
<1>7. WellFormed(job'[w])
  BY <1>1, <1>2, <1>3 DEF WellFormed, IsCreate, Owning
<1> QED
  BY <1>1, <1>2, <1>3, <1>5, <1>6, <1>7, StepKeeps

LEMMA MovePanicsKeeps ==
  ASSUME IInv, NEW w \in Workers, MovePanics(w)
  PROVE  IInv'
<1> DEFINE j == job[w]
<1>1. job \in [Workers -> Job] /\ j.req \in Requests /\ j.dst \in Paths
  BY DEF IInv, TypeOK, JobsOK, MovePanics, WellFormed, Owning
<1>2. numbered' \in [Fid -> Fid \union {None}]
      /\ cache' \in [Fid -> Fid \union {None}]
  BY <1>1, PathFacts, RequestFacts DEF MovePanics, IInv, TypeOK
<1>3. Finish(w) /\ poisoned' = TRUE
      /\ UNCHANGED <<named, dirs, nextFid, live, nameLock, nreq, crashes>>
  BY DEF MovePanics
<1>4. TypeOK'
  BY <1>1, <1>2, <1>3, FinishJob DEF IInv, TypeOK
<1> QED
  BY <1>1, <1>3, <1>4, IdleFacts, FinishJob, StepKeeps

LEMMA CheckEmptyKeeps ==
  ASSUME IInv, NEW w \in Workers, CheckEmpty(w)
  PROVE  IInv'
<1> DEFINE j == job[w]
<1>1. job \in [Workers -> Job] /\ WellFormed(j) /\ j.pc = "readDir" /\ TypeOK
  BY DEF IInv, TypeOK, JobsOK, CheckEmpty
<1>2. Goto(w, j, "unlink") /\ "unlink" \in PCs \ {"idle"}
      /\ "unlink" \notin Owning
  BY DEF CheckEmpty, PCs, Owning
<1>3. /\ job' \in [Workers -> Job] /\ job'[w].pc = "unlink"
      /\ \A v \in Workers \ {w} : job'[v] = job[v]
      /\ job'[w].req = j.req /\ job'[w].src = j.src /\ job'[w].fid = j.fid
  BY <1>1, <1>2, NextStep
<1>4. UNCHANGED <<disk, memory, nreq, crashes>>
  BY DEF CheckEmpty
<1>5. TypeOK'
  BY <1>1, <1>3, <1>4 DEF TypeOK, disk, memory
<1>6. WellFormed(job'[w])
  BY <1>1, <1>3 DEF WellFormed, IsCreate, Owning
<1>7. nameLock' = nameLock
  BY <1>4 DEF memory
<1> QED
  BY <1>2, <1>3, <1>5, <1>6, <1>7, StepKeeps

LEMMA UnlinkKeeps ==
  ASSUME IInv, NEW w \in Workers, Unlink(w)
  PROVE  IInv'
<1> DEFINE j == job[w]
<1>1. job \in [Workers -> Job] /\ WellFormed(j) /\ j.pc = "unlink"
  BY DEF IInv, TypeOK, JobsOK, Unlink
<1>2. Goto(w, j, "dropNamed") /\ "dropNamed" \in PCs \ {"idle"}
      /\ "dropNamed" \notin Owning
  BY DEF Unlink, PCs, Owning
<1>3. /\ job' \in [Workers -> Job] /\ job'[w].pc = "dropNamed"
      /\ \A v \in Workers \ {w} : job'[v] = job[v]
      /\ job'[w].req = j.req /\ job'[w].src = j.src /\ job'[w].fid = j.fid
  BY <1>1, <1>2, NextStep
<1>4. numbered' \in [Fid -> Fid \union {None}] /\ live' \subseteq Fid
  BY DEF Unlink, IInv, TypeOK
<1>5. UNCHANGED <<named, dirs, nextFid, cache, nameLock, poisoned, nreq, crashes>>
  BY DEF Unlink, memory
<1>6. TypeOK'
  BY <1>3, <1>4, <1>5 DEF IInv, TypeOK
<1>7. WellFormed(job'[w])
  BY <1>1, <1>3 DEF WellFormed, IsCreate, Owning
<1> QED
  BY <1>2, <1>3, <1>5, <1>6, <1>7, StepKeeps

LEMMA RestartKeeps ==
  ASSUME IInv, Restart, crashes' \in Nat
  PROVE  IInv'
<1>1. TypeOK'
  BY IdleFacts DEF Restart, IInv, TypeOK, disk
<1>2. JobsOK' /\ LockOwned'
  BY IdleFacts DEF Restart, JobsOK, LockOwned, WellFormed
<1> QED
  BY <1>1, <1>2 DEF IInv

-----------------------------------------------------------------------------
LEMMA StepPreservesIInv == IInv /\ [Next]_vars => IInv'
<1> SUFFICES ASSUME IInv, [Next]_vars PROVE IInv'
  OBVIOUS
<1>1. CASE Crash
  <2>1. crashes' \in Nat
    BY <1>1 DEF Crash, IInv, TypeOK
  <2> QED
    BY <1>1, <2>1, RestartKeeps DEF Crash
<1>2. ASSUME NEW w \in Workers, Overflow(w) PROVE IInv'
  <2>1. crashes' \in Nat
    BY <1>2 DEF Overflow, IInv, TypeOK
  <2> QED
    BY <1>2, <2>1, RestartKeeps DEF Overflow
<1>3. ASSUME NEW w \in Workers, Start(w) PROVE IInv'
  BY <1>3, StartKeeps
<1>4. ASSUME NEW w \in Workers, Lookups(w) PROVE IInv'
  BY <1>4, FindKeeps, EndingsKeep, ExtendKeeps DEF Lookups
<1>5. ASSUME NEW w \in Workers, Naming(w) PROVE IInv'
  BY <1>5, ByNameKeeps, LockKeeps, CheckKeeps, EndingsKeep DEF Naming
<1>6. ASSUME NEW w \in Workers, Creating(w) PROVE IInv'
  BY <1>6, MkNumberedKeeps, MkNamedKeeps, UnlockKeeps, EndingsKeep,
     WritingEndingsKeep DEF Creating
<1>7. ASSUME NEW w \in Workers, Deleting(w) PROVE IInv'
  BY <1>7, CheckEmptyKeeps, UnlinkKeeps, EndingsKeep, WritingEndingsKeep DEF Deleting
<1>8. ASSUME NEW w \in Workers, Moving(w) PROVE IInv'
  BY <1>8, UnlockKeeps, MovePanicsKeeps, EndingsKeep, WritingEndingsKeep
     DEF Moving
<1>9. CASE UNCHANGED vars
  BY <1>9 DEF vars, disk, memory, IInv, TypeOK, JobsOK, LockOwned, Key
<1> QED
  BY <1>1, <1>2, <1>3, <1>4, <1>5, <1>6, <1>7, <1>8, <1>9 DEF Next

LEMMA Inductive == Spec => []IInv
  BY InitEstablishesIInv, StepPreservesIInv, PTL DEF Spec

(* The variables of the server keep their types, whatever the requests and *)
(* crashes: in particular a named file is only ever made for a FID that    *)
(* was issued, in a directory a request had found.                         *)
THEOREM TypeCorrect == Spec => []TypeOK
<1>1. IInv => TypeOK
  BY DEF IInv
<1> QED
  BY <1>1, Inductive, PTL

(* From lock_name to unlock_name (mod.rs:1007-1089, 501-540) a worker has  *)
(* its name in name_lock, and has it for itself: unlock_name never panics. *)
THEOREM NamesAreOwned == Spec => []LockOwned
<1>1. IInv => LockOwned
  BY DEF IInv
<1> QED
  BY <1>1, Inductive, PTL

-----------------------------------------------------------------------------
(* The server's files stay a tree.                                         *)

LEMMA InitTree == Init => TreeInv
<1> SUFFICES ASSUME Init PROVE TreeInv
  OBVIOUS
<1> USE TreeAssumption DEF TreeAssumption
<1>1. numbered = InitNumbered /\ named = InitNamed /\ dirs = InitDirs
      /\ nextFid = FirstFree /\ job = [w \in Workers |-> Idle]
  BY DEF Init
<1>2. \A f \in Fid : numbered[f] # None => numbered[f] \in dirs /\ Present(numbered[f])
  BY <1>1 DEF Present
<1>3. \A e \in named : e[1] \in dirs /\ Present(e[1])
  BY <1>1 DEF Present
<1>4. Acyclic
  BY <1>1 DEF Acyclic
<1>5. numbered[Root] = None /\ Root \in dirs /\ Root < nextFid
  BY <1>1, NamespaceAssumption DEF NamespaceAssumption, Root
<1>6. \A f \in Fid : f >= nextFid => numbered[f] = None /\ f \notin dirs
  BY <1>1
<1>7. \A w \in Workers : job[w].pc \notin {"readDir", "unlink"}
  BY <1>1 DEF Idle
<1> QED
  BY <1>2, <1>3, <1>4, <1>5, <1>6, <1>7 DEF TreeInv, TreeShape

\* What a worker does to another's request: nothing.
LEMMA PlaceAfter ==
  ASSUME NEW w \in Workers, job \in [Workers -> Job], NEW j, NEW pc,
         Goto(w, j, pc), "pc" \in DOMAIN j
  PROVE  /\ \A v \in Workers \ {w} : job'[v] = job[v]
         /\ job'[w].pc = pc
  BY DEF Goto, Idle

LEMMA IdleAfter ==
  ASSUME NEW w \in Workers, job \in [Workers -> Job], Finish(w)
  PROVE  /\ \A v \in Workers \ {w} : job'[v] = job[v]
         /\ job'[w].pc = "idle"
  BY DEF Finish, Idle

(* Only ByName and CheckEmpty lead to an unlink.                           *)
LEMMA NotUnlinking ==
  ASSUME IInv, NEW w \in Workers,
         \/ Start(w) \/ Lookups(w) \/ Creating(w) \/ Moving(w)
         \/ Naming(w) /\ ~ByName(w)
         \/ Deleting(w) /\ ~CheckEmpty(w)
  PROVE  /\ \A v \in Workers \ {w} : job'[v] = job[v]
         /\ job'[w].pc \notin {"readDir", "unlink"}
<1> DEFINE j == job[w]
<1>1. job \in [Workers -> Job] /\ j \in Job /\ "pc" \in DOMAIN j
  BY DEF IInv, TypeOK, Job
<1>2. CASE Start(w)
  BY <1>1, <1>2 DEF Start, Idle
<1>3. CASE FindSrc(w) \/ FindDst(w)
  <2>1. PICK p \in Paths, k \in Nat :
           \/ Goto(w, [j EXCEPT !.src = p, !.pairs = ToCache(p, k)],
                   IF k = 1 THEN AfterSrc(j.req) ELSE "extSrc")
           \/ Goto(w, [j EXCEPT !.dst = p, !.pairs = ToCache(p, k)],
                   IF k = 1 THEN AfterDst(j.req) ELSE "extDst")
    <3>1. \A p \in Paths : 1 .. Len(p) \subseteq Nat
      BY PathFacts
    <3> QED
      BY <1>3, <3>1 DEF FindSrc, FindDst
  <2>2. AfterSrc(j.req) \notin {"readDir", "unlink"}
        /\ AfterDst(j.req) \notin {"readDir", "unlink"}
    BY DEF AfterSrc, AfterDst
  <2> DEFINE x == [j EXCEPT !.src = p, !.pairs = ToCache(p, k)]
             y == [j EXCEPT !.dst = p, !.pairs = ToCache(p, k)]
  <2>3. "pc" \in DOMAIN x /\ "pc" \in DOMAIN y
    BY <1>1
  <2>4. PICK pc : (Goto(w, x, pc) \/ Goto(w, y, pc)) /\ pc \notin {"readDir", "unlink"}
    <3>1. CASE Goto(w, x, IF k = 1 THEN AfterSrc(j.req) ELSE "extSrc")
      BY <2>2, <3>1
    <3>2. CASE Goto(w, y, IF k = 1 THEN AfterDst(j.req) ELSE "extDst")
      BY <2>2, <3>2
    <3> QED
      BY <2>1, <3>1, <3>2
  <2> HIDE DEF x, y
  <2> QED
    BY <1>1, <2>3, <2>4, PlaceAfter
<1>4. CASE Extend(w)
  <2> DEFINE x == [j EXCEPT !.pairs = {}]
  <2>1. Goto(w, x, IF j.pc = "extSrc" THEN AfterSrc(j.req) ELSE AfterDst(j.req))
    BY <1>4 DEF Extend
  <2>2. AfterSrc(j.req) \notin {"readDir", "unlink"}
        /\ AfterDst(j.req) \notin {"readDir", "unlink"}
    BY DEF AfterSrc, AfterDst
  <2>3. "pc" \in DOMAIN x
    BY <1>1
  <2> HIDE DEF x
  <2> QED
    BY <1>1, <2>1, <2>2, <2>3, PlaceAfter
<1>5. CASE MkNumbered(w)
  <2> DEFINE x == [j EXCEPT !.fid = nextFid]
  <2>1. Goto(w, x, "mkNamed") \/ Finish(w)
    BY <1>5 DEF MkNumbered
  <2>2. "pc" \in DOMAIN x
    BY <1>1
  <2> HIDE DEF x
  <2> QED
    BY <1>1, <2>1, <2>2, PlaceAfter, IdleAfter
<1>6. CASE \/ Lock(w) \/ Check(w) \/ MkNamed(w) \/ SetAttr(w) \/ Unlink(w)
           \/ Move(w)
  <2>1. PICK pc \in PCs : Goto(w, j, pc) /\ pc \notin {"readDir", "unlink"}
    BY <1>6 DEF Lock, Check, MkNamed, SetAttr, Unlink, Move, AfterCheck, PCs
  <2> QED
    BY <1>1, <2>1, PlaceAfter
<1>7. CASE Finish(w)
  BY <1>1, <1>7, IdleAfter
<1>8. \/ Start(w) \/ FindSrc(w) \/ FindDst(w) \/ Extend(w) \/ MkNumbered(w)
      \/ Lock(w) \/ Check(w) \/ MkNamed(w) \/ SetAttr(w) \/ Unlink(w)
      \/ Move(w) \/ Finish(w)
  BY DEF Lookups, Naming, Creating, Deleting, Moving, NotFound, BadName,
     LockRefused, NameTaken, CheckPanics, MkNamedFails, SetAttrFails, CacheIns,
     NotEmpty, ExtendPanics, UnlinkFails, DropNamed, DropNamedPanics, MovePanics,
     MoveFails, DropOld
<1> QED
  BY <1>2, <1>3, <1>4, <1>5, <1>6, <1>7, <1>8

\* A step that at most removes named files.
LEMMA TreeFrame ==
  ASSUME TreeInv, NEW w \in Workers,
         UNCHANGED <<numbered, dirs, nextFid>>, named' \subseteq named,
         \A v \in Workers \ {w} : job'[v] = job[v],
         job'[w].pc \notin {"readDir", "unlink"}
  PROVE  TreeInv'
<1>1. TreeShape'
  BY DEF TreeInv, TreeShape, Present, Acyclic
<1> QED
  BY <1>1 DEF TreeInv

\* A path that is there leads to a file that is there.
LEMMA ExistingPath ==
  ASSUME IInv, NEW p \in Paths, IsDir(p)
  PROVE  Here(p) \in dirs /\ Present(Here(p)) /\ Here(p) \in Fid
<1>1. Len(p) \in Nat \ {0} /\ \A i \in 1 .. Len(p) : p[i] \in Fid
  BY PathFacts
<1>2. CASE Len(p) = 1
  BY <1>1, <1>2 DEF Paths, Here, IsDir, Present
<1>3. CASE Len(p) # 1
  <2>1. Len(p) - 1 \in 1 .. Len(p) - 1 /\ Len(p) - 1 \in 1 .. Len(p)
        /\ Len(p) - 1 + 1 = Len(p)
    <3> DEFINE n == Len(p)
    <3>1. n \in Nat \ {0} /\ n # 1
      BY <1>1, <1>3
    <3> HIDE DEF n
    <3>2. n - 1 \in 1 .. n - 1 /\ n - 1 \in 1 .. n /\ n - 1 + 1 = n
      BY <3>1
    <3> QED
      BY <3>2 DEF n
  <2>2. numbered[p[Len(p)]] = p[Len(p) - 1]
    BY <2>1 DEF IsDir, Exists
  <2>3. p[Len(p) - 1] \in Fid /\ p[Len(p) - 1] # None
    BY <1>1, <2>1 DEF Fid, None
  <2> QED
    BY <1>1, <2>2, <2>3 DEF Here, IsDir, Present
<1> QED
  BY <1>2, <1>3

\* FIDs are numbers, and so are those that jobs hold.
LEMMA Numbers ==
  ASSUME IInv
  PROVE  /\ Fid \subseteq Nat /\ None \notin Fid /\ nextFid \in Nat
         /\ \A v \in Workers : job[v].fid \in Nat
         /\ numbered \in [Fid -> Fid \union {None}]
  BY DEF IInv, TypeOK, Job, Fid, None

LEMMA MkNumberedTree ==
  ASSUME IInv, TreeInv, NEW w \in Workers, MkNumbered(w)
  PROVE  TreeInv'
<1> DEFINE j == job[w]  new == nextFid  d == Here(j.dst)
<1>1. /\ \A v \in Workers \ {w} : job'[v] = job[v]
      /\ job'[w].pc \notin {"readDir", "unlink"}
  BY NotUnlinking DEF Creating
<1>2. /\ new \in Nat /\ new \in Fid /\ nextFid' = new + 1 /\ named' = named
      /\ Fid \subseteq Nat /\ numbered \in [Fid -> Fid \union {None}]
      /\ None \notin Fid /\ Root < new /\ Root < new + 1
  BY Numbers DEF MkNumbered, IInv, TypeOK, TreeInv, Root, Fid
<1>3. numbered[new] = None /\ new \notin dirs
  BY <1>2 DEF TreeInv
<1>4. \/ UNCHANGED <<numbered, dirs>>
      \/ /\ d \in dirs /\ Present(d) /\ d \in Fid
         /\ numbered' = [numbered EXCEPT ![new] = d]
         /\ dirs' \in {dirs, dirs \union {new}}
  <2>1. j.dst \in Paths
    BY DEF MkNumbered, IInv, JobsOK, WellFormed, Owning
  <2> QED
    BY <2>1, ExistingPath DEF MkNumbered
<1>5. dirs \subseteq dirs' /\ dirs' \subseteq dirs \union {new}
      /\ \A f \in Fid \ {new} : numbered'[f] = numbered[f]
  BY <1>2, <1>4
<1>6. TreeShape'
  <2>1. CASE UNCHANGED <<numbered, dirs>>
    BY <1>2, <2>1 DEF TreeInv, TreeShape, Present, Acyclic
  <2>2. CASE ~UNCHANGED <<numbered, dirs>>
    <3>1. /\ d \in dirs /\ Present(d) /\ d \in Fid /\ d # new
          /\ numbered'[new] = d
      BY <1>2, <1>3, <1>4, <2>2
    <3>2. ASSUME NEW g, Present(g), g \in dirs PROVE Present(g)' /\ g \in dirs'
      BY <1>2, <1>3, <1>5, <3>2 DEF Present, IInv, TypeOK
    <3>3. ASSUME NEW f \in Fid, numbered'[f] # None
          PROVE  numbered'[f] \in dirs' /\ Present(numbered[f])'
      <4>1. CASE f = new
        BY <3>1, <3>2, <4>1 DEF Present
      <4>2. CASE f # new
        BY <1>5, <3>2, <3>3, <4>2 DEF TreeInv, TreeShape, Present
      <4> QED
        BY <4>1, <4>2
    <3>4. \A e \in named' : e[1] \in dirs' /\ Present(e[1])'
      BY <1>2, <3>2 DEF TreeInv, TreeShape
    <3>5. ASSUME NEW S \in SUBSET Fid, S # {}, \A f \in S : numbered'[f] \in S
          PROVE  FALSE
      <4> DEFINE R == S \ {new}
      <4>1. R # {}
        BY <3>1, <3>5
      <4>2. ASSUME NEW f \in R PROVE numbered[f] \in R
        <5>1. numbered[f] \in S /\ numbered[f] # None
          BY <1>2, <1>5, <3>5, <4>2
        <5>2. numbered[f] \in dirs
          BY <5>1 DEF TreeInv, TreeShape
        <5> QED
          BY <1>3, <5>1, <5>2
      <4> QED
        BY <4>1, <4>2 DEF TreeInv, TreeShape, Acyclic
    <3> QED
      BY <3>3, <3>4, <3>5 DEF TreeShape, Acyclic
  <2> QED
    BY <2>1, <2>2
<1>7. numbered'[Root] = None /\ Root \in dirs' /\ Root < nextFid'
  BY <1>2, <1>5, NamespaceAssumption DEF TreeInv, NamespaceAssumption, Fid, Root
<1>8. ASSUME NEW f \in Fid, f >= nextFid'
      PROVE  numbered'[f] = None /\ f \notin dirs'
  <2>1. f # new /\ f >= new
    BY <1>2, <1>8
  <2> QED
    BY <1>5, <2>1 DEF TreeInv
<1>9. ASSUME NEW v \in Workers, job'[v].pc \in {"readDir", "unlink"}
      PROVE  /\ job'[v].req.op \in Deletes /\ job'[v].fid < nextFid'
             /\ job'[v].req.op = "remove" => job'[v].fid \notin dirs'
  <2>1. job'[v] = job[v] /\ job[v].pc \in {"readDir", "unlink"}
    BY <1>1, <1>9
  <2>2. job[v].fid \in Nat /\ job[v].fid < new
    BY <2>1, Numbers DEF TreeInv
  <2>3. job[v].fid < new + 1 /\ job[v].fid # new
    BY <1>2, <2>2
  <2> QED
    BY <1>2, <1>5, <2>1, <2>3 DEF TreeInv
<1> QED
  BY <1>6, <1>7, <1>8, <1>9 DEF TreeInv

LEMMA MkNamedTree ==
  ASSUME IInv, TreeInv, NEW w \in Workers, MkNamed(w)
  PROVE  TreeInv'
<1>1. /\ \A v \in Workers \ {w} : job'[v] = job[v]
      /\ job'[w].pc \notin {"readDir", "unlink"}
  BY NotUnlinking DEF Creating
<1>2. job[w].dst \in Paths
  BY DEF MkNamed, IInv, JobsOK, WellFormed, Owning
<1>3. \A e \in named' : e[1] \in dirs /\ Present(e[1])
  BY <1>2, ExistingPath DEF MkNamed, TreeInv, TreeShape
<1>4. UNCHANGED <<numbered, dirs, nextFid>>
  BY DEF MkNamed
<1>5. TreeShape'
  BY <1>3, <1>4 DEF TreeInv, TreeShape, Present, Acyclic
<1> QED
  BY <1>1, <1>4, <1>5 DEF TreeInv

\* What the scan finds is a file, and of the kind that is wanted.
LEMMA ByNameTree ==
  ASSUME IInv, TreeInv, NEW w \in Workers, ByName(w)
  PROVE  TreeInv'
<1> DEFINE j == job[w]
<1>1. PICK f \in WithName(j.src, j.req.name) :
         /\ RightKind(j.req.op, f)
         /\ Goto(w, [j EXCEPT !.fid = f], AfterName(j.req))
  BY DEF ByName
<1>2. job \in [Workers -> Job] /\ j \in Job /\ j.pc = "byName"
  BY DEF IInv, TypeOK, ByName
<1> DEFINE x == [j EXCEPT !.fid = f]
<1>3. "pc" \in DOMAIN x /\ x.fid = f /\ x.req = j.req
  BY <1>2 DEF Job
<1>4. /\ \A v \in Workers \ {w} : job'[v] = job[v]
      /\ job'[w].pc = AfterName(j.req)
      /\ job'[w].pc \in {"readDir", "unlink"} => job'[w].fid = f /\ job'[w].req = j.req
  <2>1. job' = [job EXCEPT ![w] = IF AfterName(j.req) = "idle" THEN Idle
                                   ELSE [x EXCEPT !.pc = AfterName(j.req)]]
    BY <1>1 DEF Goto
  <2> HIDE DEF x
  <2>2. \A v \in Workers \ {w} : job'[v] = job[v]
    BY <1>2, <2>1
  <2>3. job'[w] = IF AfterName(j.req) = "idle" THEN Idle
                  ELSE [x EXCEPT !.pc = AfterName(j.req)]
    BY <1>2, <2>1
  <2> QED
    BY <1>3, <2>2, <2>3 DEF Idle
<1>5. UNCHANGED <<numbered, named, dirs, nextFid>>
  BY DEF ByName, disk
<1>6. TreeShape'
  BY <1>5 DEF TreeInv, TreeShape, Present, Acyclic
<1>7. CASE job'[w].pc \in {"readDir", "unlink"}
  <2>1. j.req.op \in Deletes
    BY <1>4, <1>7 DEF AfterName, Deletes
  <2>2. f \in Fid /\ numbered[f] # None
    <3>1. j.src \in Paths
      BY DEF ByName, IInv, JobsOK, WellFormed
    <3> QED
      BY <3>1, PathFacts DEF WithName, Fid, None
  <2>3. f < nextFid
    BY <2>2, Numbers DEF TreeInv
  <2>4. j.req.op = "remove" => f \notin dirs
    BY <1>1 DEF RightKind
  <2> QED
    BY <1>4, <1>5, <1>6, <1>7, <2>1, <2>3, <2>4 DEF TreeInv
<1>8. CASE job'[w].pc \notin {"readDir", "unlink"}
  BY <1>4, <1>5, <1>6, <1>8 DEF TreeInv
<1> QED
  BY <1>7, <1>8

\* rmdir has found the directory, and looked into it.
LEMMA CheckEmptyTree ==
  ASSUME IInv, TreeInv, NEW w \in Workers, CheckEmpty(w)
  PROVE  TreeInv'
<1> DEFINE j == job[w]
<1>1. job \in [Workers -> Job] /\ WellFormed(j) /\ j.pc = "readDir"
      /\ Goto(w, j, "unlink") /\ "unlink" \in PCs \ {"idle"}
  BY DEF IInv, TypeOK, JobsOK, CheckEmpty, PCs
<1>2. /\ job'[w].pc = "unlink" /\ job'[w].req = j.req /\ job'[w].fid = j.fid
      /\ \A v \in Workers \ {w} : job'[v] = job[v]
  BY <1>1, NextStep
<1>3. UNCHANGED <<numbered, named, dirs, nextFid>>
  BY DEF CheckEmpty, disk
<1>4. TreeShape'
  BY <1>3 DEF TreeInv, TreeShape, Present, Acyclic
<1> QED
  BY <1>1, <1>2, <1>3, <1>4 DEF TreeInv

(* A file is unlinked only when nothing is in it.                          *)
LEMMA UnlinkTree ==
  ASSUME IInv, TreeInv, NEW w \in Workers, Unlink(w)
  PROVE  TreeInv'
<1> DEFINE j == job[w]  f == j.fid
<1>1. /\ \A v \in Workers \ {w} : job'[v] = job[v]
      /\ job'[w].pc \notin {"readDir", "unlink"}
  BY NotUnlinking DEF Deleting, Unlink, CheckEmpty
<1>2. /\ numbered' = [numbered EXCEPT ![f] = None]
      /\ UNCHANGED <<named, dirs, nextFid>>
      /\ j.pc = "unlink" /\ j.req.op = "rmdir" => IsEmpty(f)
  BY DEF Unlink
<1>3. j.req.op \in Deletes /\ (j.req.op = "remove" => f \notin dirs)
  BY DEF Unlink, TreeInv
<1>4. /\ \A g \in Fid : numbered[g] = f => f = None
      /\ \A e \in named : e[1] # f
  BY <1>2, <1>3 DEF Unlink, Deletes, IsEmpty, TreeInv, TreeShape
<1>5. numbered \in [Fid -> Fid \union {None}] /\ None \notin Fid
  BY Numbers
<1>6. \A g \in Fid : numbered'[g] = IF g = f THEN None ELSE numbered[g]
  BY <1>2, <1>5
<1>7. ASSUME NEW g \in Fid, numbered'[g] # None
      PROVE  numbered'[g] \in dirs' /\ Present(numbered[g])'
  <2>1. numbered'[g] = numbered[g] /\ numbered[g] # f /\ numbered[g] \in Fid
    BY <1>4, <1>5, <1>6, <1>7
  <2>2. numbered[g] \in dirs /\ Present(numbered[g])
    BY <1>7, <2>1 DEF TreeInv, TreeShape
  <2>3. numbered'[numbered[g]] = numbered[numbered[g]]
    BY <1>6, <2>1
  <2> QED
    BY <1>2, <2>1, <2>2, <2>3 DEF Present
<1>8. ASSUME NEW e \in named' PROVE e[1] \in dirs' /\ Present(e[1])'
  <2>1. e[1] \in dirs /\ Present(e[1]) /\ e[1] \in Fid /\ e[1] # f
    BY <1>2, <1>4, <1>8 DEF TreeInv, TreeShape, IInv, TypeOK
  <2>2. numbered'[e[1]] = numbered[e[1]]
    BY <1>6, <2>1
  <2> QED
    BY <1>2, <2>1, <2>2 DEF Present
<1>9. ASSUME NEW S \in SUBSET Fid, S # {}, \A g \in S : numbered'[g] \in S
      PROVE  FALSE
  <2>1. \A g \in S : numbered[g] \in S
    BY <1>5, <1>6, <1>9
  <2> QED
    BY <1>9, <2>1 DEF TreeInv, TreeShape, Acyclic
<1>10. TreeShape'
  BY <1>7, <1>8, <1>9 DEF TreeShape, Acyclic
<1>11. /\ numbered'[Root] = None
       /\ \A g \in Fid : g >= nextFid' => numbered'[g] = None /\ g \notin dirs'
  BY <1>2, <1>5, <1>6 DEF TreeInv, IInv, TypeOK
<1> QED
  BY <1>1, <1>2, <1>10, <1>11 DEF TreeInv

(* A directory is not moved below itself, as the path it is moved to does  *)
(* not go through it.                                                      *)
LEMMA MovedTree ==
  ASSUME IInv, TreeInv, NEW w \in Workers, Move(w) \/ MovePanics(w)
  PROVE  TreeInv'
<1> DEFINE j == job[w]  f == j.fid  p == j.dst  d == Here(p)
<1>1. /\ \A v \in Workers \ {w} : job'[v] = job[v]
      /\ job'[w].pc \notin {"readDir", "unlink"}
  BY NotUnlinking DEF Moving
<1>2. /\ numbered' = [numbered EXCEPT ![f] = d]
      /\ UNCHANGED <<named, dirs, nextFid>>
      /\ Movable(j)
  BY DEF Move, MovePanics
<1>3. p \in Paths
  BY DEF Move, MovePanics, IInv, JobsOK, WellFormed, Owning
<1>4. Len(p) \in Nat \ {0} /\ \A i \in 1 .. Len(p) : p[i] \in Fid /\ p[i] # f
  BY <1>2, <1>3, PathFacts DEF Movable
<1>5. d \in dirs /\ Present(d) /\ d \in Fid /\ d # f
  BY <1>2, <1>3, <1>4, ExistingPath DEF Movable, Here
<1>6. numbered \in [Fid -> Fid \union {None}] /\ None \notin Fid
  BY Numbers
<1>7. f \in Fid /\ numbered[f] # None /\ f # Root
  <2>1. f \in Fid /\ j.src \in Paths
    BY DEF Move, MovePanics, Movable, IsCreate, IInv, JobsOK, WellFormed, Creates
  <2>2. numbered[f] = Here(j.src)
    BY <1>2 DEF Movable, HasFile
  <2>3. numbered[f] \in Fid
    BY <2>1, <2>2, PathFacts
  <2> QED
    BY <1>6, <2>1, <2>3 DEF TreeInv
<1>8. \A g \in Fid : numbered'[g] = IF g = f THEN d ELSE numbered[g]
  BY <1>2, <1>6
<1>9. ASSUME NEW g \in Fid, Present(g) PROVE Present(g)'
  BY <1>5, <1>6, <1>8, <1>9 DEF Present
<1>10. ASSUME NEW g \in Fid, numbered'[g] # None
       PROVE  numbered'[g] \in dirs' /\ Present(numbered[g])'
  <2>1. numbered'[g] \in Fid /\ numbered'[g] \in dirs /\ Present(numbered'[g])
    BY <1>5, <1>6, <1>8, <1>10 DEF TreeInv, TreeShape
  <2> QED
    BY <1>2, <1>5, <1>6, <1>8, <2>1 DEF Present
<1>11. \A e \in named' : e[1] \in dirs' /\ Present(e[1])'
  BY <1>2, <1>9 DEF TreeInv, TreeShape, IInv, TypeOK
<1>12. ASSUME NEW S \in SUBSET Fid, S # {}, \A g \in S : numbered'[g] \in S
       PROVE  FALSE
  <2>1. CASE f \notin S
    <3>1. \A g \in S : numbered[g] \in S
      BY <1>8, <1>12, <2>1
    <3> QED
      BY <1>12, <3>1 DEF TreeInv, TreeShape, Acyclic
  <2>2. CASE f \in S
    <3> DEFINE R == {p[i] : i \in {i \in 1 .. Len(p) : p[i] \in S}}
    <3>1. d \in R
      <4>1. d \in S
        BY <1>8, <1>12, <2>2
      <4>2. Len(p) \in 1 .. Len(p)
        BY <1>4
      <4> QED
        BY <4>1, <4>2 DEF Here
    <3>2. ASSUME NEW g \in R PROVE numbered[g] \in R
      <4>1. PICK i \in 1 .. Len(p) : g = p[i] /\ p[i] \in S
        BY <3>2
      <4>2. g \in Fid /\ g # f /\ numbered[g] \in S /\ numbered[g] # None
        BY <1>4, <1>6, <1>8, <1>12, <4>1
      <4>3. i # 1
        BY <1>3, <4>1, <4>2 DEF Paths, TreeInv
      <4>4. i - 1 \in 1 .. Len(p) - 1 /\ i - 1 \in 1 .. Len(p) /\ (i - 1) + 1 = i
        BY <1>4, <4>1, <4>3
      <4>5. numbered[p[i]] = p[i - 1]
        BY <1>2, <4>4 DEF Movable, IsDir, Exists
      <4> QED
        BY <4>1, <4>2, <4>4, <4>5
    <3>3. R \in SUBSET Fid
      BY <1>4
    <3> HIDE DEF R
    <3> QED
      BY <3>1, <3>2, <3>3 DEF TreeInv, TreeShape, Acyclic
  <2> QED
    BY <2>1, <2>2
<1>13. TreeShape'
  BY <1>10, <1>11, <1>12 DEF TreeShape, Acyclic
<1>14. numbered'[Root] = None
  BY <1>7, <1>8 DEF TreeInv, IInv, TypeOK
<1>15. ASSUME NEW g \in Fid, g >= nextFid'
       PROVE  numbered'[g] = None /\ g \notin dirs'
  BY <1>2, <1>7, <1>8, <1>15 DEF TreeInv
<1> QED
  BY <1>1, <1>2, <1>13, <1>14, <1>15 DEF TreeInv

LEMMA RestartTree ==
  ASSUME TreeInv, Restart
  PROVE  TreeInv'
<1>1. UNCHANGED <<numbered, named, dirs, nextFid>>
  BY DEF Restart, disk
<1>2. \A w \in Workers : job'[w].pc \notin {"readDir", "unlink"}
  BY DEF Restart, Idle
<1>3. TreeShape'
  BY <1>1 DEF TreeInv, TreeShape, Present, Acyclic
<1> QED
  BY <1>1, <1>2, <1>3 DEF TreeInv

LEMMA StepKeepsTree == IInv /\ TreeInv /\ [Next]_vars => TreeInv'
<1> SUFFICES ASSUME IInv, TreeInv, [Next]_vars PROVE TreeInv'
  OBVIOUS
<1>1. ASSUME NEW w \in Workers,
             \/ MkNumbered(w) \/ MkNamed(w) \/ ByName(w) \/ Unlink(w)
             \/ Move(w) \/ MovePanics(w) \/ CheckEmpty(w) \/ Overflow(w)
      PROVE  TreeInv'
  BY <1>1, MkNumberedTree, MkNamedTree, ByNameTree, CheckEmptyTree, UnlinkTree,
     MovedTree, RestartTree DEF Overflow
<1>2. ASSUME NEW w \in Workers,
             \/ Start(w) \/ Lookups(w)
             \/ Naming(w) /\ ~ByName(w)
             \/ Creating(w) /\ ~(MkNumbered(w) \/ MkNamed(w))
             \/ Deleting(w) /\ ~(CheckEmpty(w) \/ Unlink(w))
             \/ Moving(w) /\ ~(Move(w) \/ MovePanics(w))
      PROVE  TreeInv'
  <2>1. UNCHANGED <<numbered, dirs, nextFid>> /\ named' \subseteq named
    BY <1>2 DEF disk, Start, Lookups, FindSrc, FindDst, NotFound, Extend, Naming,
       BadName, Lock, LockRefused, Check, NameTaken, CheckPanics, Creating,
       MkNamedFails, SetAttr, SetAttrFails, CacheIns, Deleting, UnlinkFails,
       NotEmpty, ExtendPanics, DropNamed, DropNamedPanics, Moving, MoveFails, DropOld
  <2>2. /\ \A v \in Workers \ {w} : job'[v] = job[v]
        /\ job'[w].pc \notin {"readDir", "unlink"}
    BY <1>2, NotUnlinking
  <2> QED
    BY <2>1, <2>2, TreeFrame
<1>3. CASE Crash
  BY <1>3, RestartTree DEF Crash
<1>4. CASE UNCHANGED vars
  BY <1>4 DEF vars, disk, memory, TreeInv, TreeShape, Present, Acyclic
<1> QED
  BY <1>1, <1>2, <1>3, <1>4 DEF Next

LEMMA TreeInductive == Spec => []TreeInv
  BY InitTree, StepKeepsTree, Inductive, PTL DEF Spec

(* FIDs that the counter has not returned are in use nowhere, the root is  *)
(* in no directory, and a remove never unlinks a directory (mod.rs:925-    *)
(* 970), though it looks at the kind of the file several steps before.     *)
THEOREM TreeInvariant == Spec => []TreeInv
  BY TreeInductive

-----------------------------------------------------------------------------
(* Requests change what they name.                                         *)

IsRename(j) == j.req.op = "rename"

\* Which requests get to which steps.
Kinds(j) ==
    /\ j.pc \in {"mkNumbered", "setAttr", "cacheIns"} => IsCreate(j)
    /\ j.pc \in {"move", "dropOld"} => IsRename(j)
    /\ j.pc \in {"readDir", "unlink", "dropNamed"} => j.req.op \in Deletes
    /\ j.pc \in {"findDst", "extDst", "lock", "check", "mkNamed"} =>
          IsCreate(j) \/ IsRename(j)

\* The paths in a job end in the directories of the request.
Aimed(j) ==
    /\ Kinds(j)
    /\ j.src # <<>> => Here(j.src) = j.req.dir
    /\ j.dst # <<>> => Here(j.dst) = j.req.todir

AllAimed == \A w \in Workers : Aimed(job[w])

LEMMA IdleAimed == Aimed(Idle)
  BY DEF Aimed, Kinds, Idle

\* Going on with the same request.
LEMMA AimedGoto ==
  ASSUME job \in [Workers -> Job], AllAimed, NEW w \in Workers,
         NEW x \in Job, NEW pc \in PCs, Goto(w, x, pc),
         Aimed([x EXCEPT !.pc = pc])
  PROVE  AllAimed'
<1>1. /\ \A v \in Workers \ {w} : job'[v] = job[v]
      /\ job'[w] \in {Idle, [x EXCEPT !.pc = pc]}
  BY GotoJob
<1>2. \A v \in Workers : Aimed(job'[v])
  BY <1>1, IdleAimed DEF AllAimed
<1>3. \A v \in Workers : Aimed(job[v])'
  BY <1>2 DEF Aimed, Kinds, IsCreate, IsRename, Here
<1> QED
  BY <1>3 DEF AllAimed

\* The fields of a job that goes on.
LEMMA NextFields ==
  ASSUME NEW x \in Job, NEW pc
  PROVE  /\ [x EXCEPT !.pc = pc].pc = pc /\ [x EXCEPT !.pc = pc].req = x.req
         /\ [x EXCEPT !.pc = pc].src = x.src /\ [x EXCEPT !.pc = pc].dst = x.dst
  BY DEF Job

LEMMA FindAimed ==
  ASSUME IInv, AllAimed, NEW w \in Workers, FindSrc(w) \/ FindDst(w)
  PROVE  AllAimed'
<1> DEFINE j == job[w]
<1>1. /\ j \in Job /\ WellFormed(j) /\ Aimed(j) /\ job \in [Workers -> Job]
  BY DEF IInv, TypeOK, JobsOK, AllAimed
<1>2. j.req \in Requests /\ j.req.op \in Ops
  BY <1>1, RequestFacts DEF FindSrc, FindDst, WellFormed
<1>3. CASE FindSrc(w)
  <2>0. PICK p \in Paths : \E k \in 1 .. Len(p) :
           /\ Found(j.req.dir, p, k)
           /\ Goto(w, [j EXCEPT !.src = p, !.pairs = ToCache(p, k)],
                   IF k = 1 THEN AfterSrc(j.req) ELSE "extSrc")
    BY <1>3 DEF FindSrc
  <2>1. PICK k \in 1 .. Len(p) :
           /\ Found(j.req.dir, p, k)
           /\ Goto(w, [j EXCEPT !.src = p, !.pairs = ToCache(p, k)],
                   IF k = 1 THEN AfterSrc(j.req) ELSE "extSrc")
    BY <2>0
  <2> DEFINE x  == [j EXCEPT !.src = p, !.pairs = ToCache(p, k)]
             pc == IF k = 1 THEN AfterSrc(j.req) ELSE "extSrc"
  <2>2. /\ x \in Job /\ x.req = j.req /\ x.src = p /\ x.dst = j.dst
    BY <1>1, ToCacheType DEF Job
  <2>3. ~IsCreate(j)
    BY <1>1, <1>3 DEF FindSrc, WellFormed
  <2>4. pc \in {"findDst", "byName", "idle", "extSrc"} /\ pc \in PCs
        /\ (pc = "findDst" => IsRename(j))
    BY DEF AfterSrc, PCs, IsRename
  <2>5. Goto(w, x, pc) /\ Here(p) = j.req.dir
    BY <2>1 DEF Found
  <2> HIDE DEF x, pc, j
  <2>6. Aimed([x EXCEPT !.pc = pc])
    BY <1>1, <2>2, <2>4, <2>5, NextFields DEF Aimed, Kinds, IsCreate, IsRename
  <2> QED
    BY <1>1, <2>2, <2>4, <2>5, <2>6, AimedGoto
<1>4. CASE FindDst(w)
  <2>0. PICK p \in Paths : \E k \in 1 .. Len(p) :
           /\ Found(j.req.todir, p, k)
           /\ Goto(w, [j EXCEPT !.dst = p, !.pairs = ToCache(p, k)],
                   IF k = 1 THEN AfterDst(j.req) ELSE "extDst")
    BY <1>4 DEF FindDst
  <2>1. PICK k \in 1 .. Len(p) :
           /\ Found(j.req.todir, p, k)
           /\ Goto(w, [j EXCEPT !.dst = p, !.pairs = ToCache(p, k)],
                   IF k = 1 THEN AfterDst(j.req) ELSE "extDst")
    BY <2>0
  <2> DEFINE x  == [j EXCEPT !.dst = p, !.pairs = ToCache(p, k)]
             pc == IF k = 1 THEN AfterDst(j.req) ELSE "extDst"
  <2>2. /\ x \in Job /\ x.req = j.req /\ x.src = j.src /\ x.dst = p
    BY <1>1, ToCacheType DEF Job
  <2>3. IsCreate(j) \/ IsRename(j)
    BY <1>1, <1>4 DEF FindDst, Aimed, Kinds
  <2>4. pc \in {"lock", "byName", "extDst"} /\ pc \in PCs
    BY DEF AfterDst, PCs
  <2>5. Goto(w, x, pc) /\ Here(p) = j.req.todir
    BY <2>1 DEF Found
  <2> HIDE DEF x, pc, j
  <2>6. Aimed([x EXCEPT !.pc = pc])
    BY <1>1, <2>2, <2>3, <2>4, <2>5, NextFields DEF Aimed, Kinds, IsCreate, IsRename
  <2> QED
    BY <1>1, <2>2, <2>4, <2>5, <2>6, AimedGoto
<1> QED
  BY <1>3, <1>4

\* The steps that keep both paths.
LEMMA OnwardAimed ==
  ASSUME IInv, AllAimed, NEW w \in Workers,
         \/ Extend(w) \/ ByName(w) \/ Lock(w) \/ Check(w) \/ MkNumbered(w)
         \/ MkNamed(w) \/ SetAttr(w) \/ CheckEmpty(w) \/ Unlink(w) \/ Move(w)
  PROVE  AllAimed'
<1> DEFINE j == job[w]
<1>1. /\ j \in Job /\ WellFormed(j) /\ Aimed(j) /\ job \in [Workers -> Job]
  BY DEF IInv, TypeOK, JobsOK, AllAimed
<1>2. j.req \in Requests /\ j.req.op \in Ops
  <2>1. j.pc # "idle"
    BY DEF Extend, ByName, Lock, Check, MkNumbered, MkNamed, SetAttr, CheckEmpty,
       Unlink, Move
  <2> QED
    BY <1>1, <2>1, RequestFacts DEF WellFormed
<1>3. SUFFICES ASSUME ~Finish(w) PROVE AllAimed'
  <2>1. CASE Finish(w)
    <3>1. \A v \in Workers : Aimed(job'[v])
      BY <1>1, <2>1, FinishJob, IdleAimed DEF AllAimed
    <3> QED
      BY <3>1 DEF AllAimed, Aimed, Kinds, IsCreate, IsRename, Here
  <2> QED
    BY <2>1
<1>4. PICK x \in Job, pc \in PCs :
         /\ Goto(w, x, pc) /\ x.req = j.req /\ x.src = j.src /\ x.dst = j.dst
         /\ pc \in {"mkNumbered", "setAttr", "cacheIns"} => IsCreate(j)
         /\ pc \in {"move", "dropOld"} => IsRename(j)
         /\ pc \in {"readDir", "unlink", "dropNamed"} => j.req.op \in Deletes
         /\ pc \in {"findDst", "extDst", "lock", "check", "mkNamed"} =>
               IsCreate(j) \/ IsRename(j)
  <2>1. CASE Extend(w)
    <3> DEFINE x  == [j EXCEPT !.pairs = {}]
               pc == IF j.pc = "extSrc" THEN AfterSrc(j.req) ELSE AfterDst(j.req)
    <3>1. /\ x \in Job /\ x.req = j.req /\ x.src = j.src /\ x.dst = j.dst
          /\ Goto(w, x, pc) /\ j.pc \in {"extSrc", "extDst"}
      BY <1>1, <2>1 DEF Job, Extend
    <3>2. /\ pc \in {"findDst", "byName", "idle", "lock"} /\ pc \in PCs
          /\ pc = "findDst" => IsRename(j)
          /\ pc = "lock" => IsCreate(j)
      BY DEF AfterSrc, AfterDst, PCs, IsRename, IsCreate
    <3> HIDE DEF x, pc
    <3> QED
      BY <3>1, <3>2
  <2>2. CASE ByName(w)
    <3>1. PICK f \in Fid : Goto(w, [j EXCEPT !.fid = f], AfterName(j.req))
      BY <2>2 DEF ByName, WithName
    <3> DEFINE x == [j EXCEPT !.fid = f]  pc == AfterName(j.req)
    <3>2. x \in Job /\ x.req = j.req /\ x.src = j.src /\ x.dst = j.dst
      BY <1>1 DEF Job
    <3>3. /\ pc \in {"lock", "readDir", "unlink", "idle"} /\ pc \in PCs
          /\ pc = "lock" => IsRename(j)
          /\ pc \in {"readDir", "unlink"} => j.req.op \in Deletes
      BY DEF AfterName, PCs, IsRename, Deletes
    <3> HIDE DEF x, pc
    <3> QED
      BY <3>1, <3>2, <3>3 DEF x, pc
  <2>3. CASE MkNumbered(w)
    <3> DEFINE x == [j EXCEPT !.fid = nextFid]
    <3>1. Goto(w, x, "mkNamed") /\ nextFid \in Fid /\ IsCreate(j)
      BY <1>1, <1>3, <2>3 DEF MkNumbered, IInv, TypeOK, Aimed, Kinds, Fid
    <3>2. x \in Job /\ x.req = j.req /\ x.src = j.src /\ x.dst = j.dst
      BY <1>1, <3>1 DEF Job
    <3> HIDE DEF x
    <3> QED
      BY <3>1, <3>2 DEF PCs
  <2>4. CASE \/ Lock(w) \/ Check(w) \/ MkNamed(w) \/ SetAttr(w) \/ CheckEmpty(w)
             \/ Unlink(w) \/ Move(w)
    <3>1. PICK pc \in PCs :
             /\ Goto(w, j, pc)
             /\ \/ j.pc = "lock" /\ pc = "check"
                \/ j.pc = "check" /\ pc = AfterCheck(j)
                \/ j.pc = "mkNamed" /\ pc = IF IsCreate(j) THEN "setAttr" ELSE "move"
                \/ j.pc = "setAttr" /\ pc = "cacheIns"
                \/ j.pc = "readDir" /\ pc = "unlink"
                \/ j.pc = "unlink" /\ pc = "dropNamed"
                \/ j.pc = "move" /\ pc = "dropOld"
      BY <2>4 DEF Lock, Check, MkNamed, SetAttr, CheckEmpty, Unlink, Move, PCs,
         AfterCheck
    <3> QED
      BY <1>1, <3>1 DEF Aimed, Kinds, AfterCheck
  <2> QED
    BY <2>1, <2>2, <2>3, <2>4
<1> HIDE DEF j
<1>5. Aimed([x EXCEPT !.pc = pc])
  BY <1>1, <1>4, NextFields DEF Aimed, Kinds, IsCreate, IsRename
<1> QED
  BY <1>1, <1>4, <1>5, AimedGoto

LEMMA StepKeepsAimed == IInv /\ AllAimed /\ [Next]_vars => AllAimed'
<1> SUFFICES ASSUME IInv, AllAimed, [Next]_vars PROVE AllAimed'
  OBVIOUS
<1>1. job \in [Workers -> Job]
  BY DEF IInv, TypeOK
<1>2. ASSUME NEW w \in Workers, Start(w) PROVE AllAimed'
  <2>1. PICK r \in Requests :
           job' = [job EXCEPT ![w] = [Idle EXCEPT
                     !.pc = IF IsCreate([req |-> r]) THEN "findDst" ELSE "findSrc",
                     !.req = r]]
    BY <1>2 DEF Start, IsCreate
  <2>2. \A v \in Workers : Aimed(job'[v])
    BY <1>1, <2>1 DEF AllAimed, Aimed, Kinds, Idle, IsCreate, IsRename
  <2> QED
    BY <2>2 DEF AllAimed, Aimed, Kinds, IsCreate, IsRename, Here
<1>3. ASSUME NEW w \in Workers, Finish(w) PROVE AllAimed'
  <2>1. \A v \in Workers : Aimed(job'[v])
    BY <1>1, <1>3, FinishJob, IdleAimed DEF AllAimed
  <2> QED
    BY <2>1 DEF AllAimed, Aimed, Kinds, IsCreate, IsRename, Here
<1>4. CASE Restart
  <2>1. \A v \in Workers : Aimed(job'[v])
    BY <1>4, IdleAimed DEF Restart
  <2> QED
    BY <2>1 DEF AllAimed, Aimed, Kinds, IsCreate, IsRename, Here
<1>5. CASE UNCHANGED vars
  BY <1>5 DEF vars, AllAimed, Aimed, Kinds, IsCreate, IsRename, Here
<1>6. ASSUME NEW w \in Workers,
             \/ Lookups(w) \/ Naming(w) \/ Creating(w) \/ Deleting(w) \/ Moving(w)
      PROVE  AllAimed'
  <2>1. \/ FindSrc(w) \/ FindDst(w) \/ Extend(w) \/ ByName(w) \/ Lock(w)
        \/ Check(w) \/ MkNumbered(w) \/ MkNamed(w) \/ SetAttr(w)
        \/ CheckEmpty(w) \/ Unlink(w) \/ Move(w) \/ Finish(w)
    BY <1>6 DEF Lookups, Naming, Creating, Deleting, Moving, NotFound, BadName,
       LockRefused, NameTaken, CheckPanics, MkNamedFails, SetAttrFails, CacheIns,
       NotEmpty, ExtendPanics, UnlinkFails, DropNamed, DropNamedPanics,
       MovePanics, MoveFails, DropOld
  <2> QED
    BY <1>3, <2>1, FindAimed, OnwardAimed
<1> QED
  BY <1>2, <1>4, <1>5, <1>6 DEF Next, Crash, Overflow

LEMMA StepIsAsked ==
  ASSUME IInv, TreeInv, AllAimed, [Next]_vars
  PROVE  Changes
<1>1. /\ numbered \in [Fid -> Fid \union {None}] /\ None \notin Fid
      /\ nextFid \in Nat
  BY Numbers DEF IInv, TypeOK
<1>2. ASSUME NEW w \in Workers
      PROVE  /\ WellFormed(job[w]) /\ Aimed(job[w])
             /\ \A p \in Paths : p # <<>>
  BY PathFacts DEF IInv, JobsOK, AllAimed
<1>3. ASSUME NEW w \in Workers, MkNumbered(w) PROVE Changes
  <2> DEFINE j == job[w]
  <2>1. /\ j.pc = "mkNumbered" /\ j.req \in Requests /\ j.dst \in Paths
        /\ j.req.op \in Creates /\ Here(j.dst) = j.req.todir
    BY <1>2, <1>3 DEF MkNumbered, WellFormed, Aimed, Kinds, Owning, IsCreate
  <2>2. /\ named' = named /\ nextFid \in Fid /\ numbered[nextFid] = None
        /\ \/ numbered' = [numbered EXCEPT ![nextFid] = Here(j.dst)]
           \/ numbered' = numbered
    BY <1>1, <1>3 DEF MkNumbered, TreeInv, Fid, IInv, TypeOK
  <2>3. \A f \in Fid : numbered'[f] # numbered[f] =>
           numbered[f] = None /\ numbered'[f] = j.req.todir
    BY <1>1, <2>1, <2>2
  <2> QED
    BY <2>1, <2>2, <2>3 DEF Changes, Asked
<1>4. ASSUME NEW w \in Workers, MkNamed(w) PROVE Changes
  <2> DEFINE j == job[w]
  <2>1. /\ j.pc = "mkNamed" /\ j.req \in Requests /\ j.dst \in Paths
        /\ j.req.op \in Creates \union {"rename"} /\ Here(j.dst) = j.req.todir
    BY <1>2, <1>4 DEF MkNamed, WellFormed, Aimed, Kinds, Owning, IsCreate, IsRename
  <2>2. /\ numbered' = numbered
        /\ named' = named \union {<<j.req.todir, j.fid, j.req.toname>>}
    BY <1>4, <2>1 DEF MkNamed
  <2>3. \A e \in named' \ named : e[1] = j.req.todir /\ e[3] = j.req.toname
    BY <2>2
  <2> QED
    BY <2>1, <2>2, <2>3 DEF Changes, Asked
<1>5. ASSUME NEW w \in Workers, Unlink(w) PROVE Changes
  <2> DEFINE j == job[w]
  <2>1. /\ j.pc = "unlink" /\ j.req \in Requests /\ j.src \in Paths
        /\ j.req.op \in Deletes /\ Here(j.src) = j.req.dir
    BY <1>2, <1>5 DEF Unlink, WellFormed, Aimed, Kinds, IsCreate, Deletes, Creates
  <2>2. /\ named' = named /\ numbered' = [numbered EXCEPT ![j.fid] = None]
        /\ numbered[j.fid] = Here(j.src)
    BY <1>5 DEF Unlink, HasFile
  <2>3. \A f \in Fid : numbered'[f] # numbered[f] =>
           numbered[f] = j.req.dir /\ numbered'[f] = None
    BY <1>1, <2>1, <2>2
  <2> QED
    BY <2>1, <2>2, <2>3 DEF Changes, Asked
<1>6. ASSUME NEW w \in Workers, Move(w) \/ MovePanics(w) PROVE Changes
  <2> DEFINE j == job[w]
  <2>1. /\ j.pc = "move" /\ j.req \in Requests /\ j.src \in Paths /\ j.dst \in Paths
        /\ j.req.op = "rename"
        /\ Here(j.src) = j.req.dir /\ Here(j.dst) = j.req.todir
    BY <1>2, <1>6
       DEF Move, MovePanics, WellFormed, Aimed, Kinds, IsCreate, IsRename, Owning
  <2>2. /\ named' = named /\ numbered' = [numbered EXCEPT ![j.fid] = Here(j.dst)]
        /\ numbered[j.fid] = Here(j.src)
    BY <1>6 DEF Move, MovePanics, Movable, HasFile
  <2>3. \A f \in Fid : numbered'[f] # numbered[f] =>
           numbered[f] = j.req.dir /\ numbered'[f] = j.req.todir
    BY <1>1, <2>1, <2>2
  <2> QED
    BY <2>1, <2>2, <2>3 DEF Changes, Asked
<1>7. ASSUME NEW w \in Workers, DropNamed(w) \/ DropOld(w) PROVE Changes
  <2> DEFINE j == job[w]
  <2>1. /\ j.pc \in {"dropNamed", "dropOld"} /\ j.req \in Requests /\ j.src \in Paths
        /\ j.req.op \in Deletes \union {"rename"} /\ Here(j.src) = j.req.dir
    BY <1>2, <1>7
       DEF DropNamed, DropOld, WellFormed, Aimed, Kinds, IsCreate, IsRename,
           Deletes, Creates
  <2>2. /\ numbered' = numbered
        /\ named' \in {named, named \ {<<j.req.dir, j.fid, j.req.name>>}}
    BY <1>7, <2>1 DEF DropNamed, DropOld
  <2>3. /\ \A e \in named \ named' : e[1] = j.req.dir /\ e[3] = j.req.name
        /\ \A e \in named' : e \in named
    BY <2>2
  <2> QED
    BY <2>1, <2>2, <2>3 DEF Changes, Asked
<1>8. CASE numbered' = numbered /\ named' = named
  BY <1>8 DEF Changes
<1>9. ASSUME NEW w \in Workers,
             \/ Start(w) \/ Lookups(w) \/ Naming(w) \/ Creating(w) \/ Deleting(w)
             \/ Moving(w)
      PROVE  Changes
  <2>1. \/ MkNumbered(w) \/ MkNamed(w) \/ Unlink(w) \/ Move(w) \/ MovePanics(w)
        \/ DropNamed(w) \/ DropOld(w) \/ UNCHANGED <<numbered, named>>
    BY <1>9 DEF disk, Start, Lookups, FindSrc, FindDst, NotFound, Extend,
       ExtendPanics, Naming, ByName, BadName, Lock, LockRefused, Check, NameTaken,
       CheckPanics, Creating, MkNamedFails, SetAttr, SetAttrFails, CacheIns,
       Deleting, CheckEmpty, NotEmpty, UnlinkFails, DropNamedPanics, Moving, MoveFails
  <2> QED
    BY <1>3, <1>4, <1>5, <1>6, <1>7, <1>8, <2>1
<1> QED
  BY <1>8, <1>9 DEF Next, Crash, Overflow, Restart, vars, disk

(* For any workers, requests, renames of directories and crashes: nothing  *)
(* leaves, or comes into, another directory than those a request in        *)
(* progress names, and no other name goes or comes (mod.rs:492, 580-596,   *)
(* 1001-1092), since a path found before either leads to the directory     *)
(* that was asked for or to nothing.                                       *)
THEOREM ChangesAreAsked == Spec => OnlyAsked
<1>1. Init => AllAimed
  BY IdleAimed DEF Init, AllAimed
<1>2. IInv /\ TreeInv /\ AllAimed /\ [Next]_vars => Changes
  BY StepIsAsked
<1> QED
  BY <1>1, <1>2, StepKeepsAimed, Inductive, TreeInductive, PTL
     DEF Spec, OnlyAsked
=============================================================================
