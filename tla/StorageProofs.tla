---------------------------- MODULE StorageProofs -----------------------------
(***************************************************************************)
(* Storage proved for any workers, files, requests and failures: types,    *)
(* and that no file and no reader ever has half of a write, through power  *)
(* failures that keep any updates the volume may have written.  When       *)
(* nothing is renamed, also what survives, what stays away, and that a     *)
(* file is in one directory; and that an acknowledged write is seen.       *)
(***************************************************************************)
EXTENDS Storage, FiniteNumbers

Copies == {Absent} \union Inodes

\* The part of TypeOK that is about the volume's entries.
EntriesOK ==
    /\ disk \in [Entries -> Copies]
    /\ log \in Seq({log[i] : i \in DOMAIN log})
    /\ \A i \in DOMAIN log : /\ DOMAIN log[i] \subseteq Entries
                             /\ log[i] \in [DOMAIN log[i] -> Copies]

LEMMA Bounds ==
  /\ MaxFid \in Nat \ {0} /\ MaxInode \in Nat \ {0} /\ FirstFree \in Nat \ {0}
  /\ MaxRequests \in Nat /\ Fid \subseteq Nat /\ Inodes \subseteq Nat \ {0}
  /\ EmptyFile \in Inodes /\ EmptyFile # Absent /\ Absent \notin Inodes
  /\ Blocks = {1, 2}
  BY StorageAssumption DEF StorageAssumption, Fid, Inodes, EmptyFile, Absent, Blocks

LEMMA LogFacts ==
  ASSUME EntriesOK
  PROVE  /\ Len(log) \in Nat /\ DOMAIN log = 1 .. Len(log)
         /\ \A i \in DOMAIN log : \A e \in DOMAIN log[i] :
               e \in Entries /\ log[i][e] \in Stored
         /\ \A e \in Entries : disk[e] \in Stored
         /\ Stored \subseteq Copies
<1>1. Len(log) \in Nat /\ DOMAIN log = 1 .. Len(log)
  BY DEF EntriesOK
<1>2. ASSUME NEW i \in DOMAIN log, NEW e \in DOMAIN log[i]
      PROVE  e \in Entries /\ log[i][e] \in Stored /\ log[i][e] \in Copies
  BY DEF EntriesOK, Stored
<1>3. \A e \in Entries : disk[e] \in Stored /\ disk[e] \in Copies
  BY DEF EntriesOK, Stored
<1>4. ASSUME NEW x \in Stored PROVE x \in Copies
  BY <1>2, <1>3 DEF Stored
<1> QED
  BY <1>1, <1>2, <1>3, <1>4

\* Whatever updates are applied, an entry gets what one of them put there.
LEMMA AppliedFacts ==
  ASSUME EntriesOK, NEW S \in SUBSET DOMAIN log
  PROVE  /\ Applied(S) \in [Entries -> Copies]
         /\ \A e \in Entries : Applied(S)[e] \in Stored
<1>1. ASSUME NEW e \in Entries PROVE Applied(S)[e] \in Stored
  <2> DEFINE of == {i \in S : e \in DOMAIN log[i]}
  <2>1. Applied(S)[e] = IF of = {} THEN disk[e]
                        ELSE log[CHOOSE i \in of : \A j \in of : j <= i][e]
    BY DEF Applied
  <2>2. of \in SUBSET (1 .. Len(log)) /\ of \subseteq DOMAIN log
        /\ \A i \in of : e \in DOMAIN log[i]
    BY LogFacts
  <2> HIDE DEF of
  <2>3. CASE of = {}
    BY <2>1, <2>3, LogFacts
  <2>4. CASE of # {}
    <3>1. \E i \in of : \A j \in of : j <= i
      BY <2>2, <2>4, LogFacts, LargestExists
    <3>2. (CHOOSE i \in of : \A j \in of : j <= i) \in of
      BY <3>1
    <3> QED
      BY <2>1, <2>2, <2>4, <3>2, LogFacts
  <2> QED
    BY <2>3, <2>4
<1>2. Applied(S) = [e \in Entries |-> Applied(S)[e]]
  BY DEF Applied
<1> QED
  BY <1>1, <1>2, LogFacts

LEMMA ViewFacts ==
  ASSUME EntriesOK, NEW e \in Entries
  PROVE  View[e] \in Stored /\ View[e] \in Copies
  BY AppliedFacts, LogFacts DEF View

\* The updates that remain are some of those there were.
LEMMA WithoutFacts ==
  ASSUME EntriesOK, NEW S
  PROVE  /\ DOMAIN Without(S) = 1 .. Cardinality(DOMAIN log \ S)
         /\ Cardinality(DOMAIN log \ S) \in Nat
         /\ \A k \in DOMAIN Without(S) : \E i \in DOMAIN log : Without(S)[k] = log[i]
<1> DEFINE rest == DOMAIN log \ S  c == Cardinality(rest)
<1>1. rest \in SUBSET (1 .. Len(log)) /\ Len(log) \in Nat
  BY LogFacts
<1>2. DOMAIN Without(S) = 1 .. c
  BY DEF Without
<1>3. ASSUME NEW k \in 1 .. c PROVE \E i \in DOMAIN log : Without(S)[k] = log[i]
  <2>1. Without(S)[k] =
          log[CHOOSE i \in rest : Cardinality({j \in rest : j <= i}) = k]
    BY DEF Without
  <2>2. \E i \in rest : Cardinality({j \in rest : j <= i}) = k
    <3> HIDE DEF rest
    <3> QED
      BY <1>1, RankIsSurjective DEF Rank
  <2>3. (CHOOSE i \in rest : Cardinality({j \in rest : j <= i}) = k) \in rest
    BY <2>2
  <2> QED
    BY <2>1, <2>3
<1>4. c \in Nat
  <2> HIDE DEF rest
  <2> QED
    BY <1>1, FiniteRange
<1> QED
  BY <1>2, <1>3, <1>4

LEMMA FsyncKeeps ==
  ASSUME EntriesOK, NEW d \in Dirs, Fsync(d)
  PROVE  EntriesOK' /\ Stored' \subseteq Stored
<1> DEFINE S == Synced(d)
<1>1. disk' = Applied(S) /\ log' = Without(S) /\ S \in SUBSET DOMAIN log
  BY DEF Fsync, Synced
<1> HIDE DEF S
<1>2. disk' \in [Entries -> Copies] /\ \A e \in Entries : disk'[e] \in Stored
  BY <1>1, AppliedFacts
<1>3. /\ DOMAIN log' = 1 .. Cardinality(DOMAIN log \ S)
      /\ Cardinality(DOMAIN log \ S) \in Nat
      /\ \A k \in DOMAIN log' : \E i \in DOMAIN log : log'[k] = log[i]
  BY <1>1, WithoutFacts
<1>4. log' \in Seq({log'[i] : i \in DOMAIN log'})
  <2>1. log' = [k \in 1 .. Cardinality(DOMAIN log \ S) |-> log'[k]]
    BY <1>1, <1>3 DEF Without
  <2>2. log' \in [1 .. Cardinality(DOMAIN log \ S) -> {log'[i] : i \in DOMAIN log'}]
    BY <1>3, <2>1
  <2> DEFINE c == Cardinality(DOMAIN log \ S)
  <2>3. c \in Nat /\ log' \in [1 .. c -> {log'[i] : i \in DOMAIN log'}]
    BY <1>3, <2>2
  <2> HIDE DEF c
  <2> QED
    BY <2>3
<1>5. EntriesOK'
  BY <1>2, <1>3, <1>4 DEF EntriesOK
<1>6. \A k \in DOMAIN log' : \A e \in DOMAIN log'[k] : log'[k][e] \in Stored
  BY <1>3, LogFacts
<1>7. Stored' \subseteq Stored
  BY <1>2, <1>6 DEF Stored
<1> QED
  BY <1>5, <1>7

LEMMA UpdateKeeps ==
  ASSUME EntriesOK, NEW u, NEW X \in SUBSET Copies, Update(u),
         DOMAIN u \subseteq Entries, u \in [DOMAIN u -> X]
  PROVE  EntriesOK' /\ Stored' \subseteq Stored \union X
<1>1. log' = Append(log, u) /\ disk' = disk
  BY DEF Update
<1> DEFINE n == Len(log)
<1>2. n \in Nat /\ DOMAIN log = 1 .. n
  BY LogFacts
<1> DEFINE V == {log[i] : i \in DOMAIN log} \union {u}
<1>3. /\ DOMAIN log' = 1 .. n + 1
      /\ \A i \in 1 .. n : log'[i] = log[i]
      /\ log'[n + 1] = u
      /\ log' \in Seq(V) /\ Len(log') = n + 1
  <2>1. log \in Seq({log[i] : i \in DOMAIN log} \union {u})
    <3>1. log \in [1 .. n -> {log[i] : i \in DOMAIN log} \union {u}]
      BY <1>2 DEF EntriesOK
    <3> QED
      BY <1>2, <3>1
  <2> QED
    BY <1>1, <1>2, <2>1
<1>4. log' \in Seq({log'[i] : i \in DOMAIN log'})
  <2>1. log' = [i \in 1 .. n + 1 |-> log'[i]]
    <3> HIDE DEF V, n
    <3>1. log' \in [1 .. n + 1 -> V]
      BY <1>3
    <3> QED
      BY <3>1
  <2>2. log' \in [1 .. n + 1 -> {log'[i] : i \in DOMAIN log'}]
    BY <1>3, <2>1
  <2> HIDE DEF n
  <2> QED
    BY <1>2, <2>2
<1> HIDE DEF n, V
<1>5. ASSUME NEW i \in DOMAIN log'
      PROVE  /\ DOMAIN log'[i] \subseteq Entries
             /\ log'[i] \in [DOMAIN log'[i] -> Copies]
             /\ \A e \in DOMAIN log'[i] : log'[i][e] \in Stored \union X
  <2>1. i \in 1 .. n \/ i = n + 1
    BY <1>2, <1>3
  <2>2. CASE i \in 1 .. n
    <3>1. i \in DOMAIN log /\ log'[i] = log[i]
      BY <1>2, <1>3, <2>2
    <3> QED
      BY <3>1, LogFacts DEF EntriesOK
  <2>3. CASE i = n + 1
    BY <1>3, <2>3
  <2> QED
    BY <2>1, <2>2, <2>3
<1>6. EntriesOK'
  BY <1>1, <1>4, <1>5 DEF EntriesOK
<1>7. Stored' \subseteq Stored \union X
  BY <1>1, <1>5, LogFacts DEF Stored
<1> QED
  BY <1>6, <1>7

-----------------------------------------------------------------------------
(* Jobs.                                                                   *)

LEMMA Types ==
  ASSUME TypeOK
  PROVE  /\ EntriesOK
         /\ \A w \in Workers : job[w].pc # "idle" => job[w] \in Job
         /\ \A w \in Workers : job[w].pc \in Steps => job[w] \in Job
  BY DEF TypeOK, EntriesOK, Copies, Idle, Steps

LEMMA RequestFacts ==
  ASSUME NEW r \in Requests
  PROVE  /\ r.op \in {"create", "remove", "rename", "write", "read"}
         /\ r.dir \in Dirs /\ r.todir \in Dirs /\ r.fid \in Fid
         /\ r.name \in Names /\ r.toname \in Names
  BY StorageAssumption DEF StorageAssumption, Request

LEMMA JobFacts ==
  ASSUME NEW j \in Job
  PROVE  /\ j.req \in Requests /\ j.dir \in Dirs /\ j.fid \in Fid
         /\ j.inode \in Copies /\ j.id \in 1 .. MaxRequests /\ j.at \in Nat
         /\ Target(j) \in Dirs \X Names
         /\ Target(j)[1] \in Dirs /\ Target(j)[2] \in Names
         /\ NewLink(j) \in Dirs \X Fid \X Names /\ NewLink(j) \in Entries
         /\ OldLink(j) \in Dirs \X Fid \X Names /\ OldLink(j) \in Entries
         /\ <<j.dir, j.fid, Data>> \in Entries
         /\ <<j.req.dir, j.fid, Data>> \in Entries
<1>1. j.req \in Requests /\ j.dir \in Dirs /\ j.fid \in Fid /\ j.inode \in Copies
      /\ j.id \in 1 .. MaxRequests /\ j.at \in Nat
  BY DEF Job, Copies
<1>2. Target(j) \in Dirs \X Names /\ Target(j)[1] \in Dirs /\ Target(j)[2] \in Names
  BY <1>1, RequestFacts DEF Target
<1> QED
  BY <1>1, <1>2, RequestFacts DEF NewLink, OldLink, Entries

LEMMA GotoJob ==
  ASSUME TypeOK, NEW w \in Workers, NEW x \in Job, NEW pc \in Steps, Goto(w, x, pc)
  PROVE  /\ job' \in [Workers -> Job \union {Idle}]
         /\ \A v \in Workers \ {w} : job'[v] = job[v]
         /\ job'[w] \in Job /\ job'[w].pc = pc
         /\ job'[w].req = x.req /\ job'[w].id = x.id /\ job'[w].dir = x.dir
         /\ job'[w].fid = x.fid /\ job'[w].inode = x.inode /\ job'[w].at = x.at
<1> DEFINE y == [x EXCEPT !.pc = pc]
<1>1. /\ y \in Job /\ y.pc = pc
      /\ y.req = x.req /\ y.id = x.id /\ y.dir = x.dir
      /\ y.fid = x.fid /\ y.inode = x.inode /\ y.at = x.at
  BY DEF Job
<1>2. job' = [job EXCEPT ![w] = y] /\ job \in [Workers -> Job \union {Idle}]
  BY DEF Goto, TypeOK
<1> HIDE DEF y
<1> QED
  BY <1>1, <1>2

LEMMA FinishJob ==
  ASSUME TypeOK, NEW w \in Workers, Finish(w)
  PROVE  /\ job' \in [Workers -> Job \union {Idle}]
         /\ \A v \in Workers \ {w} : job'[v] = job[v]
         /\ job'[w].pc = "idle"
  BY DEF TypeOK, Finish, Idle

\* A worker that has neither a copy nor a file that it reads.
Elsewhere(j) ==
    /\ j.pc \notin Filling \union {"readAt"}
    /\ j.pc \in {"find", "copy"} => j.at = 1


LEMMA Frame ==
  ASSUME StorageInv, TypeOK', NEW w \in Workers, UNCHANGED <<data, unsynced, tmp>>,
         Stored' \subseteq Stored \union {EmptyFile, Absent},
         \A v \in Workers \ {w} : job'[v] = job[v],
         job[w].pc \notin Filling, Elsewhere(job'[w])
  PROVE  StorageInv'
<1>1. \A i \in (Stored' \union {EmptyFile}) \ {Absent} : Whole(i)' /\ i \notin unsynced'
  BY DEF StorageInv, Whole
<1>2. OwnCopies'
  <2> SUFFICES ASSUME NEW t \in Fid \X Workers, tmp[t] # Absent
               PROVE  /\ job'[t[2]].pc \in Filling /\ job'[t[2]].fid = t[1]
                      /\ tmp[t] \notin Stored' \union {EmptyFile}
                      /\ \A u \in Fid \X Workers : tmp[u] = tmp[t] => u = t
                      /\ \A v \in Workers : job'[v].pc = "readAt" => job'[v].inode # tmp[t]
    BY DEF OwnCopies
  <2>1. /\ job[t[2]].pc \in Filling /\ job[t[2]].fid = t[1]
        /\ tmp[t] \notin Stored \union {EmptyFile}
        /\ \A u \in Fid \X Workers : tmp[u] = tmp[t] => u = t
        /\ \A v \in Workers : job[v].pc = "readAt" => job[v].inode # tmp[t]
    BY DEF StorageInv, OwnCopies
  <2>2. t[2] \in Workers \ {w}
    BY <2>1
  <2> QED
    BY <2>1, <2>2 DEF Elsewhere
<1>3. ASSUME NEW v \in Workers PROVE Progress(v)'
  <2>1. CASE v = w
    BY <2>1 DEF Progress, Elsewhere, Filling
  <2>2. CASE v # w
    BY <2>2 DEF Progress, StorageInv, Whole
  <2> QED
    BY <2>1, <2>2
<1> QED
  BY <1>1, <1>2, <1>3 DEF StorageInv, Whole

LEMMA NoUpdate ==
  ASSUME EntriesOK, UNCHANGED <<disk, log>>
  PROVE  EntriesOK' /\ Stored' = Stored
  BY DEF EntriesOK, Stored

-----------------------------------------------------------------------------
(* create, remove, rename, and the searches: no copy is touched.           *)

\* The step of a request, when the locks and what clients were told stay typed.
LEMMA FrameStep ==
  ASSUME StorageInv, NEW w \in Workers, UNCHANGED <<data, unsynced, tmp>>, EntriesOK',
         Stored' \subseteq Stored \union {EmptyFile, Absent},
         job' \in [Workers -> Job \union {Idle}],
         \A v \in Workers \ {w} : job'[v] = job[v],
         job[w].pc \notin Filling, Elsewhere(job'[w]),
         nextFid' \in Nat \ {0}, nreq' \in Nat, nameLock' \subseteq Dirs \X Names,
         cacheLock' \in Workers \union {NoWorker},
         promised' \union gone' \subseteq Dirs \X Fid \X Names, live' \subseteq Fid,
         acked' \in [Fid -> 0 .. MaxRequests]
  PROVE  StorageInv'
<1>1. TypeOK'
  BY DEF TypeOK, StorageInv, EntriesOK, Copies
<1> QED
  BY <1>1, Frame

LEMMA FinishStep ==
  ASSUME TypeOK, NEW w \in Workers, Finish(w)
  PROVE  /\ job' \in [Workers -> Job \union {Idle}]
         /\ \A v \in Workers \ {w} : job'[v] = job[v]
         /\ Elsewhere(job'[w])
  BY FinishJob DEF Elsewhere, Filling

LEMMA GotoStep ==
  ASSUME TypeOK, NEW w \in Workers, NEW x \in Job,
         NEW pc \in Steps \ (Filling \union {"find", "copy", "readAt"}), Goto(w, x, pc)
  PROVE  /\ job' \in [Workers -> Job \union {Idle}]
         /\ \A v \in Workers \ {w} : job'[v] = job[v]
         /\ Elsewhere(job'[w])
  BY GotoJob DEF Elsewhere

LEMMA StartStep ==
  ASSUME StorageInv, NEW w \in Workers, Start(w)
  PROVE  StorageInv'
<1>1. TypeOK /\ EntriesOK
  BY Types DEF StorageInv
<1>2. PICK r \in Requests :
         /\ job' = [job EXCEPT ![w] =
                      [pc |-> FirstStep[r.op], req |-> r, id |-> nreq',
                       dir |-> r.dir, fid |-> r.fid, inode |-> Absent, at |-> 1]]
         /\ acked' = IF r.op = "write" THEN [acked EXCEPT ![r.fid] = 0] ELSE acked
  BY DEF Start
<1> DEFINE y == [pc |-> FirstStep[r.op], req |-> r, id |-> nreq',
                 dir |-> r.dir, fid |-> r.fid, inode |-> Absent, at |-> 1]
<1>3. nreq' = nreq + 1 /\ nreq < MaxRequests /\ nreq \in Nat /\ nreq' \in 1 .. MaxRequests
  BY <1>1, Bounds DEF Start, TypeOK
<1>4. FirstStep[r.op] \in {"claim", "resolve", "find"}
  BY RequestFacts DEF FirstStep
<1>5. y \in Job /\ y.pc \in {"claim", "resolve", "find"} /\ y.at = 1
  BY <1>3, <1>4, RequestFacts DEF Job, Steps
<1> HIDE DEF y
<1>6. /\ job' \in [Workers -> Job \union {Idle}]
      /\ \A v \in Workers \ {w} : job'[v] = job[v]
      /\ Elsewhere(job'[w])
  BY <1>1, <1>2, <1>5 DEF TypeOK, Elsewhere, Filling, y
<1>7. acked' \in [Fid -> 0 .. MaxRequests]
  BY <1>1, <1>2, RequestFacts, Bounds DEF TypeOK
<1>8. EntriesOK' /\ Stored' = Stored
  BY <1>1, NoUpdate DEF Start, volume
<1>9. job[w].pc \notin Filling
  BY DEF Start, Filling
<1>10. /\ UNCHANGED <<data, unsynced, tmp>> /\ nextFid' \in Nat \ {0}
       /\ nameLock' \subseteq Dirs \X Names /\ cacheLock' \in Workers \union {NoWorker}
       /\ promised' \union gone' \subseteq Dirs \X Fid \X Names /\ live' \subseteq Fid
  BY <1>1 DEF Start, TypeOK, volume, locks
<1>11. nreq' \in Nat
  BY <1>3
<1> QED
  BY <1>6, <1>7, <1>8, <1>9, <1>10, <1>11, FrameStep

LEMMA ResolveStep ==
  ASSUME StorageInv, NEW w \in Workers, Resolve(w)
  PROVE  StorageInv'
<1>1. TypeOK /\ EntriesOK /\ job[w] \in Job /\ job[w].pc = "resolve"
  BY Types DEF StorageInv, Resolve, Steps
<1>2. /\ job' \in [Workers -> Job \union {Idle}]
      /\ \A v \in Workers \ {w} : job'[v] = job[v]
      /\ Elsewhere(job'[w])
  <2>1. CASE Finish(w)
    BY <1>1, <2>1, FinishStep
  <2>2. CASE \E f \in Fid : Goto(w, [job[w] EXCEPT !.fid = f],
                 IF job[w].req.op = "remove" THEN "unlink" ELSE "claim")
    <3>1. PICK f \in Fid : Goto(w, [job[w] EXCEPT !.fid = f],
                 IF job[w].req.op = "remove" THEN "unlink" ELSE "claim")
      BY <2>2
    <3> DEFINE x == [job[w] EXCEPT !.fid = f]
               pc == IF job[w].req.op = "remove" THEN "unlink" ELSE "claim"
    <3>2. x \in Job
      BY <1>1 DEF Job
    <3>3. pc \in Steps \ (Filling \union {"find", "copy", "readAt"}) /\ Goto(w, x, pc)
      BY <3>1 DEF Steps, Filling
    <3> HIDE DEF x, pc
    <3> QED
      BY <1>1, <3>2, <3>3, GotoStep
  <2> QED
    BY <2>1, <2>2 DEF Resolve, WithName
<1>3. EntriesOK' /\ Stored' = Stored
  BY <1>1, NoUpdate DEF Resolve, volume
<1> QED
  BY <1>1, <1>2, <1>3, FrameStep
     DEF Resolve, TypeOK, volume, locks, told, bounds, Filling

LEMMA ClaimStep ==
  ASSUME StorageInv, NEW w \in Workers, Claim(w)
  PROVE  StorageInv'
<1>1. TypeOK /\ EntriesOK /\ job[w] \in Job /\ job[w].pc = "claim"
  BY Types DEF StorageInv, Claim, Steps
<1>2. /\ job' \in [Workers -> Job \union {Idle}]
      /\ \A v \in Workers \ {w} : job'[v] = job[v]
      /\ Elsewhere(job'[w])
      /\ nameLock' \subseteq Dirs \X Names
  <2>1. CASE Finish(w) /\ UNCHANGED nameLock
    BY <1>1, <2>1, FinishStep DEF TypeOK
  <2>2. CASE /\ nameLock' = nameLock \union {Target(job[w])}
             /\ Goto(w, [job[w] EXCEPT !.dir = Target(job[w])[1]],
                     IF IsCreate(job[w]) THEN "mkNumbered" ELSE "mkNamed")
    <3> DEFINE x == [job[w] EXCEPT !.dir = Target(job[w])[1]]
               pc == IF IsCreate(job[w]) THEN "mkNumbered" ELSE "mkNamed"
    <3>1. Target(job[w]) \in Dirs \X Names /\ Target(job[w])[1] \in Dirs
      BY <1>1, JobFacts
    <3>2. x \in Job
      BY <1>1, <3>1 DEF Job
    <3>3. pc \in Steps \ (Filling \union {"find", "copy", "readAt"}) /\ Goto(w, x, pc)
      BY <2>2 DEF Steps, Filling
    <3> HIDE DEF x, pc
    <3>4. nameLock' \subseteq Dirs \X Names
      BY <1>1, <2>2, <3>1 DEF TypeOK
    <3> QED
      BY <1>1, <3>2, <3>3, <3>4, GotoStep
  <2> QED
    BY <2>1, <2>2 DEF Claim
<1>3. EntriesOK' /\ Stored' = Stored
  BY <1>1, NoUpdate DEF Claim, volume
<1> QED
  BY <1>1, <1>2, <1>3, FrameStep
     DEF Claim, TypeOK, volume, told, bounds, Filling

LEMMA SetKeeps ==
  ASSUME EntriesOK, NEW e \in Entries, NEW i \in Copies, Update(Set(e, i))
  PROVE  EntriesOK' /\ Stored' \subseteq Stored \union {i}
<1> DEFINE u == Set(e, i)
<1>1. DOMAIN u \subseteq Entries /\ u \in [DOMAIN u -> {i}] /\ Update(u)
  BY DEF Set
<1>2. {i} \in SUBSET Copies
  OBVIOUS
<1> HIDE DEF u
<1> QED
  BY <1>1, <1>2, UpdateKeeps

LEMMA MkNumberedStep ==
  ASSUME StorageInv, NEW w \in Workers, MkNumbered(w)
  PROVE  StorageInv'
<1>1. TypeOK /\ EntriesOK /\ job[w] \in Job /\ job[w].pc = "mkNumbered"
  BY Types DEF StorageInv, MkNumbered, Steps
<1>2. nextFid \in Fid /\ nextFid' \in Nat \ {0}
  BY <1>1, Bounds DEF MkNumbered, TypeOK, Fid
<1> DEFINE x == [job[w] EXCEPT !.fid = nextFid]
<1>3. x \in Job
  BY <1>1, <1>2 DEF Job
<1>4. Goto(w, x, "syncNumbered")
  BY DEF MkNumbered
<1> HIDE DEF x
<1>5. /\ job' \in [Workers -> Job \union {Idle}]
      /\ \A v \in Workers \ {w} : job'[v] = job[v]
      /\ Elsewhere(job'[w])
  BY <1>1, <1>3, <1>4, GotoStep DEF Steps, Filling
<1>6. <<job[w].dir, nextFid, Data>> \in Entries
  BY <1>1, <1>2, JobFacts DEF Entries
<1>7. EntriesOK' /\ Stored' \subseteq Stored \union {EmptyFile}
  BY <1>1, <1>6, SetKeeps, Bounds DEF MkNumbered, Copies
<1> QED
  BY <1>1, <1>2, <1>5, <1>7, FrameStep
     DEF MkNumbered, TypeOK, locks, told, bounds, Filling

LEMMA MkNamedStep ==
  ASSUME StorageInv, NEW w \in Workers, MkNamed(w)
  PROVE  StorageInv'
<1>1. TypeOK /\ EntriesOK /\ job[w] \in Job /\ job[w].pc = "mkNamed"
  BY Types DEF StorageInv, MkNamed, Steps
<1>2. /\ job' \in [Workers -> Job \union {Idle}]
      /\ \A v \in Workers \ {w} : job'[v] = job[v]
      /\ Elsewhere(job'[w])
  BY <1>1, GotoStep DEF MkNamed, AfterMkNamed, Steps, Filling
<1>3. NewLink(job[w]) \in Entries
  BY <1>1, JobFacts
<1>4. EntriesOK' /\ Stored' \subseteq Stored \union {EmptyFile}
  BY <1>1, <1>3, SetKeeps, Bounds DEF MkNamed, Copies
<1> QED
  BY <1>1, <1>2, <1>4, FrameStep DEF MkNamed, TypeOK, locks, bounds, Filling

LEMMA SyncStep ==
  ASSUME StorageInv, NEW w \in Workers, Sync(w)
  PROVE  StorageInv'
<1>1. job[w].pc \in {"syncNumbered", "syncNamed", "syncLinked"}
  BY DEF Sync, AfterSync
<1>2. TypeOK /\ EntriesOK /\ job[w] \in Job /\ job[w].dir \in Dirs
  BY <1>1, Types, JobFacts DEF StorageInv, Steps
<1>3. AfterSync[job[w].pc] \in Steps \ (Filling \union {"find", "copy", "readAt"})
  BY <1>1 DEF AfterSync, Steps, Filling
<1>4. /\ job' \in [Workers -> Job \union {Idle}]
      /\ \A v \in Workers \ {w} : job'[v] = job[v]
      /\ Elsewhere(job'[w])
  BY <1>2, <1>3, GotoStep DEF Sync
<1>5. EntriesOK' /\ Stored' \subseteq Stored
  BY <1>2, FsyncKeeps DEF Sync
<1> QED
  BY <1>1, <1>2, <1>4, <1>5, FrameStep
     DEF Sync, TypeOK, locks, told, bounds, Filling

LEMMA SetAttrStep ==
  ASSUME StorageInv, NEW w \in Workers, SetAttr(w)
  PROVE  StorageInv'
<1>1. TypeOK /\ EntriesOK /\ job[w] \in Job /\ job[w].pc = "setAttr"
  BY Types DEF StorageInv, SetAttr, Steps
<1>2. NewLink(job[w]) \in Dirs \X Fid \X Names /\ job[w].fid \in Fid
  BY <1>1, JobFacts
<1>3. /\ nameLock' \subseteq Dirs \X Names /\ live' \subseteq Fid
      /\ promised' \union gone' \subseteq Dirs \X Fid \X Names
  BY <1>1, <1>2 DEF SetAttr, TypeOK
<1>4. EntriesOK' /\ Stored' = Stored
  BY <1>1, NoUpdate DEF SetAttr, volume
<1>5. /\ job' \in [Workers -> Job \union {Idle}]
      /\ \A v \in Workers \ {w} : job'[v] = job[v]
      /\ Elsewhere(job'[w])
  BY <1>1, FinishStep DEF SetAttr
<1> QED
  BY <1>1, <1>3, <1>4, <1>5, FrameStep
     DEF SetAttr, TypeOK, volume, bounds, Filling

LEMMA MoveStep ==
  ASSUME StorageInv, NEW w \in Workers, Move(w)
  PROVE  StorageInv'
<1> DEFINE j == job[w]
           old == <<j.req.dir, j.fid, Data>>
           new == <<j.dir, j.fid, Data>>
<1>1. TypeOK /\ EntriesOK /\ job[w] \in Job /\ job[w].pc = "move"
  BY Types DEF StorageInv, Move, Steps
<1>2. old \in Entries /\ new \in Entries
  BY <1>1, JobFacts
<1>3. /\ job' \in [Workers -> Job \union {Idle}]
      /\ \A v \in Workers \ {w} : job'[v] = job[v]
      /\ Elsewhere(job'[w])
  <2>1. CASE Goto(w, j, "syncMoved")
    BY <1>1, <2>1, GotoStep DEF Steps, Filling
  <2>2. CASE Finish(w)
    BY <1>1, <2>2, FinishStep
  <2> QED
    BY <2>1, <2>2 DEF Move, AfterMove
<1>4. EntriesOK' /\ Stored' \subseteq Stored \union {Absent}
  <2>1. CASE UNCHANGED <<disk, log>>
    BY <1>1, <2>1, NoUpdate
  <2>2. CASE Update(MovedEntries(old, new))
    <3> DEFINE X == {View[old], Absent}
               u == MovedEntries(old, new)
    <3>1. View[old] \in Stored /\ View[old] \in Copies
      BY <1>1, <1>2, ViewFacts
    <3>2. DOMAIN u \subseteq Entries /\ u \in [DOMAIN u -> X] /\ Update(u)
      BY <1>2, <2>2 DEF MovedEntries
    <3>3. X \in SUBSET Copies
      BY <3>1 DEF Copies
    <3> HIDE DEF u
    <3>4. EntriesOK' /\ Stored' \subseteq Stored \union X
      <4> HIDE DEF X
      <4> QED
        BY <1>1, <3>2, <3>3, UpdateKeeps
    <3> QED
      BY <3>1, <3>4
  <2> QED
    BY <2>1, <2>2 DEF Move
<1>5. /\ nameLock' \subseteq Dirs \X Names
      /\ cacheLock' \in Workers \union {NoWorker}
      /\ promised' \union gone' \subseteq Dirs \X Fid \X Names
  BY <1>1 DEF Move, TypeOK, OfOthers
<1> QED
  BY <1>1, <1>3, <1>4, <1>5, FrameStep DEF Move, TypeOK, bounds, Filling

LEMMA SyncMovedStep ==
  ASSUME StorageInv, NEW w \in Workers, SyncMoved(w)
  PROVE  StorageInv'
<1>1. TypeOK /\ EntriesOK /\ job[w] \in Job /\ job[w].pc = "syncMoved"
  BY Types DEF StorageInv, SyncMoved, Steps
<1>2. job[w].dir \in Dirs
  BY <1>1, JobFacts
<1>3. /\ job' \in [Workers -> Job \union {Idle}]
      /\ \A v \in Workers \ {w} : job'[v] = job[v]
      /\ Elsewhere(job'[w])
  BY <1>1, GotoStep DEF SyncMoved, Steps, Filling
<1>4. EntriesOK' /\ Stored' \subseteq Stored
  BY <1>1, <1>2, FsyncKeeps DEF SyncMoved
<1> QED
  BY <1>1, <1>3, <1>4, FrameStep DEF SyncMoved, TypeOK, told, bounds, Filling

LEMMA DropOldStep ==
  ASSUME StorageInv, NEW w \in Workers, DropOld(w)
  PROVE  StorageInv'
<1>1. TypeOK /\ EntriesOK /\ job[w] \in Job /\ job[w].pc = "dropOld"
  BY Types DEF StorageInv, DropOld, Steps
<1>2. /\ NewLink(job[w]) \in Dirs \X Fid \X Names
      /\ OldLink(job[w]) \in Dirs \X Fid \X Names /\ OldLink(job[w]) \in Entries
  BY <1>1, JobFacts
<1>3. /\ job' \in [Workers -> Job \union {Idle}]
      /\ \A v \in Workers \ {w} : job'[v] = job[v]
      /\ Elsewhere(job'[w])
  BY <1>1, FinishStep DEF DropOld
<1>4. EntriesOK' /\ Stored' \subseteq Stored \union {Absent}
  BY <1>1, <1>2, SetKeeps, NoUpdate DEF DropOld, Copies
<1>5. promised' \union gone' \subseteq Dirs \X Fid \X Names
  BY <1>1, <1>2 DEF DropOld, TypeOK
<1> QED
  BY <1>1, <1>3, <1>4, <1>5, FrameStep DEF DropOld, TypeOK, locks, bounds, Filling

LEMMA UnlinkStep ==
  ASSUME StorageInv, NEW w \in Workers, Unlink(w)
  PROVE  StorageInv'
<1>1. TypeOK /\ EntriesOK /\ job[w] \in Job /\ job[w].pc = "unlink"
  BY Types DEF StorageInv, Unlink, Steps
<1>2. <<job[w].dir, job[w].fid, Data>> \in Entries
  BY <1>1, JobFacts
<1>3. /\ job' \in [Workers -> Job \union {Idle}]
      /\ \A v \in Workers \ {w} : job'[v] = job[v]
      /\ Elsewhere(job'[w])
  <2>1. CASE Goto(w, job[w], "syncUnlinked")
    BY <1>1, <2>1, GotoStep DEF Steps, Filling
  <2>2. CASE Finish(w)
    BY <1>1, <2>2, FinishStep
  <2> QED
    BY <2>1, <2>2 DEF Unlink
<1>4. EntriesOK' /\ Stored' \subseteq Stored \union {Absent}
  BY <1>1, <1>2, SetKeeps, NoUpdate DEF Unlink, Copies
<1>5. promised' \union gone' \subseteq Dirs \X Fid \X Names /\ live' \subseteq Fid
  BY <1>1 DEF Unlink, TypeOK, OfOthers
<1> QED
  BY <1>1, <1>3, <1>4, <1>5, FrameStep DEF Unlink, TypeOK, locks, bounds, Filling

LEMMA SyncUnlinkedStep ==
  ASSUME StorageInv, NEW w \in Workers, SyncUnlinked(w)
  PROVE  StorageInv'
<1>1. TypeOK /\ EntriesOK /\ job[w] \in Job /\ job[w].pc = "syncUnlinked"
  BY Types DEF StorageInv, SyncUnlinked, Steps
<1>2. job[w].dir \in Dirs
  BY <1>1, JobFacts
<1>3. /\ job' \in [Workers -> Job \union {Idle}]
      /\ \A v \in Workers \ {w} : job'[v] = job[v]
      /\ Elsewhere(job'[w])
  BY <1>1, GotoStep DEF SyncUnlinked, Steps, Filling
<1>4. EntriesOK' /\ Stored' \subseteq Stored
  BY <1>1, <1>2, FsyncKeeps DEF SyncUnlinked
<1> QED
  BY <1>1, <1>3, <1>4, FrameStep DEF SyncUnlinked, TypeOK, told, bounds, Filling

LEMMA DropNamedStep ==
  ASSUME StorageInv, NEW w \in Workers, DropNamed(w)
  PROVE  StorageInv'
<1>1. TypeOK /\ EntriesOK /\ job[w] \in Job /\ job[w].pc = "dropNamed"
  BY Types DEF StorageInv, DropNamed, Steps
<1>2. OldLink(job[w]) \in Entries
  BY <1>1, JobFacts
<1>3. /\ job' \in [Workers -> Job \union {Idle}]
      /\ \A v \in Workers \ {w} : job'[v] = job[v]
      /\ Elsewhere(job'[w])
  <2>1. CASE Goto(w, job[w], "syncDropped")
    BY <1>1, <2>1, GotoStep DEF Steps, Filling
  <2>2. CASE Finish(w)
    BY <1>1, <2>2, FinishStep
  <2> QED
    BY <2>1, <2>2 DEF DropNamed
<1>4. EntriesOK' /\ Stored' \subseteq Stored \union {Absent}
  BY <1>1, <1>2, SetKeeps, NoUpdate DEF DropNamed, Copies
<1>5. cacheLock' \in Workers \union {NoWorker}
  BY <1>1 DEF DropNamed, TypeOK
<1> QED
  BY <1>1, <1>3, <1>4, <1>5, FrameStep DEF DropNamed, TypeOK, told, bounds, Filling

LEMMA SyncDroppedStep ==
  ASSUME StorageInv, NEW w \in Workers, SyncDropped(w)
  PROVE  StorageInv'
<1>1. TypeOK /\ EntriesOK /\ job[w] \in Job /\ job[w].pc = "syncDropped"
  BY Types DEF StorageInv, SyncDropped, Steps
<1>2. job[w].dir \in Dirs /\ OldLink(job[w]) \in Dirs \X Fid \X Names
  BY <1>1, JobFacts
<1>3. /\ job' \in [Workers -> Job \union {Idle}]
      /\ \A v \in Workers \ {w} : job'[v] = job[v]
      /\ Elsewhere(job'[w])
  BY <1>1, FinishStep DEF SyncDropped
<1>4. EntriesOK' /\ Stored' \subseteq Stored
  BY <1>1, <1>2, FsyncKeeps DEF SyncDropped
<1>5. gone' \subseteq Dirs \X Fid \X Names
  BY <1>1, <1>2 DEF SyncDropped, TypeOK
<1> QED
  BY <1>1, <1>3, <1>4, <1>5, FrameStep DEF SyncDropped, TypeOK, bounds, Filling

LEMMA FindStep ==
  ASSUME StorageInv, NEW w \in Workers, Find(w)
  PROVE  StorageInv'
<1>1. TypeOK /\ EntriesOK /\ job[w] \in Job /\ job[w].pc = "find"
  BY Types DEF StorageInv, Find, Steps
<1>2. /\ job' \in [Workers -> Job \union {Idle}]
      /\ \A v \in Workers \ {w} : job'[v] = job[v]
      /\ Elsewhere(job'[w])
  <2>1. CASE Finish(w)
    BY <1>1, <2>1, FinishStep
  <2>2. CASE \E d \in Dirs : Goto(w, [job[w] EXCEPT !.dir = d], AfterFind(job[w].req))
    <3>1. PICK d \in Dirs : Goto(w, [job[w] EXCEPT !.dir = d], AfterFind(job[w].req))
      BY <2>2
    <3> DEFINE x == [job[w] EXCEPT !.dir = d]
               pc == AfterFind(job[w].req)
    <3>2. x \in Job /\ x.at = 1
      BY <1>1 DEF Job, StorageInv, Progress
    <3>3. pc \in {"copy", "open"} /\ pc \in Steps /\ Goto(w, x, pc)
      BY <3>1 DEF AfterFind, Steps
    <3> HIDE DEF x, pc
    <3> QED
      BY <1>1, <3>2, <3>3, GotoJob DEF Elsewhere, Filling
  <2> QED
    BY <2>1, <2>2 DEF Find
<1>3. EntriesOK' /\ Stored' = Stored
  BY <1>1, NoUpdate DEF Find, volume
<1> QED
  BY <1>1, <1>2, <1>3, FrameStep
     DEF Find, TypeOK, volume, locks, told, bounds, Filling

LEMMA ReadAtStep ==
  ASSUME StorageInv, NEW w \in Workers, ReadAt(w)
  PROVE  StorageInv'
<1>1. TypeOK /\ EntriesOK /\ job[w].pc = "readAt"
  BY Types DEF StorageInv, ReadAt
<1>2. /\ job' \in [Workers -> Job \union {Idle}]
      /\ \A v \in Workers \ {w} : job'[v] = job[v]
      /\ Elsewhere(job'[w])
  BY <1>1, FinishStep DEF ReadAt
<1>3. EntriesOK' /\ Stored' = Stored
  BY <1>1, NoUpdate DEF ReadAt, volume
<1> QED
  BY <1>1, <1>2, <1>3, FrameStep
     DEF ReadAt, TypeOK, volume, locks, told, bounds, Filling

-----------------------------------------------------------------------------
(* Stable writes and reads.                                                *)

\* What an entry has, or may have after a power failure, is whole and synced.
Clean == \A i \in (Stored \union {EmptyFile}) \ {Absent} : Whole(i) /\ i \notin unsynced

\* The worker that the copy tmp[<<f, w>>] belongs to.
LEMMA MyCopy ==
  ASSUME StorageInv, NEW w \in Workers, job[w].pc \in Filling
  PROVE  /\ job[w] \in Job /\ <<job[w].fid, w>> \in Fid \X Workers
         /\ TmpName(job[w].fid, w) = <<job[w].fid, w>>
         /\ tmp[<<job[w].fid, w>>] \in Inodes
         /\ tmp[<<job[w].fid, w>>] \notin Stored \union {EmptyFile}
         /\ \A u \in Fid \X Workers :
               tmp[u] = tmp[<<job[w].fid, w>>] => u = <<job[w].fid, w>>
         /\ \A v \in Workers : job[v].pc = "readAt" =>
               job[v].inode # tmp[<<job[w].fid, w>>]
<1>1. job[w] \in Job
  BY Types DEF StorageInv, Filling, Steps
<1>2. <<job[w].fid, w>> \in Fid \X Workers
  BY <1>1, JobFacts
<1>3. tmp[<<job[w].fid, w>>] \in Inodes
  BY <1>2 DEF StorageInv, Progress, TypeOK
<1>4. tmp[<<job[w].fid, w>>] # Absent
  BY DEF StorageInv, Progress
<1> QED
  BY <1>1, <1>2, <1>3, <1>4 DEF StorageInv, OwnCopies, TmpName

\* Another writer works on another copy, and a reader on none.
LEMMA OthersAway ==
  ASSUME StorageInv, NEW w \in Workers, job[w].pc \in Filling,
         NEW v \in Workers \ {w}, job[v].pc \in (Filling \ {"openTmp"}) \union {"readAt"}
  PROVE  job[v].inode # tmp[<<job[w].fid, w>>]
<1>1. CASE job[v].pc = "readAt"
  BY <1>1, MyCopy
<1>2. CASE job[v].pc \in Filling \ {"openTmp"}
  <2>1. job[v].inode = tmp[<<job[v].fid, v>>] /\ <<job[v].fid, v>> \in Fid \X Workers
    BY <1>2, MyCopy DEF StorageInv, Progress
  <2> QED
    BY <2>1, MyCopy
<1> QED
  BY <1>1, <1>2

LEMMA SyncTmpStep ==
  ASSUME StorageInv, NEW w \in Workers, SyncTmp(w)
  PROVE  StorageInv'
<1>1. TypeOK /\ EntriesOK /\ job[w] \in Job /\ job[w].pc = "syncTmp"
  BY Types DEF StorageInv, SyncTmp, Steps
<1>2. /\ job' \in [Workers -> Job \union {Idle}]
      /\ \A v \in Workers \ {w} : job'[v] = job[v]
      /\ job'[w].pc = "replace" /\ job'[w].fid = job[w].fid
      /\ job'[w].inode = job[w].inode /\ job'[w].id = job[w].id
  BY <1>1, GotoJob DEF SyncTmp, Steps
<1>3. EntriesOK' /\ Stored' = Stored
  BY <1>1, NoUpdate DEF SyncTmp
<1>4. TypeOK'
  BY <1>1, <1>2, <1>3 DEF SyncTmp, TypeOK, EntriesOK, Copies, locks, told, bounds
<1>5. UNCHANGED <<data, tmp>> /\ unsynced' = unsynced \ {job[w].inode}
  BY DEF SyncTmp
<1>6. Clean'
  BY <1>3, <1>5 DEF StorageInv, Clean, Whole
<1>7. OwnCopies'
  <2> SUFFICES ASSUME NEW t \in Fid \X Workers, tmp[t] # Absent
               PROVE  /\ job'[t[2]].pc \in Filling /\ job'[t[2]].fid = t[1]
                      /\ tmp[t] \notin Stored \union {EmptyFile}
                      /\ \A u \in Fid \X Workers : tmp[u] = tmp[t] => u = t
                      /\ \A v \in Workers : job'[v].pc = "readAt" => job'[v].inode # tmp[t]
    BY <1>3, <1>5 DEF OwnCopies
  <2>1. t[2] \in Workers
    OBVIOUS
  <2>2. t[2] = w => job'[t[2]].pc \in Filling /\ job'[t[2]].fid = t[1]
    BY <1>2 DEF StorageInv, OwnCopies, Filling
  <2>3. t[2] # w => job'[t[2]].pc \in Filling /\ job'[t[2]].fid = t[1]
    BY <1>2, <2>1 DEF StorageInv, OwnCopies
  <2> QED
    BY <1>2, <2>2, <2>3 DEF StorageInv, OwnCopies
<1>8. ASSUME NEW v \in Workers PROVE Progress(v)'
  BY <1>1, <1>2, <1>5 DEF StorageInv, Progress, Filling, Whole
<1> QED
  BY <1>4, <1>6, <1>7, <1>8 DEF StorageInv, Clean

LEMMA OpenTmpStep ==
  ASSUME StorageInv, NEW w \in Workers, OpenTmp(w)
  PROVE  StorageInv'
<1> DEFINE i == tmp[<<job[w].fid, w>>]
           x == [job[w] EXCEPT !.inode = i]
<1>1. TypeOK /\ EntriesOK /\ job[w] \in Job /\ job[w].pc = "openTmp"
  BY Types DEF StorageInv, OpenTmp, Steps
<1>2. i \in Inodes /\ TmpName(job[w].fid, w) = <<job[w].fid, w>> /\ i # Absent
  BY <1>1, MyCopy, Bounds DEF Filling
<1>3. Goto(w, x, "fill") /\ unsynced' = unsynced \ {i}
  BY <1>2 DEF OpenTmp
<1>4. x \in Job /\ x.at = job[w].at /\ x.fid = job[w].fid /\ x.inode = i
  BY <1>1, <1>2 DEF Job
<1>5. job[w].at = 1
  BY <1>1 DEF StorageInv, Progress
<1> HIDE DEF x
<1>6. /\ job' \in [Workers -> Job \union {Idle}]
      /\ \A v \in Workers \ {w} : job'[v] = job[v]
      /\ job'[w].pc = "fill" /\ job'[w].fid = job[w].fid
      /\ job'[w].inode = i /\ job'[w].at = 1
  BY <1>1, <1>3, <1>4, <1>5, GotoJob DEF Steps
<1>7. EntriesOK' /\ Stored' = Stored
  BY <1>1, NoUpdate DEF OpenTmp
<1>8. UNCHANGED <<data, tmp>>
  BY DEF OpenTmp
<1> HIDE DEF i
<1>9. TypeOK'
  BY <1>1, <1>3, <1>6, <1>7
     DEF OpenTmp, TypeOK, EntriesOK, Copies, locks, told, bounds
<1>10. Clean'
  BY <1>3, <1>7, <1>8 DEF StorageInv, Clean, Whole
<1>11. OwnCopies'
  <2> SUFFICES ASSUME NEW t \in Fid \X Workers, tmp[t] # Absent
               PROVE  /\ job'[t[2]].pc \in Filling /\ job'[t[2]].fid = t[1]
                      /\ tmp[t] \notin Stored \union {EmptyFile}
                      /\ \A u \in Fid \X Workers : tmp[u] = tmp[t] => u = t
                      /\ \A v \in Workers : job'[v].pc = "readAt" => job'[v].inode # tmp[t]
    BY <1>7, <1>8 DEF OwnCopies
  <2>1. t[2] \in Workers
    OBVIOUS
  <2>2. t[2] = w => job'[t[2]].pc \in Filling /\ job'[t[2]].fid = t[1]
    BY <1>6 DEF StorageInv, OwnCopies, Filling
  <2>3. t[2] # w => job'[t[2]].pc \in Filling /\ job'[t[2]].fid = t[1]
    BY <1>6, <2>1 DEF StorageInv, OwnCopies
  <2> QED
    BY <1>6, <2>2, <2>3 DEF StorageInv, OwnCopies
<1>12. ASSUME NEW v \in Workers PROVE Progress(v)'
  <2>1. CASE v = w
    <3>1. \A k \in Blocks : ~(k < 1)
      BY Bounds
    <3> QED
      BY <1>2, <1>6, <1>8, <2>1, <3>1, Bounds DEF Progress, Filling, i
  <2>2. CASE v # w
    BY <1>3, <1>6, <1>8, <2>2 DEF StorageInv, Progress, Whole
  <2> QED
    BY <2>1, <2>2
<1> QED
  BY <1>9, <1>10, <1>11, <1>12 DEF StorageInv, Clean

LEMMA OpenStep ==
  ASSUME StorageInv, NEW w \in Workers, Open(w)
  PROVE  StorageInv'
<1> DEFINE i == View[<<job[w].dir, job[w].fid, Data>>]
           x == [job[w] EXCEPT !.inode = i]
<1>1. TypeOK /\ EntriesOK /\ job[w] \in Job /\ job[w].pc = "open"
  BY Types DEF StorageInv, Open, Steps
<1>2. EntriesOK' /\ Stored' = Stored
  BY <1>1, NoUpdate DEF Open, volume
<1>3. i \in Stored /\ i \in Copies
  BY <1>1, JobFacts, ViewFacts
<1>4. UNCHANGED <<data, tmp, unsynced>>
  BY DEF Open, volume
<1>5. CASE Finish(w)
  <2>1. /\ job' \in [Workers -> Job \union {Idle}]
        /\ \A v \in Workers \ {w} : job'[v] = job[v]
        /\ Elsewhere(job'[w])
    BY <1>1, <1>5, FinishStep
  <2> QED
    BY <1>1, <1>2, <2>1, FrameStep
       DEF Open, TypeOK, volume, locks, told, bounds, Filling
<1>6. CASE i # Absent /\ Goto(w, x, "readAt")
  <2>1. x \in Job /\ x.inode = i
    BY <1>1, <1>3 DEF Job, Copies
  <2>2. i \in Inodes /\ i # Absent /\ Goto(w, x, "readAt")
    BY <1>3, <1>6 DEF Copies
  <2> HIDE DEF x, i
  <2>3. /\ job' \in [Workers -> Job \union {Idle}]
        /\ \A v \in Workers \ {w} : job'[v] = job[v]
        /\ job'[w].pc = "readAt" /\ job'[w].inode = i
    BY <1>1, <2>1, <2>2, GotoJob DEF Steps
  <2>4. TypeOK'
    BY <1>1, <1>2, <2>3
       DEF Open, TypeOK, EntriesOK, Copies, volume, locks, told, bounds
  <2>5. Clean'
    BY <1>2, <1>4 DEF StorageInv, Clean, Whole
  <2>6. OwnCopies'
    <3> SUFFICES ASSUME NEW t \in Fid \X Workers, tmp[t] # Absent
                 PROVE  /\ job'[t[2]].pc \in Filling /\ job'[t[2]].fid = t[1]
                        /\ tmp[t] \notin Stored \union {EmptyFile}
                        /\ \A u \in Fid \X Workers : tmp[u] = tmp[t] => u = t
                        /\ \A v \in Workers : job'[v].pc = "readAt" => job'[v].inode # tmp[t]
      BY <1>2, <1>4 DEF OwnCopies
    <3>1. t[2] \in Workers \ {w}
      BY <1>1 DEF StorageInv, OwnCopies, Filling
    <3>2. \A v \in Workers : job'[v].pc = "readAt" => job'[v].inode # tmp[t]
      BY <1>3, <2>3 DEF StorageInv, OwnCopies
    <3> QED
      BY <2>3, <3>1, <3>2 DEF StorageInv, OwnCopies
  <2>7. Whole(i)
    BY <1>3, <2>2 DEF StorageInv
  <2>8. ASSUME NEW v \in Workers PROVE Progress(v)'
    <3>1. CASE v = w
      BY <1>4, <2>2, <2>3, <2>7, <3>1 DEF Progress, Filling, Whole
    <3>2. CASE v # w
      BY <1>4, <2>3, <3>2 DEF StorageInv, Progress, Whole
    <3> QED
      BY <3>1, <3>2
  <2> QED
    BY <2>4, <2>5, <2>6, <2>8 DEF StorageInv, Clean
<1> QED
  BY <1>5, <1>6 DEF Open

LEMMA FillStep ==
  ASSUME StorageInv, NEW w \in Workers, Fill(w)
  PROVE  StorageInv'
<1> DEFINE j == job[w]
           i == tmp[<<j.fid, w>>]
           x == [j EXCEPT !.at = @ + 1]
           pc == IF j.at = LastBlock THEN "syncTmp" ELSE "fill"
           block == [k \in Blocks |-> IF k = j.at THEN j.id ELSE data[i][k]]
<1>1. TypeOK /\ EntriesOK /\ j \in Job /\ j.pc = "fill"
  BY Types DEF StorageInv, Fill, Steps
<1>2. /\ i \in Inodes /\ i # Absent /\ i \notin Stored \union {EmptyFile}
      /\ \A u \in Fid \X Workers : tmp[u] = i => u = <<j.fid, w>>
      /\ \A v \in Workers : job[v].pc = "readAt" => job[v].inode # i
      /\ \A v \in Workers \ {w} :
            job[v].pc \in (Filling \ {"openTmp"}) \union {"readAt"} => job[v].inode # i
  BY <1>1, MyCopy, OthersAway, Bounds DEF Filling
<1>3. j.inode = i /\ j.at \in Blocks /\ \A k \in Blocks : k < j.at => data[i][k] = j.id
  BY <1>1 DEF StorageInv, Progress, Filling
<1>4. data[i] \in [Blocks -> 0 .. MaxRequests] /\ j.id \in 0 .. MaxRequests
  <2>1. j.id \in 1 .. MaxRequests
    BY <1>1, JobFacts
  <2>2. j.id \in 0 .. MaxRequests
    BY <2>1
  <2>3. data[i] \in [Blocks -> 0 .. MaxRequests]
    BY <1>1, <1>2 DEF TypeOK
  <2> QED
    BY <2>2, <2>3
<1>5. [data[i] EXCEPT ![j.at] = j.id] = block
  BY <1>4
<1>6. block \in [Blocks -> 0 .. MaxRequests]
  BY <1>4
<1>7. data' = [data EXCEPT ![i] = block] /\ unsynced' = unsynced \union {i}
  BY <1>3, <1>5 DEF Fill
<1>8. UNCHANGED <<disk, log, tmp>> /\ Goto(w, x, pc)
  BY DEF Fill
<1>9. EntriesOK' /\ Stored' = Stored
  BY <1>1, <1>8, NoUpdate
<1>10. \A m \in Inodes \ {i} : data'[m] = data[m]
  BY <1>1, <1>7 DEF TypeOK
<1>11. \A k \in Blocks : data'[i][k] = IF k = j.at THEN j.id ELSE data[i][k]
  BY <1>1, <1>2, <1>7 DEF TypeOK
<1>12. data' \in [Inodes -> [Blocks -> 0 .. MaxRequests]]
  <2> HIDE DEF block
  <2> QED
    BY <1>1, <1>6, <1>7 DEF TypeOK
<1>13. /\ x \in Job /\ x.fid = j.fid /\ x.inode = j.inode /\ x.id = j.id
       /\ x.at = j.at + 1
  BY <1>1 DEF Job
<1>14. pc \in Steps /\ pc \in {"fill", "syncTmp"}
       /\ (j.at = 1 => pc = "fill") /\ (pc = "syncTmp" => j.at = 2)
  BY <1>3, Bounds DEF LastBlock, Steps
<1> HIDE DEF x, pc, block, i
<1>15. /\ job' \in [Workers -> Job \union {Idle}]
       /\ \A v \in Workers \ {w} : job'[v] = job[v]
       /\ job'[w].pc = pc /\ job'[w].fid = j.fid /\ job'[w].inode = i
       /\ job'[w].id = j.id /\ job'[w].at = j.at + 1
  BY <1>1, <1>3, <1>8, <1>13, <1>14, GotoJob
<1>16. TypeOK'
  BY <1>1, <1>2, <1>7, <1>8, <1>9, <1>12, <1>15
     DEF Fill, TypeOK, EntriesOK, Copies, locks, told, bounds
<1>17. Clean'
  <2> SUFFICES ASSUME NEW m \in (Stored \union {EmptyFile}) \ {Absent}
               PROVE  /\ \A k, n \in Blocks : data'[m][k] = data'[m][n]
                      /\ m \notin unsynced'
    BY <1>9 DEF Clean, Whole
  <2>1. m \in Inodes \ {i}
    BY <1>1, <1>2, LogFacts, Bounds DEF Copies
  <2> QED
    BY <1>7, <1>10, <2>1 DEF StorageInv, Whole
<1>18. OwnCopies'
  <2> SUFFICES ASSUME NEW t \in Fid \X Workers, tmp[t] # Absent
               PROVE  /\ job'[t[2]].pc \in Filling /\ job'[t[2]].fid = t[1]
                      /\ tmp[t] \notin Stored \union {EmptyFile}
                      /\ \A u \in Fid \X Workers : tmp[u] = tmp[t] => u = t
                      /\ \A v \in Workers : job'[v].pc = "readAt" => job'[v].inode # tmp[t]
    BY <1>8, <1>9 DEF OwnCopies
  <2>1. t[2] \in Workers
    OBVIOUS
  <2>2. t[2] = w => job'[t[2]].pc \in Filling /\ job'[t[2]].fid = t[1]
    BY <1>14, <1>15 DEF StorageInv, OwnCopies, Filling
  <2>3. t[2] # w => job'[t[2]].pc \in Filling /\ job'[t[2]].fid = t[1]
    BY <1>15, <2>1 DEF StorageInv, OwnCopies
  <2>4. \A v \in Workers : job'[v].pc = "readAt" => job'[v].inode # tmp[t]
    BY <1>14, <1>15 DEF StorageInv, OwnCopies
  <2> QED
    BY <2>2, <2>3, <2>4 DEF StorageInv, OwnCopies
<1>19. ASSUME NEW v \in Workers PROVE Progress(v)'
  <2>1. CASE v = w
    <3>1. pc = "fill" => j.at = 1
      BY <1>3, <1>14, Bounds DEF pc, LastBlock
    <3>2. j.at = 1 \/ j.at = 2
      BY <1>3, Bounds
    <3>3. /\ pc = "fill" => j.at + 1 \in Blocks
          /\ \A k \in Blocks : pc # "fill" \/ k < j.at + 1 => data'[i][k] = j.id
      BY <1>3, <1>11, <1>14, <3>1, <3>2, Bounds
    <3>4. /\ job'[v].inode = i /\ tmp'[<<job'[v].fid, v>>] = i /\ job'[v].id = j.id
          /\ job'[v].pc = pc /\ job'[v].at = j.at + 1
      BY <1>8, <1>15, <2>1 DEF i
    <3> QED
      BY <1>2, <1>14, <3>3, <3>4 DEF Progress, Filling
  <2>2. CASE v # w
    <3>1. job'[v] = job[v] /\ tmp' = tmp
      BY <1>8, <1>15, <2>2
    <3>2. CASE job[v].pc \in (Filling \ {"openTmp"}) \union {"readAt"}
      <4>1. job[v].inode # i
        BY <1>2, <2>2, <3>2
      <4>2. job[v].inode \in Inodes
        <5>1. CASE job[v].pc = "readAt"
          BY <5>1 DEF StorageInv, Progress
        <5>2. CASE job[v].pc \in Filling \ {"openTmp"}
          BY <5>2, MyCopy DEF StorageInv, Progress
        <5> QED
          BY <3>2, <5>1, <5>2
      <4>3. data'[job[v].inode] = data[job[v].inode]
        BY <1>10, <4>1, <4>2
      <4>4. job[v].inode \in unsynced' => job[v].inode \in unsynced
        BY <1>7, <4>1
      <4> QED
        BY <3>1, <4>3, <4>4 DEF StorageInv, Progress, Whole
    <3>3. CASE job[v].pc \notin (Filling \ {"openTmp"}) \union {"readAt"}
      BY <3>1, <3>3 DEF StorageInv, Progress, Filling
    <3> QED
      BY <3>2, <3>3
  <2> QED
    BY <2>1, <2>2
<1> QED
  BY <1>16, <1>17, <1>18, <1>19 DEF StorageInv, Clean

LEMMA ReplaceStep ==
  ASSUME StorageInv, NEW w \in Workers, Replace(w)
  PROVE  StorageInv'
<1> DEFINE j == job[w]
           t == <<j.fid, w>>
           i == tmp[t]
           e == <<j.dir, j.fid, Data>>
<1>1. TypeOK /\ EntriesOK /\ j \in Job /\ j.pc = "replace"
  BY Types DEF StorageInv, Replace, Steps
<1>2. /\ t \in Fid \X Workers /\ TmpName(j.fid, w) = t
      /\ i \in Inodes /\ i # Absent
      /\ \A u \in Fid \X Workers : tmp[u] = i => u = t
      /\ \A v \in Workers \ {w} :
            job[v].pc \in (Filling \ {"openTmp"}) \union {"readAt"} => job[v].inode # i
  BY <1>1, MyCopy, OthersAway, Bounds DEF Filling
<1>3. /\ j.inode = i /\ i \notin unsynced
      /\ \A k \in Blocks : data[i][k] = j.id
  BY <1>1 DEF StorageInv, Progress, Filling
<1>4. e \in Entries /\ j.fid \in Fid /\ j.id \in 0 .. MaxRequests
  <2>1. e \in Entries /\ j.fid \in Fid /\ j.id \in 1 .. MaxRequests
    BY <1>1, JobFacts
  <2> QED
    BY <2>1
<1>5. /\ Update(Set(e, i)) /\ tmp' = [tmp EXCEPT ![t] = Absent]
      /\ acked' = [acked EXCEPT ![j.fid] = IF OtherWriters(w) = {} THEN j.id ELSE 0]
      /\ UNCHANGED <<data, unsynced>> /\ Finish(w)
  BY <1>2 DEF Replace
<1>6. EntriesOK' /\ Stored' \subseteq Stored \union {i}
  BY <1>1, <1>2, <1>4, <1>5, SetKeeps DEF Copies
<1>7. /\ job' \in [Workers -> Job \union {Idle}]
      /\ \A v \in Workers \ {w} : job'[v] = job[v]
      /\ Elsewhere(job'[w])
  BY <1>1, <1>5, FinishStep
<1>8. /\ tmp' \in [Fid \X Workers -> {Absent} \union Inodes]
      /\ tmp'[t] = Absent /\ \A u \in (Fid \X Workers) \ {t} : tmp'[u] = tmp[u]
  BY <1>1, <1>2, <1>5 DEF TypeOK
<1>9. acked' \in [Fid -> 0 .. MaxRequests]
  BY <1>1, <1>4, <1>5, Bounds DEF TypeOK
<1> HIDE DEF i, t, e
<1>10. TypeOK'
  BY <1>1, <1>5, <1>6, <1>7, <1>8, <1>9
     DEF Replace, TypeOK, EntriesOK, Copies, locks, bounds
<1>11. Clean'
  <2> SUFFICES ASSUME NEW m \in (Stored' \union {EmptyFile}) \ {Absent}
               PROVE  (\A k, n \in Blocks : data[m][k] = data[m][n]) /\ m \notin unsynced
    BY <1>5 DEF Clean, Whole
  <2>1. CASE m = i
    BY <1>3, <2>1
  <2>2. CASE m # i
    BY <1>6, <2>2 DEF StorageInv, Whole
  <2> QED
    BY <2>1, <2>2
<1>12. OwnCopies'
  <2> SUFFICES ASSUME NEW s \in Fid \X Workers, tmp'[s] # Absent
               PROVE  /\ job'[s[2]].pc \in Filling /\ job'[s[2]].fid = s[1]
                      /\ tmp'[s] \notin Stored' \union {EmptyFile}
                      /\ \A u \in Fid \X Workers : tmp'[u] = tmp'[s] => u = s
                      /\ \A v \in Workers : job'[v].pc = "readAt" => job'[v].inode # tmp'[s]
    BY DEF OwnCopies
  <2>1. s # t /\ tmp'[s] = tmp[s] /\ tmp[s] # i
    BY <1>2, <1>8
  <2>2. s[2] \in Workers /\ job[s[2]].pc \in Filling /\ job[s[2]].fid = s[1]
    BY <2>1 DEF StorageInv, OwnCopies
  <2>3. s[2] # w
    BY <2>1, <2>2 DEF t
  <2>4. \A u \in Fid \X Workers : tmp'[u] = tmp'[s] => u = s
    BY <1>8, <2>1 DEF StorageInv, OwnCopies
  <2>5. \A v \in Workers : job'[v].pc = "readAt" => job'[v].inode # tmp'[s]
    BY <1>7, <2>1 DEF StorageInv, OwnCopies, Elsewhere
  <2>6. tmp'[s] \notin Stored' \union {EmptyFile}
    BY <1>6, <2>1 DEF StorageInv, OwnCopies
  <2> QED
    BY <1>7, <2>2, <2>3, <2>4, <2>5, <2>6
<1>13. ASSUME NEW v \in Workers PROVE Progress(v)'
  <2>1. CASE v = w
    BY <1>7, <2>1 DEF Progress, Elsewhere, Filling
  <2>2. CASE v # w
    <3>1. job'[v] = job[v]
      BY <1>7, <2>2
    <3>2. job[v].pc \in Filling => tmp'[<<job[v].fid, v>>] = tmp[<<job[v].fid, v>>]
      <4>1. job[v].pc \in Filling => <<job[v].fid, v>> \in Fid \X Workers
        BY MyCopy
      <4>2. <<job[v].fid, v>> # t
        BY <2>2 DEF t
      <4> QED
        BY <1>8, <4>1, <4>2
    <3> QED
      BY <1>5, <3>1, <3>2 DEF StorageInv, Progress, Whole, Filling
  <2> QED
    BY <2>1, <2>2
<1> QED
  BY <1>10, <1>11, <1>12, <1>13 DEF StorageInv, Clean

LEMMA CopyStep ==
  ASSUME StorageInv, NEW w \in Workers, Copy(w)
  PROVE  StorageInv'
<1> DEFINE j == job[w]
           t == <<j.fid, w>>
           from == View[<<j.dir, j.fid, Data>>]
           i == CHOOSE i \in FreeInodes : \A k \in FreeInodes : i <= k
<1>1. TypeOK /\ EntriesOK /\ j \in Job /\ j.pc = "copy" /\ j.at = 1
  BY Types DEF StorageInv, Copy, Steps, Progress
<1>2. EntriesOK' /\ Stored' = Stored
  BY <1>1, NoUpdate DEF Copy
<1>3. from \in Copies
  BY <1>1, JobFacts, ViewFacts
<1>4. CASE Finish(w) /\ UNCHANGED <<data, unsynced, tmp>>
  <2>1. /\ job' \in [Workers -> Job \union {Idle}]
        /\ \A v \in Workers \ {w} : job'[v] = job[v]
        /\ Elsewhere(job'[w])
    BY <1>1, <1>4, FinishStep
  <2> QED
    BY <1>1, <1>2, <1>4, <2>1, FrameStep
       DEF Copy, TypeOK, locks, told, bounds, Filling
<1>5. CASE from # Absent
  <2>1. t \in Fid \X Workers /\ TmpName(j.fid, w) = t
    BY <1>1, JobFacts DEF TmpName
  <2>2. tmp[t] = Absent
    BY <1>1, <2>1 DEF StorageInv, OwnCopies, Filling
  <2>3. FreeInodes # {} /\ FreeInodes \in SUBSET (1 .. MaxInode) /\ MaxInode \in Nat
    BY <1>5, <2>1, <2>2, Bounds DEF Copy, FreeInodes, Inodes
  <2>4. i \in FreeInodes
    <3>1. \E m \in FreeInodes : \A k \in FreeInodes : m <= k
      BY <2>3, SmallestExists
    <3> QED
      BY <3>1
  <2>5. /\ data' = [data EXCEPT ![i] = data[from]]
        /\ unsynced' = unsynced \union {i}
        /\ tmp' = [tmp EXCEPT ![t] = i]
        /\ Goto(w, j, "openTmp")
    BY <1>5, <2>1, <2>2 DEF Copy
  <2> HIDE DEF i, from, t
  <2>6. /\ i \in Inodes /\ i # Absent /\ i \notin Stored \union {EmptyFile}
        /\ \A u \in Fid \X Workers : tmp[u] # i
        /\ \A v \in Workers : job[v].pc # "idle" => job[v].inode # i
    BY <1>1, <2>4, Bounds DEF FreeInodes, InUse, TypeOK
  <2>7. from \in Inodes
    BY <1>3, <1>5 DEF Copies
  <2>8. /\ job' \in [Workers -> Job \union {Idle}]
        /\ \A v \in Workers \ {w} : job'[v] = job[v]
        /\ job'[w].pc = "openTmp" /\ job'[w].fid = j.fid /\ job'[w].at = 1
    BY <1>1, <2>5, GotoJob DEF Steps
  <2>9. /\ tmp' \in [Fid \X Workers -> {Absent} \union Inodes]
        /\ tmp'[t] = i /\ \A u \in (Fid \X Workers) \ {t} : tmp'[u] = tmp[u]
    BY <1>1, <2>1, <2>5, <2>6 DEF TypeOK
  <2>10. /\ data' \in [Inodes -> [Blocks -> 0 .. MaxRequests]]
         /\ \A m \in Inodes \ {i} : data'[m] = data[m]
    BY <1>1, <2>5, <2>6, <2>7 DEF TypeOK
  <2>11. TypeOK'
    BY <1>1, <1>2, <2>5, <2>6, <2>8, <2>9, <2>10
       DEF Copy, TypeOK, EntriesOK, Copies, locks, told, bounds
  <2>12. Clean'
    <3> SUFFICES ASSUME NEW m \in (Stored \union {EmptyFile}) \ {Absent}
                 PROVE  /\ \A k, n \in Blocks : data'[m][k] = data'[m][n]
                        /\ m \notin unsynced'
      BY <1>2 DEF Clean, Whole
    <3>1. m \in Inodes \ {i}
      BY <1>1, <2>6, LogFacts, Bounds DEF Copies
    <3> QED
      BY <2>5, <2>10, <3>1 DEF StorageInv, Whole
  <2>13. OwnCopies'
    <3> SUFFICES ASSUME NEW s \in Fid \X Workers, tmp'[s] # Absent
                 PROVE  /\ job'[s[2]].pc \in Filling /\ job'[s[2]].fid = s[1]
                        /\ tmp'[s] \notin Stored \union {EmptyFile}
                        /\ \A u \in Fid \X Workers : tmp'[u] = tmp'[s] => u = s
                        /\ \A v \in Workers : job'[v].pc = "readAt" => job'[v].inode # tmp'[s]
      BY <1>2 DEF OwnCopies
    <3>1. CASE s = t
      <4>1. s[1] = j.fid /\ s[2] = w
        BY <3>1 DEF t
      <4>2. \A u \in Fid \X Workers : tmp'[u] = i => u = t
        BY <2>6, <2>9
      <4>3. \A v \in Workers : job'[v].pc = "readAt" => job'[v].inode # i
        BY <2>6, <2>8
      <4> QED
        BY <2>6, <2>8, <2>9, <3>1, <4>1, <4>2, <4>3 DEF Filling
    <3>2. CASE s # t
      <4>1. tmp'[s] = tmp[s]
        BY <2>9, <3>2
      <4>2. s[2] \in Workers /\ job[s[2]].pc \in Filling /\ job[s[2]].fid = s[1]
        BY <4>1 DEF StorageInv, OwnCopies
      <4>3. s[2] # w
        BY <1>1, <4>2 DEF Filling
      <4>4. \A u \in Fid \X Workers : tmp'[u] = tmp'[s] => u = s
        BY <2>6, <2>9, <4>1 DEF StorageInv, OwnCopies
      <4>5. \A v \in Workers : job'[v].pc = "readAt" => job'[v].inode # tmp'[s]
        BY <2>8, <4>1 DEF StorageInv, OwnCopies
      <4>6. tmp'[s] \notin Stored \union {EmptyFile}
        BY <4>1 DEF StorageInv, OwnCopies
      <4> QED
        BY <2>8, <4>2, <4>3, <4>4, <4>5, <4>6
    <3> QED
      BY <3>1, <3>2
  <2>14. ASSUME NEW v \in Workers PROVE Progress(v)'
    <3>1. CASE v = w
      <4>1. tmp'[<<job'[v].fid, v>>] = i
        BY <2>8, <2>9, <3>1 DEF t
      <4> QED
        BY <2>6, <2>8, <3>1, <4>1 DEF Progress, Filling
    <3>2. CASE v # w
      <4>1. job'[v] = job[v]
        BY <2>8, <3>2
      <4>2. job[v].pc \in Filling => tmp'[<<job[v].fid, v>>] = tmp[<<job[v].fid, v>>]
        <5>1. job[v].pc \in Filling => <<job[v].fid, v>> \in Fid \X Workers
          BY MyCopy
        <5>2. <<job[v].fid, v>> # t
          BY <3>2 DEF t
        <5> QED
          BY <2>9, <5>1, <5>2
      <4>3. job[v].pc \in (Filling \ {"openTmp"}) \union {"readAt"} =>
              /\ data'[job[v].inode] = data[job[v].inode]
              /\ job[v].inode \in unsynced' => job[v].inode \in unsynced
        <5> SUFFICES ASSUME job[v].pc \in (Filling \ {"openTmp"}) \union {"readAt"}
                     PROVE  /\ data'[job[v].inode] = data[job[v].inode]
                            /\ job[v].inode \in unsynced' => job[v].inode \in unsynced
          OBVIOUS
        <5>1. job[v].inode # i
          BY <2>6 DEF Filling
        <5>2. job[v].inode \in Inodes
          <6>1. CASE job[v].pc = "readAt"
            BY <6>1 DEF StorageInv, Progress
          <6>2. CASE job[v].pc \in Filling \ {"openTmp"}
            BY <6>2, MyCopy DEF StorageInv, Progress
          <6> QED
            BY <6>1, <6>2
        <5> QED
          BY <2>5, <2>10, <5>1, <5>2
      <4> QED
        BY <4>1, <4>2, <4>3 DEF StorageInv, Progress, Whole, Filling
    <3> QED
      BY <3>1, <3>2
  <2> QED
    BY <2>11, <2>12, <2>13, <2>14 DEF StorageInv, Clean
<1> QED
  BY <1>4, <1>5 DEF Copy

-----------------------------------------------------------------------------
(* Failures.                                                               *)

\* After a restart nobody has a copy; what is stored decides.
LEMMA RestartStep ==
  ASSUME StorageInv, Restart, EntriesOK', Clean',
         data' \in [Inodes -> [Blocks -> 0 .. MaxRequests]], unsynced' \subseteq Inodes
  PROVE  StorageInv'
<1>1. TypeOK
  BY DEF StorageInv
<1>2. /\ tmp' = [t \in Fid \X Workers |-> Absent]
      /\ job' = [w \in Workers |-> Idle]
  BY DEF Restart
<1>3. TypeOK'
  BY <1>1, <1>2 DEF Restart, TypeOK, EntriesOK, Copies, told
<1>4. OwnCopies'
  BY <1>2 DEF OwnCopies
<1>5. ASSUME NEW w \in Workers PROVE Progress(w)'
  BY <1>2 DEF Progress, Idle, Filling
<1> QED
  BY <1>3, <1>4, <1>5 DEF StorageInv, Clean

LEMMA KillStep ==
  ASSUME StorageInv, Kill
  PROVE  StorageInv'
<1>1. TypeOK /\ EntriesOK /\ UNCHANGED <<disk, log, data, unsynced>> /\ Restart
  BY Types DEF StorageInv, Kill
<1>2. EntriesOK' /\ Stored' = Stored
  BY <1>1, NoUpdate
<1>3. Clean'
  BY <1>1, <1>2 DEF StorageInv, Clean, Whole
<1> QED
  BY <1>1, <1>2, <1>3, RestartStep DEF TypeOK

LEMMA PowerFailureStep ==
  ASSUME StorageInv, PowerFailure
  PROVE  StorageInv'
<1>1. TypeOK /\ EntriesOK /\ Restart /\ log' = <<>> /\ unsynced' = {}
  BY Types DEF StorageInv, PowerFailure
<1>2. PICK S \in SUBSET DOMAIN log : disk' = Applied(S)
  BY DEF PowerFailure, Survivors
<1>3. disk' \in [Entries -> Copies] /\ \A e \in Entries : disk'[e] \in Stored
  BY <1>1, <1>2, AppliedFacts
<1>4. EntriesOK'
  BY <1>1, <1>3 DEF EntriesOK
<1>5. Stored' \subseteq Stored
  BY <1>1, <1>3 DEF Stored
<1>6. PICK lost \in SUBSET (unsynced \X Blocks) :
         data' = [i \in Inodes |-> [k \in Blocks |->
                    IF <<i, k>> \in lost THEN 0 ELSE data[i][k]]]
  BY DEF PowerFailure
<1>7. data' \in [Inodes -> [Blocks -> 0 .. MaxRequests]]
  <2>1. \A i \in Inodes, k \in Blocks :
          (IF <<i, k>> \in lost THEN 0 ELSE data[i][k]) \in 0 .. MaxRequests
    BY <1>1, Bounds DEF TypeOK
  <2> QED
    BY <1>6, <2>1
<1>8. Clean'
  <2> SUFFICES ASSUME NEW m \in (Stored \union {EmptyFile}) \ {Absent}
               PROVE  \A k, n \in Blocks : data'[m][k] = data'[m][n]
    BY <1>1, <1>5 DEF Clean, Whole
  <2>1. m \in Inodes /\ m \notin unsynced
    BY <1>1, LogFacts, Bounds DEF StorageInv, Copies
  <2>2. \A k \in Blocks : data'[m][k] = data[m][k]
    BY <1>6, <2>1
  <2> QED
    BY <2>2 DEF StorageInv, Whole
<1> QED
  BY <1>1, <1>4, <1>7, <1>8, RestartStep

-----------------------------------------------------------------------------
(* The theorems.                                                           *)

LEMMA InitInvariant == Init => StorageInv
<1> SUFFICES ASSUME Init PROVE StorageInv
  OBVIOUS
<1>1. disk \in [Entries -> Copies] /\ \A e \in Entries : disk[e] \in {Absent, EmptyFile}
  BY Bounds DEF Init, InitDisk, Copies
<1>2. log = <<>> /\ DOMAIN log = {}
  BY DEF Init
<1>3. EntriesOK
  BY <1>1, <1>2 DEF EntriesOK
<1>4. Stored \subseteq {Absent, EmptyFile}
  BY <1>1, <1>2 DEF Stored
<1>5. data = [i \in Inodes |-> Blank] /\ unsynced = {}
  BY DEF Init
<1>6. Clean
  BY <1>4, <1>5, Bounds DEF Clean, Whole, Blank
<1>7. data \in [Inodes -> [Blocks -> 0 .. MaxRequests]]
  BY <1>5, Bounds DEF Blank
<1>8. /\ promised \union gone \subseteq Dirs \X Fid \X Names
      /\ live \subseteq Fid /\ nextFid \in Nat \ {0}
      /\ acked \in [Fid -> 0 .. MaxRequests]
  BY Bounds, StorageAssumption DEF Init, StorageAssumption
<1>9. /\ job = [w \in Workers |-> Idle]
      /\ tmp = [t \in Fid \X Workers |-> Absent]
  BY DEF Init
<1>10. TypeOK
  BY <1>3, <1>5, <1>7, <1>8, <1>9 DEF Init, TypeOK, EntriesOK, Copies
<1>11. OwnCopies
  BY <1>9 DEF OwnCopies
<1>12. ASSUME NEW w \in Workers PROVE Progress(w)
  BY <1>9 DEF Progress, Idle, Filling
<1> QED
  BY <1>6, <1>10, <1>11, <1>12 DEF StorageInv, Clean

LEMMA NextInvariant == StorageInv /\ [Next]_vars => StorageInv'
<1> SUFFICES ASSUME StorageInv, [Next]_vars PROVE StorageInv'
  OBVIOUS
<1>1. ASSUME NEW w \in Workers, Start(w) PROVE StorageInv'
  BY <1>1, StartStep
<1>2. ASSUME NEW w \in Workers, Linking(w) PROVE StorageInv'
  BY <1>2, ResolveStep, ClaimStep, MkNumberedStep, MkNamedStep, SyncStep,
     SetAttrStep, MoveStep, SyncMovedStep, DropOldStep DEF Linking
<1>3. ASSUME NEW w \in Workers, Unlinking(w) PROVE StorageInv'
  BY <1>3, UnlinkStep, SyncUnlinkedStep, DropNamedStep, SyncDroppedStep DEF Unlinking
<1>4. ASSUME NEW w \in Workers, Contents(w) PROVE StorageInv'
  BY <1>4, FindStep, CopyStep, OpenTmpStep, FillStep, SyncTmpStep, ReplaceStep,
     OpenStep, ReadAtStep DEF Contents
<1>5. CASE Kill
  BY <1>5, KillStep
<1>6. CASE PowerFailure
  BY <1>6, PowerFailureStep
<1>7. CASE UNCHANGED vars
  BY <1>7 DEF vars, volume, locks, told, bounds, StorageInv, TypeOK, Stored, Whole,
              OwnCopies, Progress
<1> QED
  BY <1>1, <1>2, <1>3, <1>4, <1>5, <1>6, <1>7 DEF Next

(* Whatever an entry has, or may have after a power failure, is a copy     *)
(* that was written to its end and synced before its rename (mod.rs:660-   *)
(* 688); the copies in tmp are their writers' own, by the names with the   *)
(* thread in them, and nobody reads them.                                  *)
THEOREM StorageInvariant == Spec => []StorageInv
<1>1. Init => StorageInv
  BY InitInvariant
<1>2. StorageInv /\ [Next]_vars => StorageInv'
  BY NextInvariant
<1> QED
  BY <1>1, <1>2, PTL DEF Spec

(* README, Crash Recovery: small writes are atomic.  No file and no read   *)
(* shows half of a write, whatever the writers, the renames and removals   *)
(* beside them, and the power failures.                                    *)
THEOREM WritesAreAtomic == Spec => []AtomicWrites
<1>1. StorageInv => AtomicWrites
  <2> SUFFICES ASSUME StorageInv PROVE AtomicWrites
    OBVIOUS
  <2>1. ASSUME NEW d \in Dirs, NEW f \in Fid, VisibleIn(d, f)
        PROVE  Whole(View[<<d, f, Data>>])
    <3>1. EntriesOK /\ <<d, f, Data>> \in Entries
      BY Types DEF StorageInv, Entries
    <3>2. View[<<d, f, Data>>] \in Stored
      BY <3>1, ViewFacts
    <3>3. View[<<d, f, Data>>] # Absent
      BY <2>1 DEF VisibleIn, Visible, Exists
    <3> QED
      BY <3>2, <3>3 DEF StorageInv
  <2>2. \A w \in Workers : job[w].pc = "readAt" => Whole(job[w].inode)
    BY DEF StorageInv, Progress
  <2> QED
    BY <2>1, <2>2 DEF AtomicWrites
<1> QED
  BY <1>1, StorageInvariant, PTL

-----------------------------------------------------------------------------
(* What system calls see: a sync changes nothing of it, an update changes  *)
(* its own entries.                                                        *)

\* What e is after the updates in S of lg, when it was x before.
Newest(x, lg, S, e) ==
    LET of == {i \in S : e \in DOMAIN lg[i]} IN
    IF of = {} THEN x ELSE lg[CHOOSE i \in of : \A j \in of : j <= i][e]

IsLast(lg, S, e, m) ==
    /\ m \in S /\ e \in DOMAIN lg[m]
    /\ \A i \in S : e \in DOMAIN lg[i] => i <= m

LEMMA NewestIsLast ==
  ASSUME NEW x, NEW lg, NEW S, \A i \in S : i \in Int, NEW e, NEW m,
         IsLast(lg, S, e, m)
  PROVE  Newest(x, lg, S, e) = lg[m][e]
<1> DEFINE of == {i \in S : e \in DOMAIN lg[i]}
<1>1. m \in of /\ \A j \in of : j <= m
  BY DEF IsLast
<1> DEFINE c == CHOOSE i \in of : \A j \in of : j <= i
<1>2. c \in of /\ \A j \in of : j <= c
  BY <1>1
<1>3. c \in Int /\ m \in Int /\ c <= m /\ m <= c
  BY <1>1, <1>2
<1>4. c = m
  BY <1>3
<1>5. Newest(x, lg, S, e) = lg[c][e]
  BY <1>1 DEF Newest
<1> QED
  BY <1>4, <1>5

LEMMA LastOrNone ==
  ASSUME NEW lg, NEW n \in Nat, NEW S \in SUBSET (1 .. n), NEW e
  PROVE  (\A i \in S : e \notin DOMAIN lg[i]) \/ \E m \in S : IsLast(lg, S, e, m)
<1> DEFINE of == {i \in S : e \in DOMAIN lg[i]}
<1>1. of \in SUBSET (1 .. n)
  OBVIOUS
<1>2. of = {} \/ \E m \in of : \A j \in of : j <= m
  <2> HIDE DEF of
  <2> QED
    BY <1>1, LargestExists
<1> QED
  BY <1>2 DEF IsLast

LEMMA NewestIsOld ==
  ASSUME NEW x, NEW lg, NEW S, NEW e, \A i \in S : e \notin DOMAIN lg[i]
  PROVE  Newest(x, lg, S, e) = x
  BY DEF Newest

LEMMA NewestOfSame ==
  ASSUME NEW x, NEW lg, NEW S, NEW T \in SUBSET S, NEW e,
         \A i \in S : e \in DOMAIN lg[i] => i \in T
  PROVE  Newest(x, lg, S, e) = Newest(x, lg, T, e)
<1> DEFINE A == {i \in S : e \in DOMAIN lg[i]}  B == {i \in T : e \in DOMAIN lg[i]}
<1>1. A = B
  OBVIOUS
<1>2. Newest(x, lg, S, e) =
        IF A = {} THEN x ELSE lg[CHOOSE i \in A : \A j \in A : j <= i][e]
  BY DEF Newest
<1>3. Newest(x, lg, T, e) =
        IF B = {} THEN x ELSE lg[CHOOSE i \in B : \A j \in B : j <= i][e]
  BY DEF Newest
<1> HIDE DEF A, B
<1> QED
  BY <1>1, <1>2, <1>3

LEMMA ViewIsNewest ==
  ASSUME NEW e \in Entries
  PROVE  View[e] = Newest(disk[e], log, DOMAIN log, e)
  BY DEF View, Applied, Newest

\* The log with one more update.
LEMMA LogGrows ==
  ASSUME EntriesOK, NEW u, Update(u)
  PROVE  /\ Len(log) \in Nat /\ DOMAIN log = 1 .. Len(log)
         /\ DOMAIN log' = 1 .. Len(log) + 1 /\ log'[Len(log) + 1] = u
         /\ \A i \in 1 .. Len(log) : log'[i] = log[i]
         /\ disk' = disk
<1>1. log \in Seq({log[i] : i \in DOMAIN log} \union {u})
  <2>1. log \in [1 .. Len(log) -> {log[i] : i \in DOMAIN log} \union {u}]
        /\ Len(log) \in Nat
    BY DEF EntriesOK
  <2> QED
    BY <2>1
<1> QED
  BY <1>1, LogFacts DEF Update

LEMMA ViewAfterUpdate ==
  ASSUME EntriesOK, NEW u, Update(u), NEW e \in Entries
  PROVE  View'[e] = IF e \in DOMAIN u THEN u[e] ELSE View[e]
<1> DEFINE n == Len(log)  D == 1 .. n  E == 1 .. n + 1
<1>1. /\ n \in Nat /\ DOMAIN log = D /\ DOMAIN log' = E /\ log'[n + 1] = u
      /\ (\A i \in D : log'[i] = log[i]) /\ disk' = disk
  BY LogGrows
<1>2. View[e] = Newest(disk[e], log, D, e)
  BY <1>1, ViewIsNewest
<1>3. View'[e] = Newest(disk[e], log', E, e)
  BY <1>1 DEF View, Applied, Newest
<1>4. CASE e \in DOMAIN u
  <2>1. IsLast(log', E, e, n + 1)
    BY <1>1, <1>4 DEF IsLast
  <2>4. \A i \in E : i \in Int
    BY <1>1
  <2>3. Newest(disk[e], log', E, e) = log'[n + 1][e]
    <3> HIDE DEF n, E
    <3> QED
      BY <2>1, <2>4, NewestIsLast
  <2> QED
    BY <1>1, <1>3, <1>4, <2>3
<1>5. CASE e \notin DOMAIN u
  <2>0. D \in SUBSET (1 .. n) /\ E \in SUBSET (1 .. n + 1) /\ n + 1 \in Nat
        /\ E = D \union {n + 1} /\ n + 1 \notin D
        /\ (\A i \in D : i \in Int) /\ \A i \in E : i \in Int
    BY <1>1
  <2>1. CASE \A i \in D : e \notin DOMAIN log[i]
    <3>1. \A i \in E : e \notin DOMAIN log'[i]
      BY <1>1, <1>5, <2>0, <2>1
    <3> HIDE DEF D, E, n
    <3>2. View[e] = disk[e]
      BY <1>2, <2>1, NewestIsOld
    <3>3. View'[e] = disk[e]
      BY <1>3, <3>1, NewestIsOld
    <3> QED
      BY <1>5, <3>2, <3>3
  <2>2. CASE \E m \in D : IsLast(log, D, e, m)
    <3>1. PICK m \in D : IsLast(log, D, e, m)
      BY <2>2
    <3>2. IsLast(log', E, e, m)
      BY <1>1, <1>5, <2>0, <3>1 DEF IsLast
    <3> HIDE DEF D, E, n
    <3>3. View[e] = log[m][e]
      BY <1>2, <2>0, <3>1, NewestIsLast
    <3>4. View'[e] = log'[m][e]
      BY <1>3, <2>0, <3>2, NewestIsLast
    <3> QED
      BY <1>1, <1>5, <3>1, <3>3, <3>4
  <2>3. (\A i \in D : e \notin DOMAIN log[i]) \/ \E m \in D : IsLast(log, D, e, m)
    <3> HIDE DEF D, E, n
    <3> QED
      BY <1>1, <2>0, LastOrNone
  <2> QED
    BY <2>1, <2>2, <2>3
<1> QED
  BY <1>4, <1>5

-----------------------------------------------------------------------------
(* A sync takes the updates of its directory, and what they depend on.     *)

LEMMA SyncedFacts ==
  ASSUME NEW d
  PROVE  /\ Synced(d) \in SUBSET DOMAIN log /\ UpdatesOf(d) \subseteq Synced(d)
         /\ InOrder(Synced(d))
<1>1. ASSUME NEW j \in Synced(d), NEW i \in DOMAIN log, i < j,
             DOMAIN log[i] \intersect DOMAIN log[j] # {}
      PROVE  i \in Synced(d)
  <2>1. ASSUME NEW S \in Survivors, UpdatesOf(d) \subseteq S PROVE i \in S
    BY <1>1, <2>1 DEF Synced, Survivors, InOrder
  <2> QED
    BY <2>1 DEF Synced
<1> QED
  BY <1>1 DEF Synced, UpdatesOf, InOrder

\* The updates that remain, in their order.
LEMMA WithoutOrder ==
  ASSUME EntriesOK, NEW S
  PROVE  LET rest == DOMAIN log \ S IN
         \A k \in DOMAIN Without(S) : \E i \in rest :
            Without(S)[k] = log[i] /\ Rank(rest, i) = k
<1> DEFINE rest == DOMAIN log \ S  c == Cardinality(rest)
<1>1. rest \in SUBSET (1 .. Len(log)) /\ Len(log) \in Nat
  BY LogFacts
<1>2. ASSUME NEW k \in 1 .. c
      PROVE  \E i \in rest : Without(S)[k] = log[i] /\ Rank(rest, i) = k
  <2>1. Without(S)[k] = log[CHOOSE i \in rest : Rank(rest, i) = k]
    BY DEF Without, Rank
  <2>2. \E i \in rest : Rank(rest, i) = k
    <3> HIDE DEF rest
    <3> QED
      BY <1>1, RankIsSurjective
  <2>3. PICK i : i = CHOOSE x \in rest : Rank(rest, x) = k
    OBVIOUS
  <2>4. i \in rest /\ Rank(rest, i) = k
    BY <2>2, <2>3
  <2> QED
    BY <2>1, <2>3, <2>4
<1>3. DOMAIN Without(S) = 1 .. c
  BY DEF Without
<1> QED
  BY <1>2, <1>3

LEMMA WithoutRest ==
  ASSUME EntriesOK, NEW S
  PROVE  \A k \in DOMAIN Without(S) : \E i \in DOMAIN log \ S : Without(S)[k] = log[i]
  BY WithoutOrder

LEMMA FsyncView ==
  ASSUME EntriesOK, NEW d, Fsync(d), NEW e \in Entries
  PROVE  View'[e] = View[e]
<1> DEFINE S == Synced(d)  D == DOMAIN log  rest == D \ S
           c == Cardinality(rest)  E == 1 .. c  n == Len(log)
<1>1. /\ disk' = Applied(S) /\ log' = Without(S) /\ S \in SUBSET D
      /\ D \in SUBSET (1 .. n) /\ n \in Nat /\ rest \in SUBSET (1 .. n)
  BY SyncedFacts, LogFacts DEF Fsync
<1>2. c \in Nat /\ DOMAIN log' = E /\ E \in SUBSET (1 .. c)
  BY <1>1, WithoutFacts
<1>3. \A k \in E : \E i \in rest : log'[k] = log[i] /\ Rank(rest, i) = k
  BY <1>1, <1>2, WithoutOrder
<1>4. \A i \in rest : Rank(rest, i) \in E
  <2> HIDE DEF n, rest
  <2> QED
    BY <1>1, RankType
<1>5. \A i \in rest : log'[Rank(rest, i)] = log[i]
  <2> SUFFICES ASSUME NEW i \in rest PROVE log'[Rank(rest, i)] = log[i]
    OBVIOUS
  <2>1. PICK h \in rest : log'[Rank(rest, i)] = log[h] /\ Rank(rest, h) = Rank(rest, i)
    BY <1>3, <1>4
  <2>2. h = i
    <3> HIDE DEF n, rest
    <3> QED
      BY <1>1, <2>1, RankIsInjective
  <2> QED
    BY <2>1, <2>2
<1>6. \A i, k \in rest : Rank(rest, i) <= Rank(rest, k) => i <= k
  <2> SUFFICES ASSUME NEW i \in rest, NEW k \in rest, Rank(rest, i) <= Rank(rest, k)
               PROVE  i <= k
    OBVIOUS
  <2>1. i \in Nat /\ k \in Nat
    BY <1>1
  <2>0. Rank(rest, i) \in E /\ Rank(rest, k) \in E
    BY <1>4
  <2>3. Rank(rest, i) \in Nat /\ Rank(rest, k) \in Nat
    <3> HIDE DEF rest, c
    <3> QED
      BY <1>2, <2>0
  <2>2. k < i => Rank(rest, k) < Rank(rest, i)
    <3> HIDE DEF n, rest
    <3> QED
      BY <1>1, RankGrows
  <2> HIDE DEF rest
  <2> QED
    BY <2>1, <2>2, <2>3
<1>7. InOrder(S)
  BY SyncedFacts
<1>8. View'[e] = Newest(disk'[e], log', E, e)
  BY <1>2 DEF View, Applied, Newest
<1>9. disk'[e] = Newest(disk[e], log, S, e)
  BY <1>1 DEF Applied, Newest
<1>10. View[e] = Newest(disk[e], log, D, e)
  BY ViewIsNewest
<1>14. (\A i \in D : i \in Int) /\ \A k \in E : k \in Int
  BY <1>1, <1>2
<1>11. CASE \A k \in E : e \notin DOMAIN log'[k]
  <2>1. View'[e] = disk'[e]
    <3> HIDE DEF E, c
    <3> QED
      BY <1>8, <1>11, NewestIsOld
  <2>2. \A i \in rest : e \notin DOMAIN log[i]
    BY <1>4, <1>5, <1>11
  <2>3. S \in SUBSET D /\ \A i \in D : e \in DOMAIN log[i] => i \in S
    BY <1>1, <2>2
  <2>4. Newest(disk[e], log, S, e) = Newest(disk[e], log, D, e)
    <3> HIDE DEF S, D
    <3> QED
      BY <2>3, NewestOfSame
  <2> QED
    BY <1>9, <1>10, <2>1, <2>4
<1>12. CASE \E m \in E : IsLast(log', E, e, m)
  <2>1. PICK m \in E : IsLast(log', E, e, m)
    BY <1>12
  <2>2. PICK r \in rest : log'[m] = log[r] /\ Rank(rest, r) = m
    BY <1>3
  <2>3. View'[e] = log'[m][e]
    <3> HIDE DEF E, c
    <3> QED
      BY <1>8, <1>14, <2>1, NewestIsLast
  <2>4. ASSUME NEW i \in D, e \in DOMAIN log[i] PROVE i <= r
    <3>1. e \in DOMAIN log[r] /\ r \in D /\ r \notin S /\ i \in Nat /\ r \in Nat
      BY <1>1, <2>1, <2>2 DEF IsLast
    <3>2. CASE i \in S
      <4>1. r < i => r \in S
        BY <1>7, <2>4, <3>1, <3>2 DEF InOrder
      <4> QED
        BY <3>1, <4>1
    <3>3. CASE i \in rest
      <4>1. Rank(rest, i) \in E /\ e \in DOMAIN log'[Rank(rest, i)]
        BY <1>4, <1>5, <2>4, <3>3
      <4>2. Rank(rest, i) <= Rank(rest, r)
        BY <2>1, <2>2, <4>1 DEF IsLast
      <4> QED
        BY <1>6, <3>3, <4>2
    <3> QED
      BY <3>2, <3>3
  <2>5. IsLast(log, D, e, r) /\ r \in D
    BY <2>1, <2>2, <2>4 DEF IsLast
  <2>6. View[e] = log[r][e]
    <3> HIDE DEF D, n
    <3> QED
      BY <1>10, <1>14, <2>5, NewestIsLast
  <2> QED
    BY <2>2, <2>3, <2>6
<1>13. (\A k \in E : e \notin DOMAIN log'[k]) \/ \E m \in E : IsLast(log', E, e, m)
  <2> HIDE DEF E, c
  <2> QED
    BY <1>2, LastOrNone
<1> QED
  BY <1>11, <1>12, <1>13

\* After a sync of its directory an entry is on stable storage as it is seen.
LEMMA FsyncSettles ==
  ASSUME EntriesOK, NEW d, Fsync(d), NEW e \in Entries, e[1] = d
  PROVE  disk'[e] = View[e] /\ \A k \in DOMAIN log' : e \notin DOMAIN log'[k]
<1>1. /\ Synced(d) \in SUBSET DOMAIN log /\ UpdatesOf(d) \subseteq Synced(d)
      /\ disk' = Applied(Synced(d)) /\ log' = Without(Synced(d))
  BY SyncedFacts DEF Fsync
<1>2. \A i \in DOMAIN log : e \in DOMAIN log[i] => i \in Synced(d)
  BY <1>1 DEF UpdatesOf
<1>3. disk'[e] = View[e]
  <2> DEFINE S == Synced(d)  D == DOMAIN log
  <2>1. disk'[e] = Newest(disk[e], log, S, e)
    BY <1>1 DEF Applied, Newest
  <2>2. S \in SUBSET D /\ \A i \in D : e \in DOMAIN log[i] => i \in S
    BY <1>1, <1>2
  <2>3. Newest(disk[e], log, S, e) = Newest(disk[e], log, D, e)
    <3> HIDE DEF S, D
    <3> QED
      BY <2>2, NewestOfSame
  <2> QED
    BY <2>1, <2>3, ViewIsNewest
<1>4. PICK S : S = Synced(d)
  OBVIOUS
<1>5. ASSUME NEW k \in DOMAIN log' PROVE e \notin DOMAIN log'[k]
  <2>1. \A m \in DOMAIN Without(S) : \E i \in DOMAIN log \ S : Without(S)[m] = log[i]
    BY WithoutRest
  <2>2. log' = Without(S)
    BY <1>1, <1>4
  <2>3. PICK i \in DOMAIN log \ S : log'[k] = log[i]
    BY <2>1, <2>2
  <2> QED
    BY <1>2, <1>4, <2>3
<1> QED
  BY <1>3, <1>5

-----------------------------------------------------------------------------
(* Hypotheses.                                                             *)

NoRenames == \A r \in Requests : r.op # "rename"

OneWorker == \A v, w \in Workers : v = w

\* The files to start from have FIDs that were issued, each in one directory.
TidyLinks ==
    /\ \A l \in InitLinks : l[2] < FirstFree
    /\ \A l, m \in InitLinks : l[2] = m[2] => l[1] = m[1]

\* What is written was there at the start.
WritesOld == \A r \in Requests : r.op = "write" => r.fid < FirstFree

-----------------------------------------------------------------------------
(* What an acknowledged write leaves.                                      *)

Renaming == {"syncLinked", "move", "syncMoved", "dropOld"}
Making == {"syncNumbered", "mkNamed", "syncNamed", "setAttr"}
Removing == {"unlink", "syncUnlinked", "dropNamed", "syncDropped"}
Writing == {"copy"} \union Filling

\* Which requests get to which steps, and where they are.
JobKind(j) ==
    /\ j.pc \in Renaming => j.req.op = "rename"
    /\ j.pc \in Writing => j.req.op = "write"
    /\ j.pc \in {"mkNumbered", "syncNumbered", "syncNamed", "setAttr"} => IsCreate(j)
    /\ j.pc \in {"claim", "mkNamed"} => j.req.op \in {"create", "rename"}
    /\ j.pc \in Removing => j.req.op = "remove" /\ j.dir = j.req.dir
    /\ j.pc = "resolve" => j.req.op \in {"remove", "rename"} /\ j.dir = j.req.dir
    /\ j.pc = "find" => j.req.op \in {"write", "read"}
    /\ j.pc \in {"open", "readAt"} => j.req.op = "read"
    /\ j.pc \in {"mkNumbered"} \union Making \union Renaming => j.dir = Target(j)[1]
    /\ j.pc # "idle" /\ j.req.op = "write" => j.fid = j.req.fid

\* The directories that have f, or that a write of f goes to.
Spots(f) ==
    {d \in Dirs : Exists(<<d, f, Data>>)}
    \union {job[w].dir : w \in {v \in Workers : job[v].pc \in Writing /\ job[v].fid = f}}

OneSpot ==
    \A f \in Fid : /\ \A c, d \in Spots(f) : c = d
                   /\ Spots(f) # {} => f < nextFid

\* The last write was acknowledged, and no other has started.
Settled(f) ==
    /\ f < nextFid
    /\ \A w \in Workers : job[w].pc # "idle" /\ job[w].req.op = "write" => job[w].fid # f
    /\ \A d \in Dirs : Exists(<<d, f, Data>>) =>
          \A k \in Blocks : data[View[<<d, f, Data>>]][k] = acked[f]

SeenInv ==
    /\ powerFailures \in Nat
    /\ \A w \in Workers : JobKind(job[w])
    /\ powerFailures = 0 => OneSpot /\ \A f \in Fid : acked[f] # 0 => Settled(f)

-----------------------------------------------------------------------------
(* What a step makes of the job of its worker.                             *)

\* The worker goes on with its request, at the step pc.
Same(w, pc) ==
    /\ job'[w].pc = pc /\ job'[w].req = job[w].req
    /\ job'[w].dir = job[w].dir /\ job'[w].fid = job[w].fid
    /\ job'[w].id = job[w].id

LEMMA GotoSame ==
  ASSUME TypeOK, NEW w \in Workers, job[w] \in Job, NEW pc \in Steps, Goto(w, job[w], pc)
  PROVE  Same(w, pc)
  BY GotoJob DEF Same

LEMMA StartJob ==
  ASSUME TypeOK, NEW w \in Workers, Start(w)
  PROVE  \E r \in Requests :
            /\ job'[w].pc = FirstStep[r.op] /\ job'[w].req = r
            /\ job'[w].dir = r.dir /\ job'[w].fid = r.fid
            /\ FirstStep[r.op] = IF r.op = "create" THEN "claim"
                                 ELSE IF r.op \in {"remove", "rename"} THEN "resolve"
                                 ELSE "find"
            /\ acked' = IF r.op = "write" THEN [acked EXCEPT ![r.fid] = 0] ELSE acked
<1>1. PICK r \in Requests :
         /\ job' = [job EXCEPT ![w] =
                   [pc |-> FirstStep[r.op], req |-> r, id |-> nreq', dir |-> r.dir,
                    fid |-> r.fid, inode |-> Absent, at |-> 1]]
         /\ acked' = IF r.op = "write" THEN [acked EXCEPT ![r.fid] = 0] ELSE acked
  BY DEF Start
<1>2. /\ job'[w].pc = FirstStep[r.op] /\ job'[w].req = r
      /\ job'[w].dir = r.dir /\ job'[w].fid = r.fid
  BY <1>1 DEF TypeOK
<1>3. FirstStep[r.op] = IF r.op = "create" THEN "claim"
                        ELSE IF r.op \in {"remove", "rename"} THEN "resolve" ELSE "find"
  BY RequestFacts DEF FirstStep
<1> QED
  BY <1>1, <1>2, <1>3

LEMMA ResolveJob ==
  ASSUME TypeOK, NEW w \in Workers, Resolve(w)
  PROVE  /\ job[w] \in Job /\ job[w].pc = "resolve"
         /\ \/ Finish(w)
            \/ /\ job'[w].pc = IF job[w].req.op = "remove" THEN "unlink" ELSE "claim"
               /\ job'[w].req = job[w].req /\ job'[w].dir = job[w].dir
               /\ job'[w].fid \in WithName(job[w].req.dir, job[w].req.name)
<1> DEFINE j == job[w]
<1>1. j \in Job /\ j.pc = "resolve"
  BY Types DEF Resolve, Steps
<1>2. ASSUME NEW f \in WithName(j.req.dir, j.req.name),
             Goto(w, [j EXCEPT !.fid = f],
                  IF j.req.op = "remove" THEN "unlink" ELSE "claim")
      PROVE  /\ job'[w].pc = IF job[w].req.op = "remove" THEN "unlink" ELSE "claim"
             /\ job'[w].req = j.req /\ job'[w].dir = j.dir /\ job'[w].fid = f
  <2> DEFINE x == [j EXCEPT !.fid = f]
             pc == IF j.req.op = "remove" THEN "unlink" ELSE "claim"
  <2>1. x \in Job /\ x.req = j.req /\ x.dir = j.dir /\ x.fid = f
    BY <1>1 DEF WithName, Job
  <2>2. pc \in Steps
    BY DEF Steps
  <2>3. Goto(w, x, pc)
    BY <1>2
  <2> HIDE DEF x, pc
  <2>4. /\ job'[w].pc = pc /\ job'[w].req = j.req
        /\ job'[w].dir = j.dir /\ job'[w].fid = f
    BY <2>1, <2>2, <2>3, GotoJob
  <2> QED
    BY <2>4 DEF pc
<1> QED
  BY <1>1, <1>2 DEF Resolve

LEMMA ClaimJob ==
  ASSUME TypeOK, NEW w \in Workers, Claim(w)
  PROVE  /\ job[w] \in Job /\ job[w].pc = "claim"
         /\ \/ Finish(w)
            \/ /\ job'[w].pc = IF IsCreate(job[w]) THEN "mkNumbered" ELSE "mkNamed"
               /\ job'[w].req = job[w].req /\ job'[w].fid = job[w].fid
               /\ job'[w].dir = Target(job[w])[1]
<1> DEFINE j == job[w]
<1>1. j \in Job /\ j.pc = "claim"
  BY Types DEF Claim, Steps
<1>2. ASSUME Goto(w, [j EXCEPT !.dir = Target(j)[1]],
                  IF IsCreate(j) THEN "mkNumbered" ELSE "mkNamed")
      PROVE  /\ job'[w].pc = IF IsCreate(j) THEN "mkNumbered" ELSE "mkNamed"
             /\ job'[w].req = j.req /\ job'[w].fid = j.fid
             /\ job'[w].dir = Target(j)[1]
  <2> DEFINE x == [j EXCEPT !.dir = Target(j)[1]]
             pc == IF IsCreate(j) THEN "mkNumbered" ELSE "mkNamed"
  <2>1. x \in Job /\ x.req = j.req /\ x.dir = Target(j)[1] /\ x.fid = j.fid
    BY <1>1, JobFacts DEF Job
  <2>2. pc \in Steps
    BY DEF Steps
  <2>3. Goto(w, x, pc)
    BY <1>2
  <2> HIDE DEF x, pc
  <2>4. /\ job'[w].pc = pc /\ job'[w].req = j.req /\ job'[w].fid = j.fid
        /\ job'[w].dir = Target(j)[1]
    BY <2>1, <2>2, <2>3, GotoJob
  <2> QED
    BY <2>4 DEF pc
<1> QED
  BY <1>1, <1>2 DEF Claim

LEMMA MkNumberedJob ==
  ASSUME TypeOK, NEW w \in Workers, MkNumbered(w)
  PROVE  /\ job[w] \in Job /\ job[w].pc = "mkNumbered" /\ nextFid \in Fid
         /\ job'[w].pc = "syncNumbered" /\ job'[w].req = job[w].req
         /\ job'[w].dir = job[w].dir /\ job'[w].fid = nextFid
<1> DEFINE j == job[w]
           x == [j EXCEPT !.fid = nextFid]
<1>1. j \in Job /\ j.pc = "mkNumbered" /\ nextFid \in Fid
  <2>1. nextFid \in Nat \ {0} /\ nextFid <= MaxFid /\ MaxFid \in Nat
    BY Bounds DEF MkNumbered, TypeOK
  <2>2. j \in Job /\ j.pc = "mkNumbered"
    BY Types DEF MkNumbered, Steps
  <2> QED
    BY <2>1, <2>2 DEF Fid
<1>2. x \in Job /\ x.req = j.req /\ x.dir = j.dir /\ x.fid = nextFid
  BY <1>1 DEF Job
<1>3. Goto(w, x, "syncNumbered") /\ "syncNumbered" \in Steps
  BY DEF MkNumbered, Steps
<1> HIDE DEF x
<1>4. /\ job'[w].pc = "syncNumbered" /\ job'[w].req = j.req /\ job'[w].dir = j.dir
      /\ job'[w].fid = nextFid
  BY <1>2, <1>3, GotoJob
<1> QED
  BY <1>1, <1>4

LEMMA LinkingJob ==
  ASSUME TypeOK, NEW w \in Workers
  PROVE  /\ MkNamed(w) => job[w] \in Job /\ Same(w, AfterMkNamed(job[w]))
         /\ Sync(w) =>
               /\ job[w] \in Job
               /\ \/ job[w].pc = "syncNumbered" /\ Same(w, "mkNamed")
                  \/ job[w].pc = "syncNamed" /\ Same(w, "setAttr")
                  \/ job[w].pc = "syncLinked" /\ Same(w, "move")
         /\ SetAttr(w) => job[w] \in Job /\ Finish(w)
         /\ Move(w) => job[w] \in Job /\ (Finish(w) \/ Same(w, "syncMoved"))
         /\ SyncMoved(w) => job[w] \in Job /\ Same(w, "dropOld")
         /\ DropOld(w) => job[w] \in Job /\ Finish(w)
<1> DEFINE j == job[w]
<1>0. j.pc \in Steps => j \in Job
  BY Types
<1>1. MkNamed(w) => j \in Job /\ Same(w, AfterMkNamed(j))
  BY <1>0, GotoSame DEF MkNamed, Steps, AfterMkNamed
<1>2. ASSUME Sync(w)
      PROVE  /\ j \in Job
             /\ \/ j.pc = "syncNumbered" /\ Same(w, "mkNamed")
                \/ j.pc = "syncNamed" /\ Same(w, "setAttr")
                \/ j.pc = "syncLinked" /\ Same(w, "move")
  <2>1. j \in Job /\ j.pc \in {"syncNumbered", "syncNamed", "syncLinked"}
    BY <1>0, <1>2 DEF Sync, AfterSync, Steps
  <2>2. AfterSync[j.pc] = IF j.pc = "syncNumbered" THEN "mkNamed"
                          ELSE IF j.pc = "syncNamed" THEN "setAttr" ELSE "move"
    BY <2>1 DEF AfterSync
  <2>3. Goto(w, j, AfterSync[j.pc]) /\ AfterSync[j.pc] \in Steps
    BY <1>2, <2>1, <2>2 DEF Sync, Steps
  <2> QED
    BY <2>1, <2>2, <2>3, GotoSame
<1>3. SetAttr(w) \/ DropOld(w) => j \in Job /\ Finish(w)
  BY <1>0 DEF SetAttr, DropOld, Steps
<1>4. Move(w) => j \in Job /\ (Finish(w) \/ Same(w, "syncMoved"))
  BY <1>0, GotoSame DEF Move, AfterMove, Steps
<1>5. SyncMoved(w) => j \in Job /\ Same(w, "dropOld")
  BY <1>0, GotoSame DEF SyncMoved, Steps
<1> QED
  BY <1>1, <1>2, <1>3, <1>4, <1>5

LEMMA UnlinkingJob ==
  ASSUME TypeOK, NEW w \in Workers
  PROVE  /\ Unlink(w) => job[w] \in Job /\ (Finish(w) \/ Same(w, "syncUnlinked"))
         /\ SyncUnlinked(w) => job[w] \in Job /\ Same(w, "dropNamed")
         /\ DropNamed(w) => job[w] \in Job /\ (Finish(w) \/ Same(w, "syncDropped"))
         /\ SyncDropped(w) => job[w] \in Job /\ Finish(w)
<1>0. job[w].pc \in Steps => job[w] \in Job
  BY Types
<1> QED
  BY <1>0, GotoSame DEF Unlink, SyncUnlinked, DropNamed, SyncDropped, Steps

LEMMA ContentsJob ==
  ASSUME TypeOK, NEW w \in Workers
  PROVE  /\ Find(w) =>
               /\ job[w] \in Job
               /\ \/ Finish(w)
                  \/ /\ job'[w].pc = AfterFind(job[w].req) /\ job'[w].req = job[w].req
                     /\ job'[w].fid = job[w].fid /\ job'[w].dir \in Dirs
                     /\ Exists(<<job'[w].dir, job[w].fid, Data>>)
         /\ Copy(w) => job[w] \in Job /\ (Finish(w) \/ Same(w, "openTmp"))
         /\ OpenTmp(w) => job[w] \in Job /\ (Finish(w) \/ Same(w, "fill"))
         /\ Fill(w) => job[w] \in Job /\ (Same(w, "fill") \/ Same(w, "syncTmp"))
         /\ SyncTmp(w) => job[w] \in Job /\ Same(w, "replace")
         /\ Replace(w) => job[w] \in Job /\ Finish(w)
         /\ Open(w) => job[w] \in Job /\ (Finish(w) \/ Same(w, "readAt"))
         /\ ReadAt(w) => job[w] \in Job /\ Finish(w)
<1> DEFINE j == job[w]
<1>0. j.pc \in Steps => j \in Job
  BY Types
<1>1. ASSUME Find(w)
      PROVE  /\ j \in Job
             /\ \/ Finish(w)
                \/ /\ job'[w].pc = AfterFind(j.req) /\ job'[w].req = j.req
                   /\ job'[w].fid = j.fid /\ job'[w].dir \in Dirs
                   /\ Exists(<<job'[w].dir, j.fid, Data>>)
  <2>1. j \in Job
    BY <1>0, <1>1 DEF Find, Steps
  <2>2. ASSUME NEW d \in Dirs, Goto(w, [j EXCEPT !.dir = d], AfterFind(j.req))
        PROVE  /\ job'[w].pc = AfterFind(j.req) /\ job'[w].req = j.req
               /\ job'[w].fid = j.fid /\ job'[w].dir = d
    <3> DEFINE x == [j EXCEPT !.dir = d]
    <3>1. x \in Job /\ x.req = j.req /\ x.fid = j.fid /\ x.dir = d
      BY <2>1 DEF Job
    <3>2. AfterFind(j.req) \in Steps /\ Goto(w, x, AfterFind(j.req))
      BY <2>2 DEF Steps, AfterFind
    <3> HIDE DEF x
    <3> QED
      BY <3>1, <3>2, GotoJob
  <2> QED
    BY <1>1, <2>1, <2>2 DEF Find
<1>2. Copy(w) => j \in Job /\ (Finish(w) \/ Same(w, "openTmp"))
  BY <1>0, GotoSame DEF Copy, Steps
<1>3. ASSUME NEW i \in Copies, NEW pc \in Steps, j \in Job,
             Goto(w, [j EXCEPT !.inode = i], pc)
      PROVE  Same(w, pc)
  <2> DEFINE x == [j EXCEPT !.inode = i]
  <2>1. /\ x \in Job /\ x.req = j.req /\ x.fid = j.fid /\ x.dir = j.dir
        /\ x.id = j.id
    BY <1>3 DEF Job, Copies
  <2>2. Goto(w, x, pc)
    BY <1>3
  <2> HIDE DEF x
  <2>3. /\ job'[w].pc = pc /\ job'[w].req = x.req /\ job'[w].fid = x.fid
        /\ job'[w].dir = x.dir /\ job'[w].id = x.id
    BY <2>1, <2>2, GotoJob
  <2> QED
    BY <2>1, <2>3 DEF Same
<1>4. ASSUME OpenTmp(w) PROVE j \in Job /\ (Finish(w) \/ Same(w, "fill"))
  <2>1. j \in Job /\ tmp[TmpName(j.fid, w)] \in Copies
    BY <1>0, <1>4, JobFacts DEF OpenTmp, Steps, TypeOK, TmpName, Copies
  <2>2. "fill" \in Steps
    BY DEF Steps
  <2> QED
    BY <1>3, <1>4, <2>1, <2>2 DEF OpenTmp
<1>5. ASSUME Fill(w) PROVE j \in Job /\ (Same(w, "fill") \/ Same(w, "syncTmp"))
  <2> DEFINE x == [j EXCEPT !.at = @ + 1]
             pc == IF j.at = LastBlock THEN "syncTmp" ELSE "fill"
  <2>1. j \in Job
    BY <1>0, <1>5 DEF Fill, Steps
  <2>2. /\ x \in Job /\ x.req = j.req /\ x.fid = j.fid /\ x.dir = j.dir
        /\ x.id = j.id
    BY <2>1 DEF Job
  <2>3. pc \in Steps /\ Goto(w, x, pc)
    BY <1>5 DEF Steps, Fill
  <2> HIDE DEF x
  <2>4. /\ job'[w].pc = pc /\ job'[w].req = x.req /\ job'[w].fid = x.fid
        /\ job'[w].dir = x.dir /\ job'[w].id = x.id
    <3> HIDE DEF pc
    <3> QED
      BY <2>2, <2>3, GotoJob
  <2> QED
    BY <2>1, <2>2, <2>4 DEF Same
<1>6. SyncTmp(w) => j \in Job /\ Same(w, "replace")
  BY <1>0, GotoSame DEF SyncTmp, Steps
<1>7. ASSUME Open(w) PROVE j \in Job /\ (Finish(w) \/ Same(w, "readAt"))
  <2>1. j \in Job
    BY <1>0, <1>7 DEF Open, Steps
  <2>2. View[<<j.dir, j.fid, Data>>] \in Copies /\ "readAt" \in Steps
    BY <2>1, Types, JobFacts, ViewFacts DEF Steps
  <2> QED
    BY <1>3, <1>7, <2>1, <2>2 DEF Open
<1>8. Replace(w) \/ ReadAt(w) => j \in Job /\ Finish(w)
  BY <1>0 DEF Replace, ReadAt, Steps
<1> QED
  BY <1>1, <1>2, <1>4, <1>5, <1>6, <1>7, <1>8

LEMMA OthersStay ==
  ASSUME TypeOK, NEW w \in Workers,
         Start(w) \/ Linking(w) \/ Unlinking(w) \/ Contents(w)
  PROVE  \A v \in Workers \ {w} : job'[v] = job[v]
<1>1. \A x, pc : Goto(w, x, pc) \/ Finish(w) => \A v \in Workers \ {w} : job'[v] = job[v]
  BY DEF Goto, Finish, TypeOK
<1>2. CASE Start(w)
  BY <1>2 DEF Start, TypeOK
<1>3. CASE Linking(w)
  BY <1>1, <1>3 DEF Linking, Resolve, Claim, MkNumbered, MkNamed, Sync, SetAttr,
     Move, SyncMoved, DropOld
<1>4. CASE Unlinking(w)
  BY <1>1, <1>4 DEF Unlinking, Unlink, SyncUnlinked, DropNamed, SyncDropped
<1>5. CASE Contents(w)
  BY <1>1, <1>5 DEF Contents, Find, Copy, OpenTmp, Fill, SyncTmp, Replace, Open, ReadAt
<1> QED
  BY <1>2, <1>3, <1>4, <1>5

LEMMA KindFinish ==
  ASSUME TypeOK, NEW w \in Workers, Finish(w)
  PROVE  JobKind(job'[w])
  BY FinishJob DEF JobKind, Renaming, Making, Removing, Writing, Filling

LEMMA KindSame ==
  ASSUME NEW w \in Workers, JobKind(job[w]), NEW pc, Same(w, pc),
         \/ job[w].pc \in Writing /\ pc \in Writing
         \/ job[w].pc \in {"syncNumbered", "syncNamed"} /\ pc \in Making
         \/ job[w].pc \in Removing /\ pc \in Removing
         \/ job[w].pc \in Renaming /\ pc \in Renaming
         \/ job[w].pc = "mkNamed" /\ pc = AfterMkNamed(job[w])
         \/ job[w].pc = "open" /\ pc = "readAt"
  PROVE  JobKind(job'[w])
<1>1. Target(job'[w]) = Target(job[w])
  BY DEF Target, IsCreate, Same
<1> QED
  BY <1>1 DEF Same, JobKind, Renaming, Making, Removing, Writing, Filling,
     AfterMkNamed, IsCreate

LEMMA KindKept ==
  ASSUME TypeOK, NEW w \in Workers, JobKind(job[w]),
         Start(w) \/ Linking(w) \/ Unlinking(w) \/ Contents(w)
  PROVE  JobKind(job'[w])
<1> DEFINE j == job[w]
<1>1. CASE Start(w)
  BY <1>1, StartJob, RequestFacts
     DEF JobKind, Renaming, Making, Removing, Writing, Filling
<1>2. CASE Resolve(w)
  BY <1>2, ResolveJob, KindFinish
     DEF JobKind, Renaming, Making, Removing, Writing, Filling
<1>3. CASE Claim(w)
  <2>1. job'[w].req = j.req => Target(job'[w]) = Target(j)
    BY DEF Target, IsCreate
  <2> QED
    BY <1>3, <2>1, ClaimJob, KindFinish
       DEF JobKind, Renaming, Making, Removing, Writing, Filling, IsCreate
<1>4. CASE MkNumbered(w)
  <2>1. job'[w].req = j.req => Target(job'[w]) = Target(j)
    BY DEF Target, IsCreate
  <2> QED
    BY <1>4, <2>1, MkNumberedJob
       DEF JobKind, Renaming, Making, Removing, Writing, Filling, IsCreate
<1>5. CASE MkNamed(w) \/ Sync(w) \/ SetAttr(w) \/ Move(w) \/ SyncMoved(w) \/ DropOld(w)
  BY <1>5, LinkingJob, KindSame, KindFinish
     DEF MkNamed, Move, SyncMoved, Making, Renaming
<1>6. CASE Unlinking(w)
  BY <1>6, UnlinkingJob, KindSame, KindFinish
     DEF Unlinking, Unlink, SyncUnlinked, DropNamed, Removing
<1>7. CASE Find(w)
  BY <1>7, ContentsJob, KindFinish
     DEF Find, AfterFind, JobKind, Renaming, Making, Removing, Writing, Filling
<1>8. CASE \/ Copy(w) \/ OpenTmp(w) \/ Fill(w) \/ SyncTmp(w) \/ Replace(w)
           \/ Open(w) \/ ReadAt(w)
  BY <1>8, ContentsJob, KindSame, KindFinish
     DEF Copy, OpenTmp, Fill, SyncTmp, Open, Writing, Filling
<1> QED
  BY <1>1, <1>2, <1>3, <1>4, <1>5, <1>6, <1>7, <1>8 DEF Linking, Contents

-----------------------------------------------------------------------------
(* An acknowledged write is seen.                                          *)

LEMMA SeenTypes ==
  ASSUME StorageInv
  PROVE  /\ TypeOK /\ EntriesOK /\ nextFid \in Nat \ {0}
         /\ \A d \in Dirs, f \in Fid : <<d, f, Data>> \in Entries
         /\ \A e \in Entries : View[e] \in Stored /\ View[e] \in Copies
         /\ \A e \in Entries : View[e] # Absent => View[e] \in Stored \ {Absent}
         /\ acked \in [Fid -> 0 .. MaxRequests]
<1>1. TypeOK /\ EntriesOK
  BY Types DEF StorageInv
<1> QED
  BY <1>1, ViewFacts DEF TypeOK, Entries

LEMMA SpotsAre ==
  ASSUME NEW f, NEW d
  PROVE  /\ d \in Spots(f) <=>
              \/ d \in Dirs /\ Exists(<<d, f, Data>>)
              \/ \E v \in Workers : /\ job[v].pc \in Writing /\ job[v].fid = f
                                    /\ job[v].dir = d
  BY DEF Spots

\* A step that moves no numbered file, and writes to nothing that is stored.
LEMMA SeenFrame ==
  ASSUME StorageInv, SeenInv, NEW w \in Workers, \A v \in Workers \ {w} : job'[v] = job[v],
         JobKind(job'[w]), UNCHANGED <<powerFailures, nextFid>>,
         \A e \in Entries : e[3] = Data => View'[e] \in {View[e], Absent},
         \A i \in Stored \ {Absent} : data'[i] = data[i],
         \A f \in Fid : acked'[f] \in {acked[f], 0},
         job'[w].pc \in Writing =>
            job'[w].fid \in Fid /\ job'[w].dir \in Spots(job'[w].fid),
         job'[w].pc # "idle" /\ job'[w].req.op = "write" =>
            \/ acked'[job'[w].fid] = 0
            \/ job[w].pc # "idle" /\ job[w].req.op = "write" /\ job[w].fid = job'[w].fid
  PROVE  SeenInv'
<1>1. \A d \in Dirs, f \in Fid :
         Exists(<<d, f, Data>>)' =>
            Exists(<<d, f, Data>>) /\ View'[<<d, f, Data>>] = View[<<d, f, Data>>]
            /\ View[<<d, f, Data>>] \in Stored \ {Absent}
  BY SeenTypes DEF Exists
<1>2. \A v \in Workers : JobKind(job'[v])
  BY DEF SeenInv
<1>3. ASSUME powerFailures = 0, NEW f \in Fid, NEW d, d \in Spots(f)'
      PROVE  d \in Spots(f)
  <2>1. CASE d \in Dirs /\ Exists(<<d, f, Data>>)'
    BY <1>1, <2>1, SpotsAre
  <2>2. CASE \E v \in Workers : /\ job'[v].pc \in Writing /\ job'[v].fid = f
                                /\ job'[v].dir = d
    <3>1. PICK v \in Workers : /\ job'[v].pc \in Writing /\ job'[v].fid = f
                               /\ job'[v].dir = d
      BY <2>2
    <3> QED
      BY <3>1, SpotsAre
  <2> QED
    BY <1>3, <2>1, <2>2 DEF Spots
<1>4. powerFailures = 0 => OneSpot'
  BY <1>3 DEF SeenInv, OneSpot
<1>5. ASSUME powerFailures = 0, NEW f \in Fid, acked'[f] # 0 PROVE Settled(f)'
  <2>1. acked'[f] = acked[f] /\ Settled(f)
    BY <1>5 DEF SeenInv
  <2>2. ASSUME NEW v \in Workers, job'[v].pc # "idle", job'[v].req.op = "write"
        PROVE  job'[v].fid # f
    BY <1>5, <2>1, <2>2 DEF Settled
  <2>3. ASSUME NEW d \in Dirs, Exists(<<d, f, Data>>)', NEW k \in Blocks
        PROVE  data'[View'[<<d, f, Data>>]][k] = acked'[f]
    BY <1>1, <2>1, <2>3 DEF Settled
  <2> QED
    BY <2>1, <2>2, <2>3 DEF Settled
<1> QED
  BY <1>2, <1>4, <1>5 DEF SeenInv

\* The same, of a step that does not start a write, and keeps what it has.
LEMMA SeenCalm ==
  ASSUME StorageInv, SeenInv, NEW w \in Workers,
         Start(w) \/ Linking(w) \/ Unlinking(w) \/ Contents(w),
         UNCHANGED <<powerFailures, nextFid, acked>>,
         \A e \in Entries : e[3] = Data => View'[e] \in {View[e], Absent},
         \A i \in Stored \ {Absent} : data'[i] = data[i],
         \/ job'[w].pc = "idle"
         \/ job'[w].req = job[w].req /\ job[w].req.op # "write"
         \/ \E pc : job[w] \in Job /\ Same(w, pc) /\ job[w].pc \in Writing
  PROVE  SeenInv'
<1>1. TypeOK /\ JobKind(job[w])
  BY SeenTypes DEF SeenInv
<1>2. JobKind(job'[w]) /\ \A v \in Workers \ {w} : job'[v] = job[v]
  BY <1>1, KindKept, OthersStay
<1>3. job'[w].pc \in Writing => job'[w].pc # "idle" /\ job'[w].req.op = "write"
  BY <1>2 DEF JobKind, Writing, Filling
<1>4. CASE job'[w].pc = "idle"
  BY <1>2, <1>3, <1>4, SeenFrame
<1>5. CASE job'[w].req = job[w].req /\ job[w].req.op # "write"
  BY <1>2, <1>3, <1>5, SeenFrame
<1>6. CASE job[w] \in Job /\ job[w].pc \in Writing /\ \E pc : Same(w, pc)
  <2>1. /\ job'[w].req = job[w].req /\ job'[w].dir = job[w].dir
        /\ job'[w].fid = job[w].fid /\ job[w].req.op = "write"
        /\ job[w].pc # "idle" /\ job[w].fid \in Fid
    BY <1>1, <1>6, JobFacts DEF Same, JobKind, Writing, Filling
  <2>2. job'[w].dir \in Spots(job'[w].fid)
    BY <1>6, <2>1, SpotsAre
  <2> QED
    BY <1>2, <2>1, <2>2, SeenFrame
<1> QED
  BY <1>4, <1>5, <1>6

LEMMA ViewUnchanged ==
  ASSUME UNCHANGED <<disk, log>>
  PROVE  View' = View
  BY DEF View, Applied

LEMMA ViewSet ==
  ASSUME EntriesOK, NEW e, NEW i, Update(Set(e, i))
  PROVE  \A x \in Entries : View'[x] = IF x = e THEN i ELSE View[x]
  BY ViewAfterUpdate DEF Set

LEMMA SeenStart ==
  ASSUME StorageInv, SeenInv, NEW w \in Workers, Start(w)
  PROVE  SeenInv'
<1>1. TypeOK /\ JobKind(job[w]) /\ acked \in [Fid -> 0 .. MaxRequests]
  BY SeenTypes DEF SeenInv
<1>2. JobKind(job'[w]) /\ \A v \in Workers \ {w} : job'[v] = job[v]
  BY <1>1, KindKept, OthersStay
<1>3. PICK r \in Requests :
         /\ job'[w].pc = FirstStep[r.op] /\ job'[w].req = r /\ job'[w].fid = r.fid
         /\ FirstStep[r.op] = IF r.op = "create" THEN "claim"
                              ELSE IF r.op \in {"remove", "rename"} THEN "resolve"
                              ELSE "find"
         /\ acked' = IF r.op = "write" THEN [acked EXCEPT ![r.fid] = 0] ELSE acked
  BY <1>1, StartJob
<1>4. UNCHANGED <<powerFailures, nextFid, data>> /\ View' = View
  BY ViewUnchanged DEF Start, volume
<1>5. /\ \A f \in Fid : acked'[f] \in {acked[f], 0}
      /\ job'[w].req.op = "write" => acked'[job'[w].fid] = 0
  BY <1>1, <1>3, RequestFacts
<1>6. job'[w].pc \notin Writing
  BY <1>3 DEF Writing, Filling
<1> QED
  BY <1>2, <1>4, <1>5, <1>6, SeenFrame

LEMMA SeenLinking ==
  ASSUME StorageInv, SeenInv, NEW w \in Workers, Linking(w), ~MkNumbered(w), ~Move(w)
  PROVE  SeenInv'
<1>1. TypeOK /\ EntriesOK /\ JobKind(job[w])
  BY SeenTypes DEF SeenInv
<1>2. UNCHANGED <<powerFailures, nextFid, acked, data>>
  BY DEF Linking, Resolve, Claim, MkNamed, Sync, SetAttr, SyncMoved, DropOld,
         volume, locks, told, bounds
<1>3. \/ job'[w].pc = "idle"
      \/ job'[w].req = job[w].req /\ job[w].req.op # "write"
  BY <1>1, ResolveJob, ClaimJob, LinkingJob, FinishJob
     DEF Linking, JobKind, Same, MkNamed, Sync, AfterSync, SyncMoved, Making, Renaming,
         IsCreate
<1>4. \A e \in Entries : e[3] = Data => View'[e] = View[e]
  <2>1. CASE Resolve(w) \/ Claim(w) \/ SetAttr(w)
    BY <2>1, ViewUnchanged DEF Resolve, Claim, SetAttr, volume
  <2>2. CASE MkNamed(w)
    <3>1. job[w] \in Job /\ Update(Set(NewLink(job[w]), EmptyFile))
      BY <1>1, <2>2, LinkingJob DEF MkNamed
    <3>2. NewLink(job[w])[3] # Data
      BY <3>1, JobFacts, StorageAssumption DEF StorageAssumption, NewLink
    <3> QED
      BY <1>1, <3>1, <3>2, ViewSet
  <2>3. CASE Sync(w) \/ SyncMoved(w)
    <3>1. Fsync(job[w].dir)
      BY <2>3 DEF Sync, SyncMoved
    <3> QED
      BY <1>1, <3>1, FsyncView
  <2>4. CASE DropOld(w)
    <3>1. UNCHANGED <<disk, log>> \/ Update(Set(OldLink(job[w]), Absent))
      BY <2>4 DEF DropOld
    <3>2. OldLink(job[w])[3] # Data
      BY <1>1, <2>4, LinkingJob, JobFacts, RequestFacts, StorageAssumption
         DEF StorageAssumption, OldLink
    <3> QED
      BY <1>1, <3>1, <3>2, ViewSet, ViewUnchanged
  <2> QED
    BY <2>1, <2>2, <2>3, <2>4 DEF Linking
<1> QED
  BY <1>2, <1>3, <1>4, SeenCalm

LEMMA SeenUnlinking ==
  ASSUME StorageInv, SeenInv, NEW w \in Workers, Unlinking(w)
  PROVE  SeenInv'
<1>1. TypeOK /\ EntriesOK /\ JobKind(job[w])
  BY SeenTypes DEF SeenInv
<1>2. UNCHANGED <<powerFailures, nextFid, acked, data>>
  BY DEF Unlinking, Unlink, SyncUnlinked, DropNamed, SyncDropped, told, bounds
<1>3. \/ job'[w].pc = "idle"
      \/ job'[w].req = job[w].req /\ job[w].req.op # "write"
  BY <1>1, UnlinkingJob, FinishJob
     DEF Unlinking, JobKind, Same, Unlink, SyncUnlinked, DropNamed, Removing
<1>4. \A e \in Entries : View'[e] \in {View[e], Absent}
  <2>1. CASE Unlink(w) \/ DropNamed(w)
    <3>1. \/ UNCHANGED <<disk, log>>
          \/ \E e : Update(Set(e, Absent))
      BY <2>1 DEF Unlink, DropNamed
    <3> QED
      BY <1>1, <3>1, ViewSet, ViewUnchanged
  <2>2. CASE SyncUnlinked(w) \/ SyncDropped(w)
    <3>1. Fsync(job[w].dir)
      BY <2>2 DEF SyncUnlinked, SyncDropped
    <3> QED
      BY <1>1, <3>1, FsyncView
  <2> QED
    BY <2>1, <2>2 DEF Unlinking
<1> QED
  BY <1>2, <1>3, <1>4, SeenCalm

\* What a writer writes to is in no directory.
LEMMA SeenContents ==
  ASSUME StorageInv, SeenInv, NEW w \in Workers, Contents(w), ~Find(w), ~Replace(w)
  PROVE  SeenInv'
<1>1. TypeOK /\ EntriesOK /\ JobKind(job[w]) /\ Stored \subseteq Copies
  BY SeenTypes, LogFacts DEF SeenInv
<1>2. UNCHANGED <<powerFailures, nextFid, acked, disk, log>>
  BY DEF Contents, Copy, OpenTmp, Fill, SyncTmp, Open, ReadAt,
         volume, locks, told, bounds
<1>3. \/ job'[w].pc = "idle"
      \/ job'[w].req = job[w].req /\ job[w].req.op # "write"
      \/ \E pc : job[w] \in Job /\ Same(w, pc) /\ job[w].pc \in Writing
  <2>1. CASE Copy(w) \/ OpenTmp(w) \/ Fill(w) \/ SyncTmp(w)
    <3>1. job[w].pc \in Writing
      BY <2>1 DEF Copy, OpenTmp, Fill, SyncTmp, Writing, Filling
    <3> QED
      BY <1>1, <2>1, <3>1, ContentsJob, FinishJob
  <2>2. CASE Open(w) \/ ReadAt(w)
    BY <1>1, <2>2, ContentsJob, FinishJob DEF JobKind, Same, Open, ReadAt
  <2> QED
    BY <2>1, <2>2 DEF Contents
<1>4. \A i \in Stored \ {Absent} : data'[i] = data[i]
  <2>1. CASE Copy(w)
    <3>1. PICK i : /\ i \notin Stored
                   /\ \/ data' = data
                      \/ \E x : data' = [data EXCEPT ![i] = x]
      <4> DEFINE t == TmpName(job[w].fid, w)
                 i == IF tmp[t] # Absent THEN tmp[t]
                      ELSE CHOOSE m \in FreeInodes : \A k \in FreeInodes : m <= k
      <4>1. \/ data' = data
            \/ /\ tmp[t] = Absent => FreeInodes # {}
               /\ data' = [data EXCEPT ![i] = data[View[<<job[w].dir, job[w].fid, Data>>]]]
        BY <2>1 DEF Copy
      <4>2. t \in Fid \X Workers
        BY <1>1, <2>1, ContentsJob, JobFacts DEF TmpName
      <4>3. CASE tmp[t] # Absent
        <5>1. tmp[t] \notin Stored
          BY <4>2, <4>3 DEF StorageInv, OwnCopies
        <5> QED
          BY <4>1, <4>3, <5>1
      <4>4. CASE tmp[t] = Absent /\ FreeInodes # {}
        <5>1. FreeInodes \in SUBSET (1 .. MaxInode) /\ MaxInode \in Nat
          BY Bounds DEF FreeInodes, Inodes
        <5>2. \E m \in FreeInodes : \A k \in FreeInodes : m <= k
          BY <4>4, <5>1, SmallestExists
        <5>3. PICK m : m = CHOOSE n \in FreeInodes : \A k \in FreeInodes : n <= k
          OBVIOUS
        <5>4. m \in FreeInodes
          BY <5>2, <5>3
        <5>5. m \notin Stored
          BY <5>4 DEF FreeInodes, InUse
        <5>6. i = m
          BY <4>4, <5>3
        <5> HIDE DEF i
        <5> QED
          BY <4>1, <5>5, <5>6
      <4>5. CASE data' = data
        <5>1. MaxInode + 1 \notin Stored
          BY <1>1, Bounds DEF Copies, Inodes, Absent
        <5> QED
          BY <4>5, <5>1
      <4> QED
        BY <4>1, <4>3, <4>4, <4>5
    <3> QED
      BY <1>1, <3>1, Bounds DEF TypeOK, Copies
  <2>2. CASE Fill(w)
    <3>1. /\ job[w].inode = tmp[<<job[w].fid, w>>]
          /\ tmp[<<job[w].fid, w>>] \notin Stored
      BY <2>2, MyCopy DEF Fill, Filling, StorageInv, Progress
    <3>2. data' = [data EXCEPT ![job[w].inode][job[w].at] = job[w].id]
      BY <2>2 DEF Fill
    <3> QED
      BY <1>1, <3>1, <3>2, Bounds DEF TypeOK, Copies
  <2>3. CASE OpenTmp(w) \/ SyncTmp(w) \/ Open(w) \/ ReadAt(w)
    BY <2>3 DEF OpenTmp, SyncTmp, Open, ReadAt, volume
  <2> QED
    BY <2>1, <2>2, <2>3 DEF Contents
<1>5. View' = View
  BY <1>2, ViewUnchanged
<1> QED
  BY <1>2, <1>3, <1>4, <1>5, SeenCalm

LEMMA SeenFind ==
  ASSUME StorageInv, SeenInv, NEW w \in Workers, Find(w)
  PROVE  SeenInv'
<1>1. TypeOK /\ JobKind(job[w]) /\ job[w] \in Job /\ job[w].pc = "find"
  BY SeenTypes, ContentsJob DEF SeenInv, Find
<1>2. JobKind(job'[w]) /\ \A v \in Workers \ {w} : job'[v] = job[v]
  BY <1>1, KindKept, OthersStay DEF Contents
<1>3. UNCHANGED <<powerFailures, nextFid, acked, data, disk, log>>
  BY DEF Find, volume, told, bounds
<1>4. View' = View
  BY <1>3, ViewUnchanged
<1>5. CASE Finish(w)
  <2>1. job'[w].pc = "idle"
    BY <1>1, <1>5, FinishJob
  <2> QED
    BY <1>2, <1>3, <1>4, <2>1, SeenFrame DEF Writing, Filling
<1>6. CASE /\ job'[w].req = job[w].req /\ job'[w].fid = job[w].fid
           /\ job'[w].dir \in Dirs /\ Exists(<<job'[w].dir, job[w].fid, Data>>)
  <2>1. job'[w].fid \in Fid /\ job'[w].dir \in Spots(job'[w].fid)
    BY <1>1, <1>6, JobFacts, SpotsAre
  <2> QED
    BY <1>1, <1>2, <1>3, <1>4, <1>6, <2>1, SeenFrame
<1> QED
  BY <1>1, <1>5, <1>6, ContentsJob

LEMMA SeenMkNumbered ==
  ASSUME StorageInv, SeenInv, NEW w \in Workers, MkNumbered(w)
  PROVE  SeenInv'
<1> DEFINE j == job[w]  e == <<j.dir, nextFid, Data>>
<1>1. TypeOK /\ EntriesOK /\ JobKind(j) /\ nextFid \in Nat
  BY SeenTypes DEF SeenInv
<1>2. JobKind(job'[w]) /\ \A v \in Workers \ {w} : job'[v] = job[v]
  BY <1>1, KindKept, OthersStay DEF Linking
<1>3. /\ UNCHANGED <<powerFailures, acked, data>> /\ nextFid' = nextFid + 1
      /\ job'[w].pc = "syncNumbered" /\ nextFid \in Fid
      /\ job'[w].req = j.req /\ IsCreate(j)
  BY <1>1, MkNumberedJob DEF MkNumbered, told, bounds, JobKind
<1>4. \A x \in Entries : View'[x] = IF x = e THEN EmptyFile ELSE View[x]
  BY <1>1, ViewSet DEF MkNumbered
<1>5. \A f \in Fid \ {nextFid}, d \in Dirs : View'[<<d, f, Data>>] = View[<<d, f, Data>>]
  BY <1>4, SeenTypes
<1>6. job'[w].pc \notin Writing
  BY <1>3 DEF Writing, Filling
<1>7. \A f \in Fid \ {nextFid} : Spots(f)' \subseteq Spots(f)
  BY <1>2, <1>5, <1>6 DEF Spots, Exists
<1>8. ASSUME powerFailures = 0 PROVE OneSpot'
  <2> SUFFICES ASSUME NEW f \in Fid
               PROVE  /\ \A c, d \in Spots(f)' : c = d
                      /\ Spots(f)' # {} => f < nextFid'
    BY DEF OneSpot
  <2>1. CASE f # nextFid
    BY <1>1, <1>3, <1>7, <1>8, <2>1 DEF SeenInv, OneSpot, Fid
  <2>2. CASE f = nextFid
    <3>1. Spots(f) = {}
      BY <1>1, <1>8, <2>2 DEF SeenInv, OneSpot
    <3>2. \A d \in Dirs : d # j.dir => View'[<<d, f, Data>>] = Absent
      BY <1>3, <1>4, <2>2, <3>1, SeenTypes, SpotsAre DEF Exists
    <3>3. \A v \in Workers : ~(job'[v].pc \in Writing /\ job'[v].fid = f)
      BY <1>2, <1>6, <3>1, SpotsAre
    <3>4. Spots(f)' \subseteq {j.dir}
      BY <3>2, <3>3 DEF Spots, Exists
    <3> QED
      BY <1>1, <1>3, <2>2, <3>4
  <2> QED
    BY <2>1, <2>2
<1>9. ASSUME powerFailures = 0, NEW f \in Fid, acked[f] # 0 PROVE Settled(f)'
  <2>1. Settled(f) /\ f < nextFid
    BY <1>9 DEF SeenInv, Settled
  <2>2. f \in Fid \ {nextFid} /\ f < nextFid'
    BY <1>1, <1>3, <2>1 DEF Fid
  <2>3. \A v \in Workers : job'[v].pc # "idle" /\ job'[v].req.op = "write" => job'[v].fid # f
    BY <1>2, <1>3, <2>1 DEF Settled, IsCreate
  <2> QED
    BY <1>3, <1>5, <2>1, <2>2, <2>3 DEF Settled, Exists
<1> QED
  BY <1>2, <1>3, <1>8, <1>9 DEF SeenInv

\* Nobody writes while the only worker renames.
LEMMA SeenMove ==
  ASSUME NoRenames \/ OneWorker, StorageInv, SeenInv, NEW w \in Workers, Move(w)
  PROVE  SeenInv'
<1> DEFINE j == job[w]
           old == <<j.req.dir, j.fid, Data>>
           new == <<j.dir, j.fid, Data>>
<1>1. TypeOK /\ EntriesOK /\ JobKind(j) /\ j \in Job /\ j.pc = "move"
  BY SeenTypes, LinkingJob DEF SeenInv, Move
<1>2. JobKind(job'[w]) /\ \A v \in Workers \ {w} : job'[v] = job[v]
  BY <1>1, KindKept, OthersStay DEF Linking
<1>3. \A v \in Workers : v = w
  BY <1>1, JobFacts DEF JobKind, Renaming, NoRenames, OneWorker
<1>4. UNCHANGED <<powerFailures, nextFid, acked, data>>
  BY DEF Move, bounds
<1>5. job'[w].pc = "idle" \/ (job'[w].req = j.req /\ j.req.op # "write")
  BY <1>1, LinkingJob, FinishJob DEF JobKind, Renaming, Same
<1>6. CASE UNCHANGED <<disk, log>>
  <2>1. View' = View
    BY <1>6, ViewUnchanged
  <2> QED
    BY <1>4, <1>5, <2>1, SeenCalm DEF Linking
<1>7. CASE old # new /\ Exists(old) /\ Update(MovedEntries(old, new))
  <2>1. old \in Entries /\ new \in Entries /\ j.fid \in Fid
        /\ j.req.dir \in Dirs /\ j.dir \in Dirs
    BY <1>1, JobFacts, RequestFacts
  <2>2. \A x \in Entries : View'[x] = IF x = new THEN View[old]
                                      ELSE IF x = old THEN Absent ELSE View[x]
    <3>1. ASSUME NEW x \in Entries
          PROVE  View'[x] = IF x \in DOMAIN MovedEntries(old, new)
                            THEN MovedEntries(old, new)[x] ELSE View[x]
      BY <1>1, <1>7, ViewAfterUpdate
    <3>2. /\ DOMAIN MovedEntries(old, new) = {old, new}
          /\ MovedEntries(old, new)[new] = View[old]
          /\ old # new => MovedEntries(old, new)[old] = Absent
      BY DEF MovedEntries
    <3> QED
      BY <1>7, <3>1, <3>2
  <2>3. \A f \in Fid \ {j.fid}, d \in Dirs : View'[<<d, f, Data>>] = View[<<d, f, Data>>]
    BY <2>2, SeenTypes
  <2>4. job'[w].pc \notin Writing /\ job[w].pc \notin Writing
    BY <1>1, <1>5, <1>2 DEF Writing, Filling, JobKind
  <2>5. ASSUME powerFailures = 0, NEW d \in Dirs, View'[<<d, j.fid, Data>>] # Absent
        PROVE  d = j.dir /\ View'[<<d, j.fid, Data>>] = View[old]
    <3>1. d # j.dir => Exists(<<d, j.fid, Data>>) /\ d # j.req.dir
      BY <2>1, <2>2, <2>5, SeenTypes DEF Exists
    <3>2. d # j.dir => d \in Spots(j.fid) /\ j.req.dir \in Spots(j.fid)
      BY <1>7, <2>1, <3>1, SpotsAre
    <3>3. d = j.dir
      BY <2>1, <2>5, <3>1, <3>2 DEF SeenInv, OneSpot
    <3> QED
      BY <2>1, <2>2, <3>3
  <2>6. \A f \in Fid \ {j.fid} : Spots(f)' \subseteq Spots(f)
    BY <1>3, <2>3, <2>4 DEF Spots, Exists
  <2>7. ASSUME powerFailures = 0, NEW f \in Fid, f = j.fid, NEW d \in Spots(f)'
        PROVE  d = j.dir
    <3>1. \A v \in Workers : job'[v].pc \notin Writing
      BY <1>3, <2>4
    <3>2. d \in Dirs /\ View'[<<d, f, Data>>] # Absent
      BY <2>7, <3>1 DEF Spots, Exists
    <3> QED
      BY <2>5, <2>7, <3>2
  <2>8. powerFailures = 0 => j.fid < nextFid
    <3>1. j.req.dir \in Spots(j.fid)
      BY <1>7, <2>1, SpotsAre
    <3> QED
      BY <2>1, <3>1 DEF SeenInv, OneSpot
  <2>9. powerFailures = 0 => OneSpot'
    <3> SUFFICES ASSUME powerFailures = 0, NEW f \in Fid
                 PROVE  /\ \A c, d \in Spots(f)' : c = d
                        /\ Spots(f)' # {} => f < nextFid
      BY <1>4 DEF OneSpot
    <3>1. CASE f = j.fid
      BY <2>7, <2>8, <3>1
    <3>2. CASE f # j.fid
      BY <2>6, <3>2 DEF SeenInv, OneSpot
    <3> QED
      BY <3>1, <3>2
  <2>10. ASSUME powerFailures = 0, NEW f \in Fid, acked[f] # 0 PROVE Settled(f)'
    <3>1. Settled(f)
      BY <2>10 DEF SeenInv
    <3>2. \A v \in Workers :
             job'[v].pc # "idle" /\ job'[v].req.op = "write" => job'[v].fid # f
      BY <1>3, <1>5
    <3>3. ASSUME NEW d \in Dirs, Exists(<<d, f, Data>>)', NEW k \in Blocks
          PROVE  data[View'[<<d, f, Data>>]][k] = acked[f]
      <4>1. CASE f = j.fid
        <5>1. View'[<<d, f, Data>>] = View[old]
          BY <2>5, <2>10, <3>3, <4>1 DEF Exists
        <5> QED
          BY <1>7, <2>1, <3>1, <4>1, <5>1 DEF Settled
      <4>2. CASE f # j.fid
        BY <2>3, <3>1, <3>3, <4>2 DEF Settled, Exists
      <4> QED
        BY <4>1, <4>2
    <3> QED
      BY <1>4, <3>1, <3>2, <3>3 DEF Settled
  <2> QED
    BY <1>2, <1>3, <1>4, <2>9, <2>10 DEF SeenInv
<1> QED
  BY <1>6, <1>7 DEF Move

LEMMA SeenReplace ==
  ASSUME StorageInv, SeenInv, NEW w \in Workers, Replace(w)
  PROVE  SeenInv'
<1> DEFINE j == job[w]
           e == <<j.dir, j.fid, Data>>
           i == tmp[<<j.fid, w>>]
<1>1. TypeOK /\ EntriesOK /\ JobKind(j) /\ j \in Job /\ j.pc = "replace"
      /\ acked \in [Fid -> 0 .. MaxRequests]
  BY SeenTypes, ContentsJob DEF SeenInv, Replace
<1>2. JobKind(job'[w]) /\ \A v \in Workers \ {w} : job'[v] = job[v]
  BY <1>1, KindKept, OthersStay DEF Contents
<1>3. job'[w].pc = "idle"
  BY <1>1, ContentsJob, FinishJob
<1>4. /\ i # Absent /\ TmpName(j.fid, w) = <<j.fid, w>>
      /\ \A k \in Blocks : data[i][k] = j.id
  BY <1>1, MyCopy DEF StorageInv, Progress, Filling
<1>5. /\ Update(Set(e, i)) /\ UNCHANGED <<data, nextFid, powerFailures>>
      /\ acked' = [acked EXCEPT ![j.fid] = IF OtherWriters(w) = {} THEN j.id ELSE 0]
  BY <1>4 DEF Replace, bounds
<1> HIDE DEF i
<1>6. e \in Entries /\ j.fid \in Fid /\ j.dir \in Dirs
  BY <1>1, JobFacts
<1>7. \A x \in Entries : View'[x] = IF x = e THEN i ELSE View[x]
  BY <1>1, <1>5, ViewSet
<1>8. \A f \in Fid, d \in Dirs : f # j.fid \/ d # j.dir =>
         View'[<<d, f, Data>>] = View[<<d, f, Data>>]
  BY <1>7, SeenTypes
<1>9. j.dir \in Spots(j.fid)
  BY <1>1, SpotsAre DEF Writing, Filling
<1>10. \A f \in Fid : Spots(f)' \subseteq Spots(f)
  <2> SUFFICES ASSUME NEW f \in Fid, NEW d \in Spots(f)' PROVE d \in Spots(f)
    OBVIOUS
  <2>1. CASE d \in Dirs /\ Exists(<<d, f, Data>>)'
    BY <1>8, <1>9, <2>1, SpotsAre DEF Exists
  <2>2. CASE \E v \in Workers : /\ job'[v].pc \in Writing /\ job'[v].fid = f
                                /\ job'[v].dir = d
    <3>1. PICK v \in Workers : /\ job'[v].pc \in Writing /\ job'[v].fid = f
                               /\ job'[v].dir = d
      BY <2>2
    <3>2. v # w
      BY <1>3, <3>1 DEF Writing, Filling
    <3> QED
      BY <1>2, <3>1, <3>2, SpotsAre
  <2> QED
    BY <2>1, <2>2 DEF Spots
<1>11. powerFailures = 0 => OneSpot'
  BY <1>5, <1>10 DEF SeenInv, OneSpot
<1>12. ASSUME powerFailures = 0, NEW f \in Fid, acked'[f] # 0 PROVE Settled(f)'
  <2>1. CASE f # j.fid
    <3>1. acked'[f] = acked[f] /\ Settled(f)
      BY <1>1, <1>5, <1>6, <1>12, <2>1 DEF SeenInv
    <3> QED
      BY <1>2, <1>3, <1>5, <1>8, <2>1, <3>1 DEF Settled, Exists
  <2>2. CASE f = j.fid
    <3>1. acked'[f] = j.id /\ OtherWriters(w) = {}
      BY <1>1, <1>5, <1>12, <2>2
    <3>2. f < nextFid
      BY <1>9, <1>12, <2>2 DEF SeenInv, OneSpot
    <3>3. \A v \in Workers :
             job'[v].pc # "idle" /\ job'[v].req.op = "write" => job'[v].fid # f
      BY <1>2, <1>3, <2>2, <3>1 DEF OtherWriters
    <3>4. ASSUME NEW d \in Dirs, Exists(<<d, f, Data>>)', NEW k \in Blocks
          PROVE  data[View'[<<d, f, Data>>]][k] = acked'[f]
      <4>1. d = j.dir
        <5>1. d # j.dir => d \in Spots(f)
          BY <1>8, <3>4, SpotsAre DEF Exists
        <5> QED
          BY <1>9, <1>12, <2>2, <5>1 DEF SeenInv, OneSpot
      <4> QED
        BY <1>4, <1>6, <1>7, <2>2, <3>1, <4>1
    <3> QED
      BY <1>5, <3>2, <3>3, <3>4 DEF Settled
  <2> QED
    BY <2>1, <2>2
<1> QED
  BY <1>2, <1>5, <1>11, <1>12 DEF SeenInv

LEMMA SeenFailures ==
  ASSUME StorageInv, SeenInv, Kill \/ PowerFailure
  PROVE  SeenInv'
<1>1. job' = [w \in Workers |-> Idle] /\ UNCHANGED <<nextFid, acked>>
  BY DEF Kill, PowerFailure, Restart, told
<1>2. \A w \in Workers : job'[w].pc = "idle" /\ JobKind(job'[w])
  BY <1>1 DEF Idle, JobKind, Renaming, Making, Removing, Writing, Filling
<1>3. CASE Kill
  <2>1. UNCHANGED <<data, powerFailures>> /\ View' = View
    BY <1>3, ViewUnchanged DEF Kill
  <2>2. \A f \in Fid : Spots(f)' \subseteq Spots(f)
    BY <1>2, <2>1 DEF Spots, Exists, Writing, Filling
  <2>3. powerFailures = 0 => OneSpot'
    BY <1>1, <2>1, <2>2 DEF SeenInv, OneSpot
  <2>4. \A f \in Fid : Settled(f) => Settled(f)'
    BY <1>1, <1>2, <2>1 DEF Settled, Exists
  <2> QED
    BY <1>1, <1>2, <2>1, <2>3, <2>4 DEF SeenInv
<1>4. CASE PowerFailure
  <2>1. powerFailures' \in Nat /\ powerFailures' # 0
    BY <1>4 DEF PowerFailure, SeenInv
  <2> QED
    BY <1>2, <2>1 DEF SeenInv
<1> QED
  BY <1>3, <1>4

LEMMA InitEntries ==
  ASSUME Init, NEW e \in Entries
  PROVE  /\ View[e] = disk[e]
         /\ disk[e] # Absent =>
              \E l \in InitLinks : l = e \/ <<l[1], l[2], Data>> = e
  BY DEF Init, InitDisk, View, Applied

LEMMA SeenInit ==
  ASSUME TidyLinks, Init
  PROVE  SeenInv
<1>1. \A w \in Workers : job[w].pc = "idle" /\ JobKind(job[w])
  BY DEF Init, Idle, JobKind, Renaming, Making, Removing, Writing, Filling
<1>2. ASSUME NEW f \in Fid, NEW d \in Spots(f)
      PROVE  \E l \in InitLinks : l[1] = d /\ l[2] = f
  <2>1. d \in Dirs /\ Exists(<<d, f, Data>>)
    BY <1>1 DEF Spots, Writing, Filling
  <2>2. <<d, f, Data>> \in Entries
    BY <2>1 DEF Entries
  <2>3. PICK l \in InitLinks : l = <<d, f, Data>> \/ <<l[1], l[2], Data>> = <<d, f, Data>>
    BY <2>1, <2>2, InitEntries DEF Exists
  <2> QED
    BY <2>3
<1>3. OneSpot
  BY <1>2 DEF OneSpot, TidyLinks, Init
<1>4. powerFailures = 0 /\ \A f \in Fid : acked[f] = 0
  BY DEF Init
<1> QED
  BY <1>1, <1>3, <1>4 DEF SeenInv

LEMMA SeenNext ==
  ASSUME NoRenames \/ OneWorker, StorageInv, SeenInv, [Next]_vars
  PROVE  SeenInv'
<1>1. ASSUME NEW w \in Workers, Start(w) \/ Linking(w) \/ Unlinking(w) \/ Contents(w)
      PROVE  SeenInv'
  BY <1>1, SeenStart, SeenLinking, SeenMkNumbered, SeenMove, SeenUnlinking,
     SeenContents, SeenFind, SeenReplace
<1>2. CASE Kill \/ PowerFailure
  BY <1>2, SeenFailures
<1>3. CASE UNCHANGED vars
  <2>1. UNCHANGED <<powerFailures, nextFid, acked, data, job>> /\ View' = View
    BY <1>3, ViewUnchanged DEF vars, volume, told, bounds
  <2>2. \A f \in Fid : Spots(f)' = Spots(f) /\ Settled(f)' = Settled(f)
    BY <2>1 DEF Spots, Exists, Settled
  <2> QED
    BY <2>1, <2>2 DEF SeenInv, OneSpot
<1> QED
  BY <1>1, <1>2, <1>3 DEF Next

(* Without power failures, a file holds the write that was acknowledged    *)
(* last, until the next one starts: rename(2) puts the copy where the file *)
(* was found (mod.rs:688, 1293), and the file is still there unless it was *)
(* removed, if nothing is renamed or nothing runs beside the write.        *)
THEOREM WritesAreSeen ==
  ASSUME NoRenames \/ OneWorker, TidyLinks
  PROVE  Spec => []WritesSeen
<1>1. Init => SeenInv
  BY SeenInit
<1>2. StorageInv /\ SeenInv /\ [Next]_vars => SeenInv'
  BY SeenNext
<1>3. StorageInv /\ SeenInv => WritesSeen
  BY DEF SeenInv, Settled, WritesSeen, Holds, VisibleIn, Visible
<1> QED
  BY <1>1, <1>2, <1>3, StorageInvariant, PTL DEF Spec

-----------------------------------------------------------------------------
(* What power failures leave, when nothing is renamed.                     *)

\* e is, or may be after a power failure.
Ever(e) ==
    \/ disk[e] # Absent
    \/ \E i \in DOMAIN log : e \in DOMAIN log[i] /\ log[i][e] # Absent

\* Nothing was done to e.
Never(e) == disk[e] = Absent /\ \A i \in DOMAIN log : e \notin DOMAIN log[i]

NoneTakesAway(e) == \A i \in DOMAIN log : e \in DOMAIN log[i] => log[i][e] # Absent

\* e is, and will be after any power failure.
Firm(e) == disk[e] # Absent /\ NoneTakesAway(e)

\* e is, and will be after a sync of its directory.
Put(e) == View[e] # Absent /\ NoneTakesAway(e)

\* A file that has no name yet, and is its maker's alone.
Unnamed == {"syncNumbered", "mkNamed"}

GoneJob(w) ==
    LET j == job[w] IN
    /\ JobKind(j)
    /\ j.pc \in Making \union Removing \union Writing => j.fid < nextFid
    /\ j.pc \in Unnamed =>
          /\ \A e \in Entries : e[2] = j.fid /\ e[3] # Data => Never(e)
          /\ \A l \in gone : l[2] # j.fid
          /\ \A v \in Workers : \/ job[v].pc \in Removing
                                \/ job[v].pc \in Making /\ v # w
                                => job[v].fid # j.fid
    /\ j.pc = "syncDropped" => View[OldLink(j)] = Absent

GoneInv ==
    /\ \A e \in Entries : Never(e) \/ e[2] < nextFid
    /\ \A l \in gone : l[2] < nextFid /\ ~Ever(l)
    /\ \A w \in Workers : GoneJob(w)

\* The directories that have, or may have, f, and those where it is expected.
Places(f) ==
    {d \in Dirs : Ever(<<d, f, Data>>)}
    \union {job[w].dir : w \in {v \in Workers : /\ job[v].pc \in Making \union Writing
                                                /\ job[v].fid = f}}

OnePlace == \A f \in Fid : \A c, d \in Places(f) : c = d

DataOf(j) == <<j.dir, j.fid, Data>>

\* What nobody was promised; a write may put back one that was there at first.
Dead(f) ==
    /\ f \notin live
    /\ f >= FirstFree => \A d \in Dirs : View[<<d, f, Data>>] = Absent

LiveJob(w) ==
    LET j == job[w] IN
    /\ j.pc \in Making => j.fid >= FirstFree /\ j.fid \notin live
    /\ j.pc = "syncNumbered" => Put(DataOf(j))
    /\ j.pc = "mkNamed" => Firm(DataOf(j))
    /\ j.pc = "syncNamed" => \/ View[DataOf(j)] = Absent
                             \/ Firm(DataOf(j)) /\ Put(NewLink(j))
    /\ j.pc = "setAttr" => \/ View[DataOf(j)] = Absent
                           \/ Firm(DataOf(j)) /\ Firm(NewLink(j))
    /\ j.pc \in Removing \ {"unlink"} => Dead(j.fid)

LiveInv ==
    /\ OnePlace /\ nextFid >= FirstFree
    /\ \A l \in promised : l[2] \in live /\ Firm(<<l[1], l[2], Data>>) /\ Firm(l)
    /\ \A f \in live : f < nextFid /\ \E l \in promised : l[2] = f
    /\ \A v, w \in Workers : /\ job[v].pc \in Making /\ job[w].pc \in Making
                             /\ job[v].fid = job[w].fid
                             => v = w
    /\ \A w \in Workers : LiveJob(w)

\* What is on stable storage, and what is still to come, was there before.
Fewer ==
    /\ \A e \in Entries : \/ disk'[e] = disk[e]
                          \/ \E i \in DOMAIN log : /\ e \in DOMAIN log[i]
                                                   /\ disk'[e] = log[i][e]
    /\ \A k \in DOMAIN log' : \E i \in DOMAIN log : log'[k] = log[i]

LEMMA AppliedIsSome ==
  ASSUME EntriesOK, NEW S \in SUBSET DOMAIN log, NEW e \in Entries
  PROVE  \/ Applied(S)[e] = disk[e]
         \/ \E i \in DOMAIN log : e \in DOMAIN log[i] /\ Applied(S)[e] = log[i][e]
<1> DEFINE n == Len(log)
<1>1. S \in SUBSET (1 .. n) /\ n \in Nat /\ \A i \in S : i \in Int /\ i \in DOMAIN log
  BY LogFacts
<1>2. Applied(S)[e] = Newest(disk[e], log, S, e)
  BY DEF Applied, Newest
<1> HIDE DEF n
<1>3. CASE \A i \in S : e \notin DOMAIN log[i]
  BY <1>2, <1>3, NewestIsOld
<1>4. CASE \E m \in S : IsLast(log, S, e, m)
  <2>1. PICK m \in S : IsLast(log, S, e, m)
    BY <1>4
  <2>2. Newest(disk[e], log, S, e) = log[m][e]
    BY <1>1, <2>1, NewestIsLast
  <2> QED
    BY <1>1, <1>2, <2>1, <2>2 DEF IsLast
<1> QED
  BY <1>1, <1>3, <1>4, LastOrNone

LEMMA FsyncFewer ==
  ASSUME EntriesOK, NEW d, Fsync(d)
  PROVE  Fewer
<1>1. /\ Synced(d) \in SUBSET DOMAIN log
      /\ disk' = Applied(Synced(d)) /\ log' = Without(Synced(d))
  BY SyncedFacts DEF Fsync
<1>2. \A k \in DOMAIN log' : \E i \in DOMAIN log : log'[k] = log[i]
  BY <1>1, WithoutFacts
<1> QED
  BY <1>1, <1>2, AppliedIsSome DEF Fewer

LEMMA PowerFewer ==
  ASSUME EntriesOK, PowerFailure
  PROVE  Fewer
<1>1. PICK S \in SUBSET DOMAIN log : disk' = Applied(S)
  BY DEF PowerFailure, Survivors
<1>2. log' = <<>>
  BY DEF PowerFailure
<1> QED
  BY <1>1, <1>2, AppliedIsSome DEF Fewer

LEMMA FewerKeeps ==
  ASSUME Fewer, NEW e \in Entries
  PROVE  /\ Ever(e)' => Ever(e)
         /\ Never(e) => Never(e)'
         /\ NoneTakesAway(e) => NoneTakesAway(e)'
         /\ Firm(e) => Firm(e)'
<1>1. Ever(e)' => Ever(e)
  BY DEF Fewer, Ever
<1>2. Never(e) => Never(e)'
  BY DEF Fewer, Never
<1>3. NoneTakesAway(e) => NoneTakesAway(e)'
  BY DEF Fewer, NoneTakesAway
<1>4. Firm(e) => Firm(e)'
  BY <1>3 DEF Fewer, Firm, NoneTakesAway
<1> QED
  BY <1>1, <1>2, <1>3, <1>4

LEMMA SetKeepsEver ==
  ASSUME EntriesOK, NEW x, NEW i, Update(Set(x, i)), NEW e \in Entries
  PROVE  /\ Ever(e)' => Ever(e) \/ (e = x /\ i # Absent)
         /\ Never(e) /\ e # x => Never(e)'
         /\ NoneTakesAway(e) /\ (e # x \/ i # Absent) => NoneTakesAway(e)'
         /\ Firm(e) /\ (e # x \/ i # Absent) => Firm(e)'
         /\ Put(e) /\ (e # x \/ i # Absent) => Put(e)'
         /\ Never(e) /\ i # Absent /\ e = x => Put(e)'
<1> DEFINE n == Len(log)
<1>1. /\ n \in Nat /\ DOMAIN log = 1 .. n /\ DOMAIN log' = 1 .. n + 1
      /\ log'[n + 1] = Set(x, i) /\ (\A k \in 1 .. n : log'[k] = log[k])
      /\ disk' = disk
  BY LogGrows
<1>2. DOMAIN Set(x, i) = {x} /\ Set(x, i)[x] = i
  BY DEF Set
<1> HIDE DEF n
<1>3. \A k \in DOMAIN log' : \/ k \in DOMAIN log /\ log'[k] = log[k]
                             \/ DOMAIN log'[k] = {x} /\ log'[k][x] = i
  BY <1>1, <1>2
<1>4. View'[e] = IF e = x THEN i ELSE View[e]
  BY ViewSet
<1>5. NoneTakesAway(e) /\ (e # x \/ i # Absent) => NoneTakesAway(e)'
  BY <1>3 DEF NoneTakesAway
<1>6. Ever(e)' => Ever(e) \/ (e = x /\ i # Absent)
  BY <1>1, <1>3 DEF Ever
<1>7. Never(e) /\ e # x => Never(e)'
  BY <1>1, <1>3 DEF Never
<1>8. Never(e) => NoneTakesAway(e)
  BY DEF Never, NoneTakesAway
<1> QED
  BY <1>1, <1>4, <1>5, <1>6, <1>7, <1>8 DEF Firm, Put

LEMMA SyncKeeps ==
  ASSUME EntriesOK, NEW d, Fsync(d), NEW e \in Entries
  PROVE  /\ Put(e) => Put(e)'
         /\ Put(e) /\ e[1] = d => Firm(e)'
<1>1. View'[e] = View[e] /\ (NoneTakesAway(e) => NoneTakesAway(e)')
  BY FsyncView, FsyncFewer, FewerKeeps
<1>2. e[1] = d => disk'[e] = View[e]
  BY FsyncSettles
<1> QED
  BY <1>1, <1>2 DEF Put, Firm

LEMMA ViewIsEver ==
  ASSUME EntriesOK, NEW e \in Entries
  PROVE  /\ View[e] # Absent => Ever(e)
         /\ Firm(e) => View[e] # Absent
         /\ Never(e) => View[e] = Absent /\ ~Ever(e)
<1>1. \/ View[e] = disk[e]
      \/ \E i \in DOMAIN log : e \in DOMAIN log[i] /\ View[e] = log[i][e]
  BY AppliedIsSome DEF View
<1> QED
  BY <1>1 DEF Ever, Firm, NoneTakesAway, Never

LEMMA SameEntries ==
  ASSUME UNCHANGED <<disk, log>>
  PROVE  /\ View' = View
         /\ \A e : /\ Ever(e)' <=> Ever(e)
                   /\ Never(e)' <=> Never(e)
                   /\ Firm(e)' <=> Firm(e)
                   /\ Put(e)' <=> Put(e)
  BY ViewUnchanged DEF Ever, Never, Firm, Put, NoneTakesAway

-----------------------------------------------------------------------------
(* A name that was removed stays away.                                     *)

LEMMA GoneTypes ==
  ASSUME StorageInv, GoneInv
  PROVE  /\ TypeOK /\ EntriesOK /\ nextFid \in Nat \ {0} /\ Data \notin Names
         /\ \A e \in Entries : e[2] \in Fid /\ e[2] \in Nat
         /\ \A l \in gone : l \in Entries /\ l[3] # Data
         /\ \A w \in Workers : JobKind(job[w])
         /\ \A j \in Job : OldLink(j) \in Entries /\ OldLink(j)[3] # Data
                           /\ NewLink(j) \in Entries /\ NewLink(j)[3] # Data
                           /\ DataOf(j) \in Entries
                           /\ j.fid \in Fid /\ j.fid \in Nat
<1>1. TypeOK /\ EntriesOK /\ Data \notin Names /\ gone \subseteq Dirs \X Fid \X Names
  BY Types, StorageAssumption DEF StorageInv, StorageAssumption, TypeOK
<1>2. ASSUME NEW j \in Job
      PROVE  /\ OldLink(j) \in Entries /\ OldLink(j)[3] # Data
             /\ NewLink(j) \in Entries /\ NewLink(j)[3] # Data
             /\ DataOf(j) \in Entries /\ j.fid \in Fid
  <2>1. /\ OldLink(j) \in Dirs \X Fid \X Names /\ NewLink(j) \in Dirs \X Fid \X Names
        /\ OldLink(j) \in Entries /\ NewLink(j) \in Entries
        /\ DataOf(j) \in Entries /\ j.fid \in Fid
    BY JobFacts DEF DataOf
  <2> QED
    BY <1>1, <2>1
<1>3. \A e \in Entries : e[2] \in Fid /\ e[2] \in Nat
  BY Bounds DEF Entries
<1>4. \A l \in gone : l \in Entries /\ l[3] # Data
  BY <1>1 DEF Entries
<1>5. nextFid \in Nat \ {0} /\ \A w \in Workers : JobKind(job[w])
  BY <1>1 DEF TypeOK, GoneInv, GoneJob
<1> QED
  BY <1>1, <1>2, <1>3, <1>4, <1>5, Bounds

LEMMA GoneFrame ==
  ASSUME StorageInv, GoneInv, NEW w \in Workers, \A v \in Workers \ {w} : job'[v] = job[v],
         JobKind(job'[w]), UNCHANGED <<nextFid, gone>>,
         \A v \in Workers : job[v].pc = "syncDropped" => job[v] \in Job,
         \A e \in Entries : e[3] # Data =>
            /\ Ever(e)' => Ever(e)
            /\ Never(e) => Never(e)'
            /\ View'[e] \in {View[e], Absent},
         \A e \in Entries : Never(e) => Never(e)' \/ e[2] < nextFid,
         job'[w].pc \in Making \union Removing \union Writing => job'[w].fid < nextFid,
         job'[w].pc \in Making => job[w].pc \in Making /\ job'[w].fid = job[w].fid,
         job'[w].pc \in Unnamed => job[w].pc \in Unnamed,
         job'[w].pc \in Removing =>
            \A v \in Workers : job[v].pc \in Unnamed => job[v].fid # job'[w].fid,
         job'[w].pc = "syncDropped" => View'[OldLink(job'[w])] = Absent
  PROVE  GoneInv'
<1>1. \A e \in Entries : Never(e)' \/ e[2] < nextFid
  BY DEF GoneInv
<1>2. \A l \in gone : l[2] < nextFid /\ ~Ever(l)'
  BY GoneTypes DEF GoneInv
<1>3. Making \intersect Removing = {} /\ Unnamed \subseteq Making
  BY DEF Making, Removing, Unnamed
<1>4. ASSUME NEW v \in Workers PROVE GoneJob(v)'
  <2>1. JobKind(job'[v])
    BY DEF GoneInv, GoneJob
  <2>2. job'[v].pc \in Making \union Removing \union Writing => job'[v].fid < nextFid
    BY DEF GoneInv, GoneJob
  <2>3. job'[v].pc = "syncDropped" => View'[OldLink(job'[v])] = Absent
    BY GoneTypes DEF GoneInv, GoneJob
  <2>4. ASSUME job'[v].pc \in Unnamed
        PROVE  /\ \A e \in Entries : e[2] = job'[v].fid /\ e[3] # Data => Never(e)'
               /\ \A l \in gone : l[2] # job'[v].fid
               /\ \A u \in Workers : \/ job'[u].pc \in Removing
                                     \/ job'[u].pc \in Making /\ u # v
                                     => job'[u].fid # job'[v].fid
    <3>1. job[v].pc \in Unnamed /\ job'[v].fid = job[v].fid
      BY <1>3, <2>4
    <3>2. /\ \A e \in Entries : e[2] = job[v].fid /\ e[3] # Data => Never(e)
          /\ \A l \in gone : l[2] # job[v].fid
          /\ \A u \in Workers : \/ job[u].pc \in Removing
                                \/ job[u].pc \in Making /\ u # v
                                => job[u].fid # job[v].fid
      BY <3>1 DEF GoneInv, GoneJob
    <3>3. ASSUME NEW u \in Workers, \/ job'[u].pc \in Removing
                                    \/ job'[u].pc \in Making /\ u # v
          PROVE  job'[u].fid # job'[v].fid
      <4>1. CASE u # w
        BY <3>1, <3>2, <3>3, <4>1
      <4>2. CASE u = w
        BY <3>1, <3>2, <3>3, <4>2
      <4> QED
        BY <4>1, <4>2
    <3> QED
      BY <3>1, <3>2, <3>3
  <2> QED
    BY <2>1, <2>2, <2>3, <2>4 DEF GoneJob
<1> QED
  BY <1>1, <1>2, <1>4 DEF GoneInv

\* A step that is no maker's.
LEMMA GoneCalm ==
  ASSUME StorageInv, GoneInv, NEW w \in Workers,
         Start(w) \/ Linking(w) \/ Unlinking(w) \/ Contents(w),
         UNCHANGED <<nextFid, gone>>,
         \A e \in Entries : e[3] # Data =>
            /\ Ever(e)' => Ever(e)
            /\ Never(e) => Never(e)'
            /\ View'[e] \in {View[e], Absent},
         \A e \in Entries : Never(e) => Never(e)' \/ e[2] < nextFid,
         \/ job'[w].pc = "idle"
         \/ job'[w].pc \notin Making \union Removing \union Writing
         \/ \E pc \in Writing : Same(w, pc) /\ job[w].pc \in Writing
         \/ \E pc \in Removing \ {"syncDropped"} : Same(w, pc) /\ job[w].pc \in Removing
         \/ Same(w, "mkNamed") /\ job[w].pc = "syncNumbered"
         \/ Same(w, "setAttr") /\ job[w].pc = "syncNamed"
  PROVE  GoneInv'
<1>1. TypeOK /\ JobKind(job[w])
  BY GoneTypes
<1>2. JobKind(job'[w]) /\ \A v \in Workers \ {w} : job'[v] = job[v]
  BY <1>1, KindKept, OthersStay
<1>3. \A v \in Workers : job[v].pc = "syncDropped" => job[v] \in Job
  BY <1>1, Types DEF Steps
<1>4. \A v \in Workers : job[v].pc \in Unnamed /\ job[w].pc \in Removing =>
         job[v].fid # job[w].fid
  BY DEF GoneInv, GoneJob
<1>5. GoneJob(w)
  BY DEF GoneInv
<1>6. CASE \/ job'[w].pc = "idle"
           \/ job'[w].pc \notin Making \union Removing \union Writing
  BY <1>2, <1>3, <1>6, GoneFrame DEF Making, Removing, Writing, Filling, Unnamed
<1>7. CASE \E pc \in Writing : Same(w, pc) /\ job[w].pc \in Writing
  <2>1. job'[w].pc \in Writing /\ job'[w].fid < nextFid
    BY <1>5, <1>7 DEF Same, GoneJob
  <2> QED
    BY <1>2, <1>3, <2>1, GoneFrame DEF Making, Removing, Writing, Filling, Unnamed
<1>8. CASE \E pc \in Removing \ {"syncDropped"} : Same(w, pc) /\ job[w].pc \in Removing
  <2>1. /\ job'[w].pc \in Removing \ {"syncDropped"} /\ job'[w].fid < nextFid
        /\ \A v \in Workers : job[v].pc \in Unnamed => job[v].fid # job'[w].fid
    BY <1>4, <1>5, <1>8 DEF Same, GoneJob
  <2> QED
    BY <1>2, <1>3, <2>1, GoneFrame DEF Making, Removing, Writing, Filling, Unnamed
<1>9. CASE \/ Same(w, "mkNamed") /\ job[w].pc = "syncNumbered"
           \/ Same(w, "setAttr") /\ job[w].pc = "syncNamed"
  <2>1. /\ job'[w].pc \in {"mkNamed", "setAttr"} /\ job'[w].fid < nextFid
        /\ job'[w].fid = job[w].fid /\ job[w].pc \in Making
        /\ job'[w].pc = "mkNamed" => job[w].pc = "syncNumbered"
    BY <1>5, <1>9 DEF Same, GoneJob, Making
  <2> QED
    BY <1>2, <1>3, <2>1, GoneFrame DEF Making, Removing, Writing, Filling, Unnamed
<1> QED
  BY <1>6, <1>7, <1>8, <1>9

LEMMA GoneStart ==
  ASSUME StorageInv, GoneInv, NEW w \in Workers, Start(w) \/ Claim(w) \/ Resolve(w), NoRenames
  PROVE  GoneInv'
<1>1. TypeOK /\ EntriesOK /\ JobKind(job[w])
  BY GoneTypes
<1>2. UNCHANGED <<disk, log, nextFid, gone>>
  BY DEF Start, Claim, Resolve, volume, told
<1>3. /\ View' = View
      /\ \A e : (Ever(e)' <=> Ever(e)) /\ (Never(e)' <=> Never(e))
  BY <1>2, SameEntries
<1>4. CASE job'[w].pc \notin Making \union Removing \union Writing
  BY <1>2, <1>3, <1>4, GoneCalm DEF Linking
<1>5. CASE Start(w)
  <2>1. job'[w].pc \in {"claim", "resolve", "find"}
    BY <1>1, <1>5, StartJob
  <2> QED
    BY <1>4, <2>1 DEF Making, Removing, Writing, Filling
<1>6. CASE Claim(w)
  <2>1. job'[w].pc \in {"idle", "mkNumbered"}
    BY <1>1, <1>6, ClaimJob, FinishJob, JobFacts DEF JobKind, NoRenames, IsCreate
  <2> QED
    BY <1>4, <2>1 DEF Making, Removing, Writing, Filling
<1>7. CASE Resolve(w)
  <2>1. CASE job'[w].pc = "idle" \/ job'[w].pc = "claim"
    BY <1>4, <2>1 DEF Making, Removing, Writing, Filling
  <2>2. CASE job'[w].pc = "unlink"
    <3>1. job'[w].fid \in WithName(job[w].req.dir, job[w].req.name) /\ job[w] \in Job
      BY <1>1, <1>7, <2>2, ResolveJob, FinishJob
    <3>2. PICK e : e = <<job[w].req.dir, job'[w].fid, job[w].req.name>>
      OBVIOUS
    <3>3. e \in Entries /\ Exists(e) /\ e[2] = job'[w].fid /\ e[3] # Data
      BY <3>1, <3>2, JobFacts, RequestFacts, GoneTypes DEF WithName, Visible, Entries
    <3>4. ~Never(e)
      BY <1>1, <3>3, ViewIsEver DEF Exists
    <3>5. job'[w].fid < nextFid
      BY <3>3, <3>4 DEF GoneInv
    <3>6. \A v \in Workers : job[v].pc \in Unnamed => job[v].fid # job'[w].fid
      BY <3>3, <3>4 DEF GoneInv, GoneJob
    <3>7. JobKind(job'[w]) /\ \A v \in Workers \ {w} : job'[v] = job[v]
      BY <1>1, <1>7, KindKept, OthersStay DEF Linking
    <3>8. \A v \in Workers : job[v].pc = "syncDropped" => job[v] \in Job
      BY <1>1, Types DEF Steps
    <3> QED
      BY <1>2, <1>3, <2>2, <3>5, <3>6, <3>7, <3>8, GoneFrame
         DEF Making, Removing, Writing, Filling, Unnamed
  <2> QED
    BY <1>1, <1>7, <2>1, <2>2, ResolveJob, FinishJob
<1> QED
  BY <1>5, <1>6, <1>7

LEMMA GoneMkNumbered ==
  ASSUME StorageInv, GoneInv, NEW w \in Workers, MkNumbered(w)
  PROVE  GoneInv'
<1> DEFINE j == job[w]  x == <<j.dir, nextFid, Data>>
<1>1. TypeOK /\ EntriesOK /\ JobKind(j) /\ nextFid \in Nat
  BY GoneTypes
<1>2. JobKind(job'[w]) /\ \A v \in Workers \ {w} : job'[v] = job[v]
  BY <1>1, KindKept, OthersStay DEF Linking
<1>3. /\ Update(Set(x, EmptyFile)) /\ nextFid' = nextFid + 1 /\ gone' = gone
      /\ job'[w].pc = "syncNumbered" /\ job'[w].fid = nextFid /\ nextFid \in Fid
  BY <1>1, MkNumberedJob DEF MkNumbered, told
<1>4. \A e \in Entries : e # x =>
         /\ Ever(e)' => Ever(e)
         /\ Never(e) => Never(e)'
         /\ View'[e] = View[e]
  BY <1>1, <1>3, SetKeepsEver, ViewSet
<1>5. x[2] = nextFid /\ x[3] = Data
  OBVIOUS
<1> HIDE DEF x
<1>6. \A e \in Entries : Never(e)' \/ e[2] < nextFid'
  BY <1>1, <1>3, <1>4, <1>5, GoneTypes DEF GoneInv
<1>7. \A l \in gone : l[2] < nextFid /\ l[2] \in Nat /\ ~Ever(l)'
  BY <1>4, <1>5, GoneTypes DEF GoneInv
<1>8. ASSUME NEW v \in Workers \ {w} PROVE GoneJob(v)'
  <2>1. GoneJob(v) /\ job'[v] = job[v]
    BY <1>2 DEF GoneInv
  <2>2. ASSUME job[v].pc \in Making \union Removing \union Writing
        PROVE  job[v].fid < nextFid' /\ job[v].fid < nextFid
    <3>1. job[v].fid < nextFid /\ job[v] \in Job
      BY <1>1, <2>1, <2>2, Types DEF GoneJob, Making, Removing, Writing, Filling, Steps
    <3> QED
      BY <1>1, <1>3, <3>1, GoneTypes
  <2>3. ASSUME job[v].pc \in Unnamed
        PROVE  /\ \A e \in Entries : e[2] = job[v].fid /\ e[3] # Data => Never(e)'
               /\ \A l \in gone : l[2] # job[v].fid
               /\ \A u \in Workers : \/ job'[u].pc \in Removing
                                     \/ job'[u].pc \in Making /\ u # v
                                     => job'[u].fid # job[v].fid
    <3>1. job[v].fid # nextFid
      BY <1>1, <2>2, <2>3 DEF Unnamed, Making
    <3> QED
      BY <1>2, <1>3, <1>4, <1>5, <2>1, <2>3, <3>1 DEF GoneJob, Removing
  <2>4. job[v].pc = "syncDropped" => View'[OldLink(job[v])] = Absent
    <3>1. job[v].pc = "syncDropped" => job[v] \in Job
      BY <1>1, Types DEF Steps
    <3> QED
      BY <1>4, <1>5, <2>1, <3>1, GoneTypes DEF GoneJob
  <2> QED
    BY <1>3, <2>1, <2>2, <2>3, <2>4 DEF GoneJob
<1>9. GoneJob(w)'
  <2>1. \A e \in Entries : e[2] = nextFid /\ e[3] # Data => Never(e)'
    BY <1>1, <1>4, <1>5, GoneTypes DEF GoneInv
  <2>2. \A l \in gone : l[2] # nextFid
    BY <1>1, <1>7
  <2>3. \A u \in Workers \ {w} :
           job[u].pc \in Removing \union Making => job[u].fid # nextFid
    <3> SUFFICES ASSUME NEW u \in Workers \ {w}, job[u].pc \in Removing \union Making
                 PROVE  job[u].fid # nextFid
      OBVIOUS
    <3>1. job[u].fid < nextFid /\ job[u] \in Job
      BY <1>1, Types DEF GoneInv, GoneJob, Making, Removing, Steps
    <3> QED
      BY <1>1, <3>1, GoneTypes
  <2>4. nextFid < nextFid'
    BY <1>1, <1>3
  <2> QED
    BY <1>2, <1>3, <2>1, <2>2, <2>3, <2>4 DEF GoneJob, Removing
<1> QED
  BY <1>1, <1>3, <1>6, <1>7, <1>8, <1>9 DEF GoneInv

LEMMA GoneMkNamed ==
  ASSUME NoRenames, StorageInv, GoneInv, NEW w \in Workers, MkNamed(w)
  PROVE  GoneInv'
<1> DEFINE j == job[w]  x == NewLink(j)
<1>1. /\ TypeOK /\ EntriesOK /\ JobKind(j) /\ j \in Job /\ j.pc = "mkNamed"
      /\ GoneJob(w) /\ nextFid \in Nat
  BY GoneTypes, LinkingJob DEF MkNamed, GoneInv
<1>2. JobKind(job'[w]) /\ \A v \in Workers \ {w} : job'[v] = job[v]
  BY <1>1, KindKept, OthersStay DEF Linking
<1>3. j.req.op = "create"
  BY <1>1, JobFacts DEF JobKind, NoRenames
<1>4. /\ Update(Set(x, EmptyFile)) /\ nextFid' = nextFid
      /\ gone' \subseteq gone
      /\ job'[w].pc = "syncNamed" /\ job'[w].fid = j.fid
  BY <1>1, <1>3, LinkingJob DEF MkNamed, AfterMkNamed, IsCreate, Same
<1>5. \A e \in Entries : e # x =>
         /\ Ever(e)' => Ever(e)
         /\ Never(e) => Never(e)'
         /\ View'[e] = View[e]
  BY <1>1, <1>4, SetKeepsEver, ViewSet
<1>6. x \in Entries /\ x[2] = j.fid /\ x[3] # Data /\ j.fid < nextFid
  BY <1>1, GoneTypes DEF NewLink, GoneJob, Making
<1> HIDE DEF x
<1>7. \A e \in Entries : Never(e)' \/ e[2] < nextFid
  BY <1>5, <1>6 DEF GoneInv
<1>8. \A l \in gone : l[2] < nextFid /\ ~Ever(l)'
  <2>1. \A l \in gone : l # x
    BY <1>1, <1>6 DEF GoneJob, Unnamed
  <2> QED
    BY <1>5, <2>1, GoneTypes DEF GoneInv
<1>9. ASSUME NEW v \in Workers \ {w} PROVE GoneJob(v)'
  <2>1. GoneJob(v) /\ job'[v] = job[v]
    BY <1>2 DEF GoneInv
  <2>2. job[v].pc \in Making \union Removing => job[v].fid # j.fid
    BY <1>1 DEF GoneJob, Unnamed
  <2>3. ASSUME job[v].pc \in Unnamed
        PROVE  /\ \A e \in Entries : e[2] = job[v].fid /\ e[3] # Data => Never(e)'
               /\ \A l \in gone' : l[2] # job[v].fid
               /\ \A u \in Workers : \/ job'[u].pc \in Removing
                                     \/ job'[u].pc \in Making /\ u # v
                                     => job'[u].fid # job[v].fid
    <3>1. job[v].fid # j.fid
      BY <2>2, <2>3 DEF Unnamed, Making
    <3> QED
      BY <1>2, <1>4, <1>5, <1>6, <2>1, <2>3, <3>1 DEF GoneJob, Removing
  <2>4. job[v].pc = "syncDropped" => View'[OldLink(job[v])] = Absent
    <3>1. ASSUME job[v].pc = "syncDropped"
          PROVE  job[v] \in Job /\ OldLink(job[v]) # x
      <4>1. job[v] \in Job /\ OldLink(job[v])[2] = job[v].fid
        BY <1>1, <3>1, Types DEF Steps, OldLink
      <4> QED
        BY <1>6, <2>2, <3>1, <4>1 DEF Removing
    <3> QED
      BY <1>5, <2>1, <3>1, GoneTypes DEF GoneJob
  <2> QED
    BY <1>4, <2>1, <2>3, <2>4 DEF GoneJob
<1>10. GoneJob(w)'
  BY <1>2, <1>4, <1>6 DEF GoneJob, Unnamed
<1> QED
  BY <1>4, <1>7, <1>8, <1>9, <1>10 DEF GoneInv

LEMMA GoneSync ==
  ASSUME NoRenames, StorageInv, GoneInv, NEW w \in Workers, Sync(w) \/ SyncUnlinked(w)
  PROVE  GoneInv'
<1>1. TypeOK /\ EntriesOK /\ JobKind(job[w])
  BY GoneTypes
<1>2. Fsync(job[w].dir) /\ UNCHANGED <<nextFid, gone>>
  BY DEF Sync, SyncUnlinked, told
<1>3. \A e \in Entries : /\ Ever(e)' => Ever(e)
                         /\ Never(e) => Never(e)'
                         /\ View'[e] = View[e]
  BY <1>1, <1>2, FsyncFewer, FewerKeeps, FsyncView
<1>4. \/ \E pc \in Removing \ {"syncDropped"} : Same(w, pc) /\ job[w].pc \in Removing
      \/ Same(w, "mkNamed") /\ job[w].pc = "syncNumbered"
      \/ Same(w, "setAttr") /\ job[w].pc = "syncNamed"
  <2>1. CASE SyncUnlinked(w)
    <3>1. Same(w, "dropNamed") /\ job[w].pc \in Removing
      BY <1>1, <2>1, UnlinkingJob DEF SyncUnlinked, Removing
    <3>2. "dropNamed" \in Removing \ {"syncDropped"}
      BY DEF Removing
    <3> QED
      BY <3>1, <3>2
  <2>2. CASE Sync(w)
    <3>1. job[w].pc # "syncLinked"
      BY <1>1, <2>2, LinkingJob, JobFacts DEF JobKind, Renaming, NoRenames
    <3> QED
      BY <1>1, <2>2, <3>1, LinkingJob
  <2> QED
    BY <2>1, <2>2
<1> QED
  BY <1>2, <1>3, <1>4, GoneCalm DEF Linking, Unlinking

LEMMA GoneUnlink ==
  ASSUME StorageInv, GoneInv, NEW w \in Workers, Unlink(w)
  PROVE  GoneInv'
<1> DEFINE j == job[w]  x == <<j.dir, j.fid, Data>>
<1>1. TypeOK /\ EntriesOK /\ j \in Job /\ UNCHANGED <<nextFid, gone>>
  BY GoneTypes, UnlinkingJob DEF Unlink
<1>2. CASE Exists(x)
  <2>1. Update(Set(x, Absent)) /\ Same(w, "syncUnlinked") /\ j.pc = "unlink"
    BY <1>1, <1>2, GotoSame DEF Unlink, Steps
  <2>2. x \in Entries /\ x[3] = Data /\ x[2] = j.fid
    BY <1>1, GoneTypes DEF DataOf
  <2>3. j.fid < nextFid
    BY <2>1 DEF GoneInv, GoneJob, Removing
  <2> HIDE DEF x
  <2>4. \A e \in Entries : e # x => /\ Ever(e)' => Ever(e)
                                    /\ Never(e) => Never(e)'
                                    /\ View'[e] = View[e]
    BY <1>1, <2>1, SetKeepsEver, ViewSet
  <2>5. \A e \in Entries : Never(e) => Never(e)' \/ e[2] < nextFid
    BY <2>2, <2>3, <2>4
  <2>6. "syncUnlinked" \in Removing \ {"syncDropped"} /\ j.pc \in Removing
    BY <2>1 DEF Removing
  <2> QED
    BY <1>1, <2>1, <2>2, <2>4, <2>5, <2>6, GoneCalm DEF Unlinking
<1>3. CASE ~Exists(x)
  <2>1. UNCHANGED <<disk, log>> /\ job'[w].pc = "idle"
    BY <1>1, <1>3, FinishJob DEF Unlink
  <2> QED
    BY <1>1, <2>1, SameEntries, GoneCalm DEF Unlinking
<1> QED
  BY <1>2, <1>3

LEMMA GoneDropNamed ==
  ASSUME StorageInv, GoneInv, NEW w \in Workers, DropNamed(w)
  PROVE  GoneInv'
<1> DEFINE j == job[w]  x == OldLink(j)
<1>1. /\ TypeOK /\ EntriesOK /\ j \in Job /\ UNCHANGED <<nextFid, gone>>
      /\ JobKind(j) /\ j.pc = "dropNamed"
  BY GoneTypes, UnlinkingJob DEF DropNamed, told
<1>2. CASE Exists(x)
  <2>1. Update(Set(x, Absent)) /\ Same(w, "syncDropped")
    BY <1>1, <1>2, GotoSame DEF DropNamed, Steps
  <2>2. x \in Entries /\ x[3] # Data
    BY <1>1, GoneTypes
  <2>3. OldLink(job'[w]) = x /\ job'[w].pc = "syncDropped" /\ job'[w].fid = j.fid
    BY <2>1 DEF Same, OldLink
  <2>4. ~Never(x)
    BY <1>1, <1>2, <2>2, ViewIsEver DEF Exists
  <2>5. x[2] < nextFid /\ j.fid < nextFid
    BY <1>1, <2>2, <2>4 DEF GoneInv, GoneJob, Removing
  <2>6. \A v \in Workers : job[v].pc \in Unnamed => job[v].fid # j.fid
    BY <1>1 DEF GoneInv, GoneJob, Removing
  <2>7. JobKind(job'[w]) /\ \A v \in Workers \ {w} : job'[v] = job[v]
    BY <1>1, KindKept, OthersStay DEF Unlinking
  <2> HIDE DEF x
  <2>8. \A e \in Entries : /\ Ever(e)' => Ever(e)
                           /\ Never(e) => Never(e)'
                           /\ View'[e] \in {View[e], Absent}
    BY <1>1, <2>1, <2>4, SetKeepsEver, ViewSet
  <2>9. View'[x] = Absent
    BY <1>1, <2>1, <2>2, ViewSet
  <2>10. \A v \in Workers : job[v].pc = "syncDropped" => job[v] \in Job
    BY <1>1, Types DEF Steps
  <2> QED
    BY <1>1, <2>3, <2>5, <2>6, <2>7, <2>8, <2>9, <2>10, GoneFrame
       DEF Making, Removing, Writing, Filling, Unnamed
<1>3. CASE ~Exists(x)
  <2>1. UNCHANGED <<disk, log>> /\ job'[w].pc = "idle"
    BY <1>1, <1>3, FinishJob DEF DropNamed
  <2> QED
    BY <1>1, <2>1, SameEntries, GoneCalm DEF Unlinking
<1> QED
  BY <1>2, <1>3

\* The sync of the directory settles that the name is away.
LEMMA GoneSyncDropped ==
  ASSUME StorageInv, GoneInv, NEW w \in Workers, SyncDropped(w)
  PROVE  GoneInv'
<1> DEFINE j == job[w]
<1>0. PICK x : x = OldLink(j)
  OBVIOUS
<1>1. /\ TypeOK /\ EntriesOK /\ j \in Job /\ nextFid' = nextFid /\ j.pc = "syncDropped"
      /\ gone' = gone \union {x} /\ job'[w].pc = "idle" /\ Fsync(j.dir)
      /\ GoneJob(w)
  BY <1>0, GoneTypes, UnlinkingJob, FinishJob DEF SyncDropped, GoneInv
<1>2. JobKind(job'[w]) /\ \A v \in Workers \ {w} : job'[v] = job[v]
  BY <1>1, KindKept, OthersStay DEF Unlinking, GoneJob
<1>3. /\ x \in Entries /\ x[2] = j.fid /\ x[1] = j.dir /\ View[x] = Absent
      /\ j.fid < nextFid
  BY <1>0, <1>1, GoneTypes DEF GoneJob, JobKind, Removing, OldLink
<1>4. ~Ever(x)'
  <2>1. disk'[x] = Absent /\ \A k \in DOMAIN log' : x \notin DOMAIN log'[k]
    BY <1>1, <1>3, FsyncSettles
  <2> QED
    BY <2>1 DEF Ever
<1>5. \A e \in Entries : /\ Ever(e)' => Ever(e)
                         /\ Never(e) => Never(e)'
                         /\ View'[e] = View[e]
  BY <1>1, FsyncFewer, FewerKeeps, FsyncView
<1>6. \A e \in Entries : Never(e)' \/ e[2] < nextFid
  BY <1>5 DEF GoneInv
<1>7. \A l \in gone' : l[2] < nextFid /\ ~Ever(l)'
  BY <1>1, <1>3, <1>4, <1>5, GoneTypes DEF GoneInv
<1>8. ASSUME NEW v \in Workers PROVE GoneJob(v)'
  <2>1. CASE v = w
    BY <1>1, <1>2, <2>1 DEF GoneJob, Making, Removing, Writing, Filling, Unnamed
  <2>2. CASE v # w
    <3>1. GoneJob(v) /\ job'[v] = job[v]
      BY <1>2, <2>2 DEF GoneInv
    <3>2. ASSUME job[v].pc \in Unnamed
          PROVE  /\ \A e \in Entries : e[2] = job[v].fid /\ e[3] # Data => Never(e)'
                 /\ \A l \in gone' : l[2] # job[v].fid
                 /\ \A u \in Workers : \/ job'[u].pc \in Removing
                                       \/ job'[u].pc \in Making /\ u # v
                                       => job'[u].fid # job[v].fid
      <4>1. j.fid # job[v].fid
        BY <1>1, <3>1, <3>2 DEF GoneJob, Removing
      <4>2. \A u \in Workers : \/ job'[u].pc \in Removing
                               \/ job'[u].pc \in Making /\ u # v
                               => u # w /\ job'[u] = job[u]
        BY <1>1, <1>2 DEF Removing, Making
      <4> QED
        BY <1>1, <1>3, <1>5, <3>1, <3>2, <4>1, <4>2 DEF GoneJob
    <3>3. job[v].pc = "syncDropped" => View'[OldLink(job[v])] = Absent
      <4>1. job[v].pc = "syncDropped" => job[v] \in Job
        BY <1>1, Types DEF Steps
      <4> QED
        BY <1>5, <3>1, <4>1, GoneTypes DEF GoneJob
    <3> QED
      BY <1>1, <3>1, <3>2, <3>3 DEF GoneJob
  <2> QED
    BY <2>1, <2>2
<1> QED
  BY <1>1, <1>6, <1>7, <1>8 DEF GoneInv

LEMMA GoneFind ==
  ASSUME StorageInv, GoneInv, NEW w \in Workers, Find(w)
  PROVE  GoneInv'
<1> DEFINE j == job[w]
<1>1. /\ TypeOK /\ EntriesOK /\ JobKind(j) /\ j \in Job
      /\ UNCHANGED <<disk, log, nextFid, gone>>
  BY GoneTypes, ContentsJob DEF Find, volume, told
<1>2. View' = View /\ \A e : (Ever(e)' <=> Ever(e)) /\ (Never(e)' <=> Never(e))
  BY <1>1, SameEntries
<1>3. \/ job'[w].pc \in {"idle", "open"}
      \/ /\ job'[w].pc = "copy" /\ job'[w].fid = j.fid /\ job'[w].dir \in Dirs
         /\ Exists(<<job'[w].dir, j.fid, Data>>)
  BY <1>1, ContentsJob, FinishJob DEF AfterFind
<1>4. CASE job'[w].pc \in {"idle", "open"}
  <2>1. job'[w].pc \notin Making \union Removing \union Writing
    BY <1>4 DEF Making, Removing, Writing, Filling
  <2> QED
    BY <1>1, <1>2, <2>1, GoneCalm DEF Contents
<1>5. CASE /\ job'[w].pc = "copy" /\ job'[w].fid = j.fid /\ job'[w].dir \in Dirs
           /\ Exists(<<job'[w].dir, j.fid, Data>>)
  <2>1. PICK x : x = <<job'[w].dir, j.fid, Data>>
    OBVIOUS
  <2>2. x \in Entries /\ Exists(x) /\ x[2] = j.fid
    BY <1>1, <1>5, <2>1, GoneTypes DEF Entries
  <2>3. j.fid < nextFid
    BY <1>1, <2>2, ViewIsEver DEF Exists, GoneInv
  <2>4. JobKind(job'[w]) /\ \A v \in Workers \ {w} : job'[v] = job[v]
    BY <1>1, KindKept, OthersStay DEF Contents
  <2>5. \A v \in Workers : job[v].pc = "syncDropped" => job[v] \in Job
    BY <1>1, Types DEF Steps
  <2> QED
    BY <1>1, <1>2, <1>5, <2>3, <2>4, <2>5, GoneFrame
       DEF Making, Removing, Writing, Filling, Unnamed
<1> QED
  BY <1>3, <1>4, <1>5

LEMMA GoneContents ==
  ASSUME StorageInv, GoneInv, NEW w \in Workers, Contents(w), ~Find(w), ~Replace(w)
  PROVE  GoneInv'
<1>1. TypeOK /\ UNCHANGED <<disk, log, nextFid, gone>>
  BY GoneTypes DEF Contents, Copy, OpenTmp, Fill, SyncTmp, Open, ReadAt, told, volume
<1>2. View' = View /\ \A e : (Ever(e)' <=> Ever(e)) /\ (Never(e)' <=> Never(e))
  BY <1>1, SameEntries
<1>3. \/ job'[w].pc = "idle"
      \/ job'[w].pc \notin Making \union Removing \union Writing
      \/ \E pc \in Writing : Same(w, pc) /\ job[w].pc \in Writing
  <2>1. {"copy", "openTmp", "fill", "syncTmp", "replace"} = Writing
    BY DEF Writing, Filling
  <2>2. CASE Copy(w)
    BY <1>1, <2>1, <2>2, ContentsJob, FinishJob DEF Copy
  <2>3. CASE OpenTmp(w)
    BY <1>1, <2>1, <2>3, ContentsJob, FinishJob DEF OpenTmp
  <2>4. CASE Fill(w) \/ SyncTmp(w)
    BY <1>1, <2>1, <2>4, ContentsJob DEF Fill, SyncTmp
  <2>5. CASE Open(w) \/ ReadAt(w)
    <3>1. job'[w].pc \in {"idle", "readAt"}
      BY <1>1, <2>5, ContentsJob, FinishJob DEF Same
    <3> QED
      BY <3>1 DEF Making, Removing, Writing, Filling
  <2> QED
    BY <2>2, <2>3, <2>4, <2>5 DEF Contents
<1> QED
  BY <1>1, <1>2, <1>3, GoneCalm

LEMMA GoneReplace ==
  ASSUME StorageInv, GoneInv, NEW w \in Workers, Replace(w)
  PROVE  GoneInv'
<1> DEFINE j == job[w]  x == DataOf(j)
<1>1. /\ TypeOK /\ EntriesOK /\ j \in Job /\ UNCHANGED <<nextFid, gone>>
      /\ j.pc = "replace" /\ job'[w].pc = "idle"
  BY GoneTypes, ContentsJob, FinishJob DEF Replace
<1>2. x \in Entries /\ x[3] = Data /\ x[2] = j.fid /\ j.fid < nextFid
  BY <1>1, GoneTypes DEF DataOf, GoneInv, GoneJob, Writing, Filling
<1>3. UNCHANGED <<disk, log>> \/ \E i : Update(Set(x, i))
  BY DEF Replace, DataOf
<1> HIDE DEF x
<1>4. \A e \in Entries : e # x => /\ Ever(e)' => Ever(e)
                                  /\ Never(e) => Never(e)'
                                  /\ View'[e] = View[e]
  BY <1>1, <1>3, SetKeepsEver, ViewSet, SameEntries
<1>5. \A e \in Entries : Never(e) => Never(e)' \/ e[2] < nextFid
  BY <1>2, <1>4
<1> QED
  BY <1>1, <1>2, <1>4, <1>5, GoneCalm DEF Contents

LEMMA GoneSetAttr ==
  ASSUME StorageInv, GoneInv, NEW w \in Workers, SetAttr(w)
  PROVE  GoneInv'
<1>1. TypeOK /\ UNCHANGED <<disk, log, nextFid, gone>> /\ job'[w].pc = "idle"
  BY GoneTypes, LinkingJob, FinishJob DEF SetAttr, volume
<1>2. View' = View /\ \A e : (Ever(e)' <=> Ever(e)) /\ (Never(e)' <=> Never(e))
  BY <1>1, SameEntries
<1> QED
  BY <1>1, <1>2, GoneCalm DEF Linking

\* The steps of a rename are not reached.
LEMMA NothingMoves ==
  ASSUME NoRenames, TypeOK, NEW w \in Workers, JobKind(job[w])
  PROVE  ~Move(w) /\ ~SyncMoved(w) /\ ~DropOld(w)
<1>1. job[w].pc \in Steps => job[w] \in Job
  BY Types
<1>2. job[w].pc \notin Renaming
  <2> SUFFICES ASSUME job[w].pc \in Renaming PROVE FALSE
    OBVIOUS
  <2>1. job[w] \in Job
    BY <1>1 DEF Renaming, Steps
  <2> QED
    BY <2>1, JobFacts DEF JobKind, NoRenames
<1> QED
  BY <1>2 DEF Move, SyncMoved, DropOld, Renaming

LEMMA GoneFailures ==
  ASSUME StorageInv, GoneInv, Kill \/ PowerFailure
  PROVE  GoneInv'
<1>1. /\ job' = [w \in Workers |-> Idle] /\ UNCHANGED <<nextFid, gone>>
      /\ TypeOK /\ EntriesOK
  BY GoneTypes DEF Kill, PowerFailure, Restart, told
<1>2. \A e \in Entries : (Ever(e)' => Ever(e)) /\ (Never(e) => Never(e)')
  <2>1. CASE Kill
    BY <2>1, SameEntries DEF Kill
  <2>2. CASE PowerFailure
    BY <1>1, <2>2, PowerFewer, FewerKeeps
  <2> QED
    BY <2>1, <2>2
<1>3. \A w \in Workers : GoneJob(w)'
  BY <1>1 DEF Idle, GoneJob, JobKind, Renaming, Making, Removing, Writing, Filling, Unnamed
<1> QED
  BY <1>1, <1>2, <1>3, GoneTypes DEF GoneInv

LEMMA GoneInit ==
  ASSUME TidyLinks, Init
  PROVE  GoneInv
<1>1. \A w \in Workers : GoneJob(w)
  BY DEF Init, Idle, GoneJob, JobKind, Renaming, Making, Removing, Writing, Filling, Unnamed
<1>2. ASSUME NEW e \in Entries, ~(e[2] < nextFid) PROVE Never(e)
  <2>1. log = <<>> /\ nextFid = FirstFree
    BY DEF Init
  <2>2. disk[e] = Absent
    BY <1>2, <2>1, InitEntries DEF TidyLinks
  <2> QED
    BY <2>1, <2>2 DEF Never
<1>3. gone = {}
  BY DEF Init
<1> QED
  BY <1>1, <1>2, <1>3 DEF GoneInv

LEMMA GoneNext ==
  ASSUME NoRenames, StorageInv, GoneInv, [Next]_vars
  PROVE  GoneInv'
<1>1. ASSUME NEW w \in Workers, Start(w) \/ Linking(w) \/ Unlinking(w) \/ Contents(w)
      PROVE  GoneInv'
  <2>1. ~Move(w) /\ ~SyncMoved(w) /\ ~DropOld(w)
    BY NothingMoves, GoneTypes
  <2>2. CASE Start(w) \/ Linking(w)
    BY <2>1, <2>2, GoneStart, GoneMkNumbered, GoneMkNamed, GoneSync, GoneSetAttr
       DEF Linking
  <2>3. CASE Unlinking(w)
    BY <2>3, GoneUnlink, GoneSync, GoneDropNamed, GoneSyncDropped DEF Unlinking
  <2>4. CASE Contents(w)
    BY <2>4, GoneFind, GoneContents, GoneReplace
  <2> QED
    BY <1>1, <2>2, <2>3, <2>4
<1>2. CASE UNCHANGED vars
  <2>1. UNCHANGED <<disk, log, nextFid, gone, job>>
    BY <1>2 DEF vars, volume, told
  <2>2. View' = View /\ \A e : (Ever(e)' <=> Ever(e)) /\ (Never(e)' <=> Never(e))
    BY <2>1, SameEntries
  <2>3. \A w \in Workers : GoneJob(w) => GoneJob(w)'
    BY <2>1, <2>2 DEF GoneJob
  <2> QED
    BY <2>1, <2>2, <2>3 DEF GoneInv
<1> QED
  BY <1>1, <1>2, GoneFailures DEF Next

(* A name whose removal was acknowledged does not come back when nothing   *)
(* is renamed: fs_delete_obj syncs the directory before the reply          *)
(* (mod.rs:559-603), a FID is issued once, and a write puts back the       *)
(* numbered file at most (mod.rs:688), which no name goes with.            *)
THEOREM NamesStayGone ==
  ASSUME NoRenames, TidyLinks
  PROVE  Spec => []Gone
<1>1. Init => GoneInv
  BY GoneInit
<1>2. StorageInv /\ GoneInv /\ [Next]_vars => GoneInv'
  BY GoneNext
<1>3. StorageInv /\ GoneInv => Gone
  <2> SUFFICES ASSUME StorageInv, GoneInv, NEW l \in gone PROVE ~Visible(l[1], l[2], l[3])
    BY DEF Gone
  <2>1. l \in Entries /\ l = <<l[1], l[2], l[3]>>
    BY GoneTypes DEF Entries
  <2>2. ~Exists(l)
    BY <2>1, GoneTypes, ViewIsEver DEF Exists, GoneInv
  <2> QED
    BY <2>1, <2>2 DEF Visible
<1> QED
  BY <1>1, <1>2, <1>3, StorageInvariant, PTL DEF Spec

-----------------------------------------------------------------------------
(* A file that was acknowledged is there.                                  *)

\* A step that makes no file and acknowledges none.
LEMMA LiveFrame ==
  ASSUME StorageInv, GoneInv, LiveInv, NEW w \in Workers,
         \A v \in Workers \ {w} : job'[v] = job[v], nextFid' = nextFid,
         live' \subseteq live, promised' = {l \in promised : l[2] \in live'},
         \A e \in Entries : e[3] = Data => (Ever(e)' => e[1] \in Places(e[2])),
         \A e \in Entries :
            \/ (Firm(e) => Firm(e)') /\ (Put(e) => Put(e)')
            \/ /\ Dead(e[2])'
               /\ \A v \in Workers : job[v].pc \in Unnamed => job[v].fid # e[2],
         \A e \in Entries : e[3] = Data /\ e[2] >= FirstFree /\ View[e] = Absent
                               => View'[e] = Absent,
         job'[w].pc \in Making => job[w].pc \in Making /\ job'[w].fid = job[w].fid,
         job'[w].pc \in Making \union Writing => job'[w].dir \in Places(job'[w].fid),
         LiveJob(w)'
  PROVE  LiveInv'
<1>1. /\ TypeOK /\ EntriesOK /\ promised \subseteq Dirs \X Fid \X Names
      /\ live \subseteq Fid
  BY GoneTypes DEF TypeOK
<1>2. ASSUME NEW f \in Fid, NEW d \in Places(f)' PROVE d \in Places(f)
  <2>1. CASE d \in Dirs /\ Ever(<<d, f, Data>>)'
    <3>1. PICK e : e = <<d, f, Data>>
      OBVIOUS
    <3>2. e \in Entries /\ e[1] = d /\ e[2] = f /\ e[3] = Data
      BY <2>1, <3>1 DEF Entries
    <3> QED
      BY <2>1, <3>1, <3>2
  <2>2. CASE \E v \in Workers : /\ job'[v].pc \in Making \union Writing
                                /\ job'[v].fid = f /\ job'[v].dir = d
    <3>1. PICK v \in Workers : /\ job'[v].pc \in Making \union Writing
                               /\ job'[v].fid = f /\ job'[v].dir = d
      BY <2>2
    <3>2. CASE v = w
      BY <3>1, <3>2
    <3>3. CASE v # w
      <4>1. job'[v] = job[v]
        BY <3>3
      <4> QED
        BY <3>1, <4>1 DEF Places
    <3> QED
      BY <3>2, <3>3
  <2> QED
    BY <2>1, <2>2 DEF Places
<1>3. OnePlace'
  BY <1>2 DEF LiveInv, OnePlace
<1>4. ASSUME NEW l \in promised'
      PROVE  l[2] \in live' /\ Firm(<<l[1], l[2], Data>>)' /\ Firm(l)'
  <2>1. l \in promised /\ l[2] \in live'
    OBVIOUS
  <2>2. PICK e : e = <<l[1], l[2], Data>>
    OBVIOUS
  <2>3. e \in Entries /\ l \in Entries /\ e[2] = l[2]
    BY <1>1, <2>1, <2>2 DEF Entries
  <2>4. Firm(e) /\ Firm(l)
    BY <2>1, <2>2 DEF LiveInv
  <2>5. ~Dead(l[2])'
    BY <2>1 DEF Dead
  <2>6. Firm(e)' /\ Firm(l)'
    BY <2>3, <2>4, <2>5
  <2> QED
    BY <2>1, <2>2, <2>6
<1>5. \A f \in live' : f < nextFid /\ \E l \in promised' : l[2] = f
  BY DEF LiveInv
<1>6. \A v, u \in Workers : /\ job'[v].pc \in Making /\ job'[u].pc \in Making
                            /\ job'[v].fid = job'[u].fid
                            => v = u
  <2>1. \A v \in Workers : job'[v].pc \in Making =>
                              job[v].pc \in Making /\ job'[v].fid = job[v].fid
    OBVIOUS
  <2> QED
    BY <2>1 DEF LiveInv
<1>7. ASSUME NEW v \in Workers \ {w} PROVE LiveJob(v)'
  <2> DEFINE j == job[v]
  <2>1. LiveJob(v) /\ job'[v] = j
    BY DEF LiveInv
  <2>2. PICK e : e = DataOf(j)
    OBVIOUS
  <2>3. PICK l : l = NewLink(j)
    OBVIOUS
  <2>4. j.pc \in Making \union Removing => j \in Job
    BY <1>1, Types DEF Making, Removing, Steps
  <2>5. j.pc \in Making => /\ e \in Entries /\ l \in Entries /\ e[3] = Data
                           /\ e[2] = j.fid /\ l[2] = j.fid /\ j.dir \in Dirs
                           /\ j.fid \in Nat
    BY <2>2, <2>3, <2>4, GoneTypes, JobFacts DEF DataOf, NewLink
  <2>6. j.pc \in Making => j.fid >= FirstFree /\ j.fid \notin live'
    BY <2>1 DEF LiveJob
  <2>7. ASSUME j.pc \in Unnamed
        PROVE  (Firm(e) => Firm(e)') /\ (Put(e) => Put(e)')
    BY <2>5, <2>7 DEF Unnamed, Making
  <2>8. ASSUME j.pc \in Making, Dead(j.fid)' PROVE View'[e] = Absent
    BY <2>2, <2>5, <2>6, <2>8 DEF Dead, DataOf
  <2>9. ASSUME j.pc \in Making PROVE View[e] = Absent => View'[e] = Absent
    BY <2>5, <2>6, <2>9
  <2>10. ASSUME j.pc \in Making
         PROVE  \/ View'[e] = Absent
                \/ /\ Firm(e) => Firm(e)'
                   /\ Firm(l) => Firm(l)'
                   /\ Put(l) => Put(l)'
    BY <2>5, <2>8, <2>10
  <2>11. PICK f : f = j.fid
    OBVIOUS
  <2>12. ASSUME j.pc \in Removing \ {"unlink"} PROVE Dead(f)'
    <3>1. Dead(f) /\ j \in Job
      BY <2>1, <2>4, <2>11, <2>12 DEF LiveJob
    <3>2. \A d \in Dirs : <<d, f, Data>> \in Entries
      BY <2>11, <3>1, GoneTypes DEF Entries
    <3> QED
      BY <3>1, <3>2 DEF Dead
  <2>13. /\ j.pc = "syncNumbered" => Put(e)'
         /\ j.pc = "mkNamed" => Firm(e)'
    BY <2>1, <2>2, <2>7 DEF LiveJob, Unnamed
  <2>14. j.pc = "syncNamed" => View'[e] = Absent \/ (Firm(e)' /\ Put(l)')
    BY <2>1, <2>2, <2>3, <2>9, <2>10 DEF LiveJob, Making
  <2>15. j.pc = "setAttr" => View'[e] = Absent \/ (Firm(e)' /\ Firm(l)')
    BY <2>1, <2>2, <2>3, <2>9, <2>10 DEF LiveJob, Making
  <2>16. j.pc \in Making => f >= FirstFree /\ f \notin live'
    BY <2>6, <2>11
  <2>17. e = DataOf(job'[v]) /\ l = NewLink(job'[v]) /\ f = job'[v].fid
    BY <2>1, <2>2, <2>3, <2>11
  <2>18. LiveJob(v)' <=>
           LET k == job'[v] IN
           /\ k.pc \in Making => f >= FirstFree /\ f \notin live'
           /\ k.pc = "syncNumbered" => Put(e)'
           /\ k.pc = "mkNamed" => Firm(e)'
           /\ k.pc = "syncNamed" => View'[e] = Absent \/ (Firm(e)' /\ Put(l)')
           /\ k.pc = "setAttr" => View'[e] = Absent \/ (Firm(e)' /\ Firm(l)')
           /\ k.pc \in Removing \ {"unlink"} => Dead(f)'
    BY <2>17 DEF LiveJob
  <2> QED
    BY <2>1, <2>12, <2>13, <2>14, <2>15, <2>16, <2>18
<1> QED
  BY <1>3, <1>4, <1>5, <1>6, <1>7 DEF LiveInv

LEMMA LiveCalm ==
  ASSUME StorageInv, GoneInv, LiveInv, NEW w \in Workers,
         Start(w) \/ Linking(w) \/ Unlinking(w) \/ Contents(w), nextFid' = nextFid,
         live' \subseteq live, promised' = {l \in promised : l[2] \in live'},
         \A e \in Entries : e[3] = Data => (Ever(e)' => e[1] \in Places(e[2])),
         \A e \in Entries :
            \/ (Firm(e) => Firm(e)') /\ (Put(e) => Put(e)')
            \/ /\ Dead(e[2])'
               /\ \A v \in Workers : job[v].pc \in Unnamed => job[v].fid # e[2],
         \A e \in Entries : e[3] = Data /\ e[2] >= FirstFree /\ View[e] = Absent
                               => View'[e] = Absent,
         \/ job'[w].pc \notin Making \union Writing \union (Removing \ {"unlink"})
         \/ \E pc \in Writing : Same(w, pc) /\ job[w].pc \in Writing
         \/ job'[w].pc = "copy" /\ job'[w].dir \in Places(job'[w].fid)
         \/ \E f : job'[w].pc \in Removing /\ job'[w].fid = f /\ Dead(f)'
  PROVE  LiveInv'
<1>1. \A v \in Workers \ {w} : job'[v] = job[v]
  BY GoneTypes, OthersStay
<1>2. /\ Making \intersect Writing = {} /\ Making \intersect Removing = {}
      /\ Writing \intersect Removing = {} /\ "copy" \in Writing
  BY DEF Making, Writing, Filling, Removing
<1>3. job'[w].pc \notin Making
  BY <1>2 DEF Same
<1>4. job'[w].pc \in Writing => job'[w].dir \in Places(job'[w].fid)
  BY <1>2 DEF Same, Places
<1>5. LiveJob(w)'
  <2>1. job'[w].pc \notin {"syncNumbered", "mkNamed", "syncNamed", "setAttr"}
    BY <1>3 DEF Making
  <2>2. CASE \E f : job'[w].pc \in Removing /\ job'[w].fid = f /\ Dead(f)'
    BY <1>3, <2>1, <2>2 DEF LiveJob, Dead
  <2>3. CASE job'[w].pc \notin Removing \ {"unlink"}
    BY <1>3, <2>1, <2>3 DEF LiveJob
  <2> QED
    BY <1>2, <2>2, <2>3 DEF Same
<1> QED
  BY <1>1, <1>3, <1>4, <1>5, LiveFrame

\* A step that leaves the entries, and what was promised.
LEMMA LiveStill ==
  ASSUME StorageInv, GoneInv, LiveInv, NEW w \in Workers,
         Start(w) \/ Linking(w) \/ Unlinking(w) \/ Contents(w),
         UNCHANGED <<disk, log, nextFid, live, promised>>,
         \/ job'[w].pc \notin Making \union Writing \union (Removing \ {"unlink"})
         \/ \E pc \in Writing : Same(w, pc) /\ job[w].pc \in Writing
         \/ job'[w].pc = "copy" /\ job'[w].dir \in Places(job'[w].fid)
  PROVE  LiveInv'
<1>1. /\ View' = View
      /\ \A e : (Ever(e)' <=> Ever(e)) /\ (Firm(e)' <=> Firm(e)) /\ (Put(e)' <=> Put(e))
  BY SameEntries
<1>2. \A e \in Entries : e[3] = Data => (Ever(e) => e[1] \in Places(e[2]))
  <2> SUFFICES ASSUME NEW e \in Entries, e[3] = Data, Ever(e) PROVE e[1] \in Places(e[2])
    OBVIOUS
  <2>1. e = <<e[1], e[2], Data>> /\ e[1] \in Dirs
    BY DEF Entries
  <2> QED
    BY <2>1 DEF Places
<1>3. promised = {l \in promised : l[2] \in live}
  BY DEF LiveInv
<1> QED
  BY <1>1, <1>2, <1>3, LiveCalm

LEMMA LiveStart ==
  ASSUME NoRenames, StorageInv, GoneInv, LiveInv, NEW w \in Workers,
         Start(w) \/ Claim(w) \/ Resolve(w)
  PROVE  LiveInv'
<1>1. TypeOK /\ JobKind(job[w]) /\ UNCHANGED <<disk, log, nextFid, live, promised>>
  BY GoneTypes DEF Start, Claim, Resolve, volume, told
<1>2. job'[w].pc \notin Making \union Writing \union (Removing \ {"unlink"})
  <2>1. CASE Start(w)
    <3>1. job'[w].pc \in {"claim", "resolve", "find"}
      BY <1>1, <2>1, StartJob
    <3> QED
      BY <3>1 DEF Making, Removing, Writing, Filling
  <2>2. CASE Claim(w)
    <3>1. job'[w].pc \in {"idle", "mkNumbered"}
      BY <1>1, <2>2, ClaimJob, FinishJob, JobFacts DEF JobKind, NoRenames, IsCreate
    <3> QED
      BY <3>1 DEF Making, Removing, Writing, Filling
  <2>3. CASE Resolve(w)
    <3>1. job'[w].pc \in {"idle", "unlink", "claim"}
      BY <1>1, <2>3, ResolveJob, FinishJob
    <3> QED
      BY <3>1 DEF Making, Removing, Writing, Filling
  <2> QED
    BY <2>1, <2>2, <2>3
<1> QED
  BY <1>1, <1>2, LiveStill DEF Linking

LEMMA LiveContents ==
  ASSUME StorageInv, GoneInv, LiveInv, NEW w \in Workers, Contents(w), ~Replace(w)
  PROVE  LiveInv'
<1>1. TypeOK /\ EntriesOK /\ UNCHANGED <<disk, log, nextFid, live, promised>>
  BY GoneTypes
     DEF Contents, Find, Copy, OpenTmp, Fill, SyncTmp, Open, ReadAt, told, volume
<1>2. CASE Find(w)
  <2>1. \/ job'[w].pc \in {"idle", "open"}
        \/ /\ job'[w].pc = "copy" /\ job'[w].fid = job[w].fid /\ job'[w].dir \in Dirs
           /\ Exists(<<job'[w].dir, job[w].fid, Data>>)
    BY <1>1, <1>2, ContentsJob, FinishJob DEF AfterFind
  <2>2. job[w] \in Job
    BY <1>1, <1>2, ContentsJob
  <2>3. ASSUME NEW d \in Dirs, Exists(<<d, job[w].fid, Data>>)
        PROVE  d \in Places(job[w].fid)
    <3>1. PICK x : x = <<d, job[w].fid, Data>>
      OBVIOUS
    <3>2. x \in Entries
      BY <2>2, <3>1, GoneTypes DEF Entries
    <3>3. Ever(x)
      BY <1>1, <2>3, <3>1, <3>2, ViewIsEver DEF Exists
    <3> QED
      BY <3>1, <3>3 DEF Places
  <2>4. CASE job'[w].pc \in {"idle", "open"}
    <3>1. job'[w].pc \notin Making \union Writing \union (Removing \ {"unlink"})
      BY <2>4 DEF Making, Removing, Writing, Filling
    <3> QED
      BY <1>1, <3>1, LiveStill
  <2> QED
    BY <1>1, <2>1, <2>3, <2>4, LiveStill
<1>3. CASE ~Find(w)
  <2>1. {"copy", "openTmp", "fill", "syncTmp", "replace"} = Writing
    BY DEF Writing, Filling
  <2>2. \/ \E pc \in Writing : Same(w, pc) /\ job[w].pc \in Writing
        \/ job'[w].pc \in {"idle", "readAt"}
    <3>1. CASE Copy(w)
      BY <1>1, <2>1, <3>1, ContentsJob, FinishJob DEF Copy
    <3>2. CASE OpenTmp(w)
      BY <1>1, <2>1, <3>2, ContentsJob, FinishJob DEF OpenTmp
    <3>3. CASE Fill(w) \/ SyncTmp(w)
      BY <1>1, <2>1, <3>3, ContentsJob DEF Fill, SyncTmp
    <3>4. CASE Open(w) \/ ReadAt(w)
      BY <1>1, <3>4, ContentsJob, FinishJob DEF Same
    <3> QED
      BY <1>3, <3>1, <3>2, <3>3, <3>4 DEF Contents
  <2>3. job'[w].pc \in {"idle", "readAt"} =>
           job'[w].pc \notin Making \union Writing \union (Removing \ {"unlink"})
    BY DEF Making, Removing, Writing, Filling
  <2> QED
    BY <1>1, <2>2, <2>3, LiveStill
<1> QED
  BY <1>2, <1>3

\* A write puts back what was at first, or what is where it was found.
LEMMA LiveReplace ==
  ASSUME NoRenames, WritesOld, StorageInv, GoneInv, LiveInv, NEW w \in Workers, Replace(w)
  PROVE  LiveInv'
<1> DEFINE j == job[w]
<1>0. PICK x : x = DataOf(j)
  OBVIOUS
<1>1. /\ TypeOK /\ EntriesOK /\ j \in Job /\ UNCHANGED <<nextFid, live, promised>>
      /\ j.pc = "replace" /\ job'[w].pc = "idle" /\ JobKind(j)
  BY GoneTypes, ContentsJob, FinishJob DEF Replace
<1>2. job'[w].pc \notin Making \union Writing \union (Removing \ {"unlink"})
  BY <1>1 DEF Making, Removing, Writing, Filling
<1>3. CASE UNCHANGED <<disk, log>>
  BY <1>1, <1>2, <1>3, LiveStill DEF Contents
<1>4. ASSUME NEW i, i # Absent, Update(Set(x, i)) PROVE LiveInv'
  <2>1. /\ x \in Entries /\ x[1] = j.dir /\ x[2] = j.fid
        /\ x[1] \in Places(x[2])
    BY <1>0, <1>1, GoneTypes DEF DataOf, Places, Writing, Filling
  <2>2. j.req.op = "write" /\ j.fid = j.req.fid /\ j.req \in Requests
    BY <1>1, JobFacts DEF JobKind, Writing, Filling
  <2>3. x[2] < FirstFree /\ x[2] \in Nat /\ FirstFree \in Nat
    BY <1>1, <2>1, <2>2, GoneTypes, StorageAssumption DEF WritesOld, StorageAssumption
  <2>4. \A e \in Entries : /\ Firm(e) => Firm(e)'
                           /\ Put(e) => Put(e)'
                           /\ Ever(e)' => Ever(e) \/ e = x
    BY <1>1, <1>4, SetKeepsEver
  <2>5. \A e \in Entries : e[2] >= FirstFree => View'[e] = View[e]
    BY <1>1, <1>4, <2>3, ViewSet
  <2>6. \A e \in Entries : e[3] = Data => (Ever(e)' => e[1] \in Places(e[2]))
    <3> SUFFICES ASSUME NEW e \in Entries, e[3] = Data, Ever(e) PROVE e[1] \in Places(e[2])
      BY <2>1, <2>4
    <3>1. e = <<e[1], e[2], Data>> /\ e[1] \in Dirs
      BY DEF Entries
    <3> QED
      BY <3>1 DEF Places
  <2>7. promised = {l \in promised : l[2] \in live}
    BY DEF LiveInv
  <2> QED
    BY <1>1, <1>2, <2>4, <2>5, <2>6, <2>7, LiveCalm DEF Contents
<1>5. \/ UNCHANGED <<disk, log>>
      \/ \E i : i # Absent /\ Update(Set(x, i))
  BY <1>0 DEF Replace, DataOf
<1> QED
  BY <1>3, <1>4, <1>5

LEMMA EverPlaces ==
  ASSUME NEW e \in Entries, e[3] = Data, Ever(e)
  PROVE  e[1] \in Places(e[2])
<1>1. e = <<e[1], e[2], Data>> /\ e[1] \in Dirs
  BY DEF Entries
<1> QED
  BY <1>1 DEF Places

LEMMA LiveUnlink ==
  ASSUME StorageInv, GoneInv, LiveInv, NEW w \in Workers, Unlink(w)
  PROVE  LiveInv'
<1> DEFINE j == job[w]
<1>0. PICK x : x = DataOf(j)
  OBVIOUS
<1>1. TypeOK /\ EntriesOK /\ j \in Job /\ nextFid' = nextFid /\ j.pc = "unlink"
  BY GoneTypes, UnlinkingJob DEF Unlink
<1>2. CASE Exists(x)
  <2>1. /\ Update(Set(x, Absent)) /\ Same(w, "syncUnlinked")
        /\ live' = live \ {j.fid} /\ promised' = OfOthers(promised, j.fid)
    BY <1>0, <1>1, <1>2, GotoSame DEF Unlink, Steps, DataOf
  <2>2. PICK f : f = j.fid
    OBVIOUS
  <2>3. x \in Entries /\ x[1] = j.dir /\ x[2] = f /\ x[3] = Data /\ x = <<j.dir, f, Data>>
    BY <1>0, <1>1, <2>2, GoneTypes DEF DataOf
  <2>4. promised' = {l \in promised : l[2] \in live'}
    BY <2>1 DEF OfOthers, LiveInv
  <2>5. \A e \in Entries : /\ Ever(e)' => Ever(e)
                           /\ e # x => (Firm(e) => Firm(e)') /\ (Put(e) => Put(e)')
                           /\ View'[e] = IF e = x THEN Absent ELSE View[e]
    BY <1>1, <2>1, SetKeepsEver, ViewSet
  <2>6. \A e \in Entries : e[3] = Data => (Ever(e)' => e[1] \in Places(e[2]))
    BY <2>5, EverPlaces
  <2>7. j.dir \in Places(f) /\ f \in Fid
    BY <1>1, <1>2, <2>3, ViewIsEver, EverPlaces, GoneTypes DEF Exists
  <2>8. ASSUME NEW d \in Dirs PROVE View'[<<d, f, Data>>] = Absent
    <3>1. PICK e : e = <<d, f, Data>>
      OBVIOUS
    <3>2. e \in Entries /\ e[1] = d /\ e[2] = f /\ e[3] = Data
      BY <2>3, <3>1, GoneTypes DEF Entries
    <3>3. View[e] # Absent => e = x
      <4>1. View[e] # Absent => d \in Places(f)
        BY <1>1, <3>2, ViewIsEver, EverPlaces
      <4> QED
        BY <2>3, <2>7, <3>1, <4>1 DEF LiveInv, OnePlace
    <3> QED
      BY <2>5, <3>1, <3>2, <3>3
  <2>9. Dead(f)'
    BY <2>1, <2>2, <2>8 DEF Dead
  <2>10. \A v \in Workers : job[v].pc \in Unnamed => job[v].fid # f
    BY <1>1, <2>2 DEF GoneInv, GoneJob, Removing
  <2>11. \A e \in Entries :
            \/ (Firm(e) => Firm(e)') /\ (Put(e) => Put(e)')
            \/ /\ Dead(e[2])'
               /\ \A v \in Workers : job[v].pc \in Unnamed => job[v].fid # e[2]
    BY <2>3, <2>5, <2>9, <2>10
  <2>12. job'[w].pc \in Removing /\ job'[w].fid = f
    BY <2>1, <2>2 DEF Same, Removing
  <2> QED
    BY <1>1, <2>1, <2>4, <2>5, <2>6, <2>9, <2>11, <2>12, LiveCalm DEF Unlinking
<1>3. CASE ~Exists(x)
  <2>1. UNCHANGED <<disk, log, live, promised>> /\ job'[w].pc = "idle"
    BY <1>0, <1>1, <1>3, FinishJob DEF Unlink, DataOf
  <2>2. job'[w].pc \notin Making \union Writing \union (Removing \ {"unlink"})
    BY <2>1 DEF Making, Removing, Writing, Filling
  <2> QED
    BY <1>1, <2>1, <2>2, LiveStill DEF Unlinking
<1> QED
  BY <1>2, <1>3

LEMMA LiveDropNamed ==
  ASSUME StorageInv, GoneInv, LiveInv, NEW w \in Workers, DropNamed(w)
  PROVE  LiveInv'
<1> DEFINE j == job[w]
<1>0. PICK x : x = OldLink(j)
  OBVIOUS
<1>1. /\ TypeOK /\ EntriesOK /\ j \in Job /\ UNCHANGED <<nextFid, live, promised>>
      /\ j.pc = "dropNamed"
  BY GoneTypes, UnlinkingJob DEF DropNamed, told
<1>2. CASE Exists(x)
  <2>1. Update(Set(x, Absent)) /\ Same(w, "syncDropped")
    BY <1>0, <1>1, <1>2, GotoSame DEF DropNamed, Steps
  <2>2. PICK f : f = j.fid
    OBVIOUS
  <2>3. x \in Entries /\ x[2] = f /\ x[3] # Data
    BY <1>0, <1>1, <2>2, GoneTypes DEF OldLink
  <2>4. \A e \in Entries : /\ Ever(e)' => Ever(e)
                           /\ e # x => /\ Firm(e) => Firm(e)'
                                       /\ Put(e) => Put(e)'
                                       /\ View'[e] = View[e]
    BY <1>1, <2>1, SetKeepsEver, ViewSet
  <2>5. Dead(f)
    BY <1>1, <2>2 DEF LiveInv, LiveJob, Removing
  <2>6. \A d \in Dirs : <<d, f, Data>> \in Entries /\ <<d, f, Data>> # x
    BY <2>2, <2>3, <1>1, GoneTypes DEF Entries
  <2>7. Dead(f)'
    BY <1>1, <2>4, <2>5, <2>6 DEF Dead
  <2>8. \A v \in Workers : job[v].pc \in Unnamed => job[v].fid # f
    BY <1>1, <2>2 DEF GoneInv, GoneJob, Removing
  <2>9. \A e \in Entries :
            \/ (Firm(e) => Firm(e)') /\ (Put(e) => Put(e)')
            \/ /\ Dead(e[2])'
               /\ \A v \in Workers : job[v].pc \in Unnamed => job[v].fid # e[2]
    BY <2>3, <2>4, <2>7, <2>8
  <2>10. \A e \in Entries : e[3] = Data => /\ Ever(e)' => e[1] \in Places(e[2])
                                          /\ View'[e] = View[e]
    BY <2>3, <2>4, EverPlaces
  <2>11. job'[w].pc \in Removing /\ job'[w].fid = f
    BY <2>1, <2>2 DEF Same, Removing
  <2>12. promised = {l \in promised : l[2] \in live}
    BY DEF LiveInv
  <2> QED
    BY <1>1, <2>7, <2>9, <2>10, <2>11, <2>12, LiveCalm DEF Unlinking
<1>3. CASE ~Exists(x)
  <2>1. UNCHANGED <<disk, log>> /\ job'[w].pc = "idle"
    BY <1>0, <1>1, <1>3, FinishJob DEF DropNamed
  <2>2. job'[w].pc \notin Making \union Writing \union (Removing \ {"unlink"})
    BY <2>1 DEF Making, Removing, Writing, Filling
  <2> QED
    BY <1>1, <2>1, <2>2, LiveStill DEF Unlinking
<1> QED
  BY <1>2, <1>3

\* The syncs of a remove.
LEMMA LiveSyncRemoved ==
  ASSUME StorageInv, GoneInv, LiveInv, NEW w \in Workers, SyncUnlinked(w) \/ SyncDropped(w)
  PROVE  LiveInv'
<1> DEFINE j == job[w]
<1>1. /\ TypeOK /\ EntriesOK /\ j \in Job /\ UNCHANGED <<nextFid, live, promised>>
      /\ Fsync(j.dir)
  BY GoneTypes, UnlinkingJob DEF SyncUnlinked, SyncDropped, told
<1>2. \A e \in Entries : /\ Ever(e)' => Ever(e)
                         /\ Firm(e) => Firm(e)'
                         /\ Put(e) => Put(e)'
                         /\ View'[e] = View[e]
  BY <1>1, FsyncFewer, FewerKeeps, FsyncView, SyncKeeps
<1>3. \A e \in Entries : e[3] = Data => (Ever(e)' => e[1] \in Places(e[2]))
  BY <1>2, EverPlaces
<1>4. promised = {l \in promised : l[2] \in live}
  BY DEF LiveInv
<1>5. \/ job'[w].pc \notin Making \union Writing \union (Removing \ {"unlink"})
      \/ \E f : job'[w].pc \in Removing /\ job'[w].fid = f /\ Dead(f)'
  <2>1. CASE SyncDropped(w)
    <3>1. job'[w].pc = "idle"
      BY <1>1, <2>1, UnlinkingJob, FinishJob
    <3> QED
      BY <3>1 DEF Making, Removing, Writing, Filling
  <2>2. CASE SyncUnlinked(w)
    <3>1. PICK f : f = j.fid
      OBVIOUS
    <3>2. Dead(f) /\ job'[w].pc \in Removing /\ job'[w].fid = f
      BY <1>1, <2>2, <3>1, UnlinkingJob
         DEF LiveInv, LiveJob, SyncUnlinked, Removing, Same
    <3>3. \A d \in Dirs : <<d, f, Data>> \in Entries
      BY <1>1, <3>1, GoneTypes DEF Entries
    <3>4. Dead(f)'
      BY <1>1, <1>2, <3>2, <3>3 DEF Dead
    <3> QED
      BY <3>2, <3>4
  <2> QED
    BY <2>1, <2>2
<1> QED
  BY <1>1, <1>2, <1>3, <1>4, <1>5, LiveCalm DEF Unlinking

LEMMA LiveMkNamed ==
  ASSUME NoRenames, StorageInv, GoneInv, LiveInv, NEW w \in Workers, MkNamed(w)
  PROVE  LiveInv'
<1> DEFINE j == job[w]
<1>0. PICK x, e, f : x = NewLink(j) /\ e = DataOf(j) /\ f = j.fid
  OBVIOUS
<1>1. /\ TypeOK /\ EntriesOK /\ j \in Job /\ UNCHANGED <<nextFid, live, promised>>
      /\ j.pc = "mkNamed" /\ JobKind(j)
  BY GoneTypes, LinkingJob DEF MkNamed
<1>2. j.req.op = "create"
  BY <1>1, JobFacts DEF JobKind, NoRenames
<1>3. /\ Update(Set(x, EmptyFile)) /\ EmptyFile # Absent /\ Same(w, "syncNamed")
  BY <1>0, <1>1, <1>2, LinkingJob DEF MkNamed, AfterMkNamed, IsCreate, EmptyFile, Absent
<1>4. /\ x \in Entries /\ x[2] = f /\ x[3] # Data
      /\ e \in Entries /\ e[3] = Data /\ e[1] = j.dir /\ e[2] = f
  BY <1>0, <1>1, GoneTypes DEF NewLink, DataOf
<1>5. \A z \in Entries : /\ Ever(z)' => Ever(z) \/ z = x
                         /\ Firm(z) => Firm(z)'
                         /\ Put(z) => Put(z)'
                         /\ z # x => View'[z] = View[z]
  BY <1>1, <1>3, SetKeepsEver, ViewSet
<1>6. \A z \in Entries : z[3] = Data => /\ Ever(z)' => z[1] \in Places(z[2])
                                       /\ View'[z] = View[z]
  BY <1>4, <1>5, EverPlaces
<1>7. Put(x)'
  <2>1. Never(x)
    BY <1>0, <1>1, <1>4 DEF GoneInv, GoneJob, Unnamed
  <2> QED
    BY <1>1, <1>3, <1>4, <2>1, SetKeepsEver
<1>8. f >= FirstFree /\ f \notin live /\ Firm(e) /\ e[1] \in Places(f)
  BY <1>0, <1>1, <1>4 DEF LiveInv, LiveJob, Making, Places
<1>9. LiveJob(w)'
  <2>1. x = NewLink(job'[w]) /\ e = DataOf(job'[w]) /\ f = job'[w].fid
        /\ job'[w].pc = "syncNamed"
    BY <1>0, <1>3 DEF Same, NewLink, DataOf, Target, IsCreate
  <2>2. Firm(e)'
    BY <1>4, <1>5, <1>8
  <2> QED
    BY <1>1, <1>7, <1>8, <2>1, <2>2 DEF LiveJob, Removing
<1>10. /\ job'[w].pc \in Making => j.pc \in Making /\ job'[w].fid = j.fid
       /\ job'[w].dir \in Places(job'[w].fid)
  BY <1>0, <1>1, <1>3, <1>4, <1>8 DEF Same, Making
<1>11. promised = {l \in promised : l[2] \in live}
  BY DEF LiveInv
<1>12. \A v \in Workers \ {w} : job'[v] = job[v]
  BY <1>1, OthersStay DEF Linking
<1> QED
  BY <1>1, <1>5, <1>6, <1>9, <1>10, <1>11, <1>12, LiveFrame

LEMMA LiveSync ==
  ASSUME NoRenames, StorageInv, GoneInv, LiveInv, NEW w \in Workers, Sync(w)
  PROVE  LiveInv'
<1> DEFINE j == job[w]
<1>0. PICK x, e, f : x = NewLink(j) /\ e = DataOf(j) /\ f = j.fid
  OBVIOUS
<1>1. /\ TypeOK /\ EntriesOK /\ j \in Job /\ UNCHANGED <<nextFid, live, promised>>
      /\ JobKind(j) /\ Fsync(j.dir)
  BY GoneTypes, LinkingJob DEF Sync, told
<1>2. \/ j.pc = "syncNumbered" /\ Same(w, "mkNamed")
      \/ j.pc = "syncNamed" /\ Same(w, "setAttr")
  BY <1>1, LinkingJob, JobFacts DEF JobKind, Renaming, NoRenames
<1>3. j.pc \in Making /\ job'[w].pc \in Making
  BY <1>2 DEF Same, Making
<1>4. /\ x \in Entries /\ x[1] = j.dir
      /\ e \in Entries /\ e[3] = Data /\ e[1] = j.dir /\ e[2] = f
  BY <1>0, <1>1, <1>3, GoneTypes DEF NewLink, DataOf, JobKind
<1>5. \A z \in Entries : /\ Ever(z)' => Ever(z)
                         /\ Firm(z) => Firm(z)'
                         /\ Put(z) => Put(z)'
                         /\ Put(z) /\ z[1] = j.dir => Firm(z)'
                         /\ View'[z] = View[z]
  BY <1>1, FsyncFewer, FewerKeeps, FsyncView, SyncKeeps
<1>6. \A z \in Entries : z[3] = Data => (Ever(z)' => z[1] \in Places(z[2]))
  BY <1>5, EverPlaces
<1>7. f >= FirstFree /\ f \notin live /\ j.dir \in Places(f) /\ LiveJob(w)
  BY <1>0, <1>3 DEF LiveInv, LiveJob, Places
<1>8. x = NewLink(job'[w]) /\ e = DataOf(job'[w]) /\ f = job'[w].fid
  BY <1>0, <1>2 DEF Same, NewLink, DataOf, Target, IsCreate
<1>9. LiveJob(w)'
  <2>1. CASE j.pc = "syncNumbered" /\ Same(w, "mkNamed")
    <3>1. Firm(e)' /\ job'[w].pc = "mkNamed"
      BY <1>0, <1>4, <1>5, <1>7, <2>1 DEF LiveJob, Same
    <3> QED
      BY <1>1, <1>7, <1>8, <3>1 DEF LiveJob, Removing
  <2>2. CASE j.pc = "syncNamed" /\ Same(w, "setAttr")
    <3>1. job'[w].pc = "setAttr" /\ (View'[e] = Absent \/ (Firm(e)' /\ Firm(x)'))
      BY <1>0, <1>4, <1>5, <1>7, <2>2 DEF LiveJob, Same
    <3> QED
      BY <1>1, <1>7, <1>8, <3>1 DEF LiveJob, Removing
  <2> QED
    BY <1>2, <2>1, <2>2
<1>10. job'[w].fid = j.fid /\ job'[w].dir \in Places(job'[w].fid)
  BY <1>0, <1>2, <1>7 DEF Same
<1>11. promised = {l \in promised : l[2] \in live}
  BY DEF LiveInv
<1>12. \A v \in Workers \ {w} : job'[v] = job[v]
  BY <1>1, OthersStay DEF Linking
<1> QED
  BY <1>1, <1>3, <1>5, <1>6, <1>9, <1>10, <1>11, <1>12, LiveFrame

\* The client is told: both entries of the file are on stable storage.
LEMMA LiveSetAttr ==
  ASSUME StorageInv, GoneInv, LiveInv, NEW w \in Workers, SetAttr(w)
  PROVE  LiveInv'
<1> DEFINE j == job[w]
<1>0. PICK x, e, f : x = NewLink(j) /\ e = DataOf(j) /\ f = j.fid
  OBVIOUS
<1>1. /\ TypeOK /\ EntriesOK /\ j \in Job /\ UNCHANGED <<disk, log, nextFid>>
      /\ j.pc = "setAttr" /\ job'[w].pc = "idle" /\ j.pc \in Making
  BY GoneTypes, LinkingJob, FinishJob DEF SetAttr, volume, Making
<1>2. job'[w].pc \notin Making \union Writing \union (Removing \ {"unlink"})
  BY <1>1 DEF Making, Removing, Writing, Filling
<1>3. CASE ~Exists(e)
  BY <1>0, <1>1, <1>2, <1>3, LiveStill DEF SetAttr, DataOf, Linking
<1>4. CASE Exists(e)
  <2>1. promised' = promised \union {x} /\ live' = live \union {f}
    BY <1>0, <1>4 DEF SetAttr, DataOf
  <2>2. /\ View' = View
        /\ \A z : (Ever(z)' <=> Ever(z)) /\ (Firm(z)' <=> Firm(z)) /\ (Put(z)' <=> Put(z))
    BY <1>1, SameEntries
  <2>3. /\ \A v \in Workers \ {w} : job'[v] = job[v]
    BY <1>1, OthersStay DEF Linking
  <2>4. /\ Firm(e) /\ Firm(x) /\ f >= FirstFree /\ f < nextFid /\ f \in Fid
        /\ j.dir \in Dirs
    BY <1>0, <1>1, <1>4, JobFacts DEF LiveInv, LiveJob, GoneInv, GoneJob, Exists
  <2>5. x[2] = f /\ x[1] = j.dir /\ <<x[1], x[2], Data>> = e
    <3>1. JobKind(j)
      BY GoneTypes
    <3> QED
      BY <1>0, <1>1, <3>1 DEF NewLink, DataOf, JobKind
  <2>6. \A z : Places(z)' \subseteq Places(z)
    <3> SUFFICES ASSUME NEW z, NEW d \in Places(z)' PROVE d \in Places(z)
      OBVIOUS
    <3>1. CASE d \in Dirs /\ Ever(<<d, z, Data>>)'
      BY <2>2, <3>1 DEF Places
    <3>2. CASE \E v \in Workers : /\ job'[v].pc \in Making \union Writing
                                  /\ job'[v].fid = z /\ job'[v].dir = d
      <4>1. PICK v \in Workers : /\ job'[v].pc \in Making \union Writing
                                 /\ job'[v].fid = z /\ job'[v].dir = d
        BY <3>2
      <4>2. job'[v] = job[v]
        BY <1>2, <2>3, <4>1
      <4> QED
        BY <4>1, <4>2 DEF Places
    <3> QED
      BY <3>1, <3>2 DEF Places
  <2>7. OnePlace'
    BY <2>6 DEF LiveInv, OnePlace
  <2>8. \A l \in promised' : l[2] \in live' /\ Firm(<<l[1], l[2], Data>>)' /\ Firm(l)'
    BY <2>1, <2>2, <2>4, <2>5 DEF LiveInv
  <2>9. \A g \in live' : g < nextFid /\ \E l \in promised' : l[2] = g
    BY <2>1, <2>4, <2>5 DEF LiveInv
  <2>10. \A v, u \in Workers : /\ job'[v].pc \in Making /\ job'[u].pc \in Making
                               /\ job'[v].fid = job'[u].fid
                               => v = u
    BY <1>2, <2>3 DEF LiveInv
  <2>11. ASSUME NEW v \in Workers \ {w} PROVE LiveJob(v)'
    <3>1. LiveJob(v) /\ job'[v] = job[v]
      BY <2>3 DEF LiveInv
    <3>2. job[v].pc \in Making => job[v].fid # f
      BY <1>0, <1>1 DEF LiveInv
    <3>3. job[v].pc \in Removing \ {"unlink"} => job[v].fid # f
      <4>1. Dead(f) => View[e] = Absent
        BY <1>0, <2>4 DEF Dead, DataOf
      <4>2. ~Dead(f)
        BY <1>4, <4>1 DEF Exists
      <4> QED
        BY <3>1, <4>2 DEF LiveJob
    <3> QED
      BY <2>1, <2>2, <3>1, <3>2, <3>3 DEF LiveJob, Dead
  <2>12. LiveJob(w)'
    BY <1>1, <1>2 DEF LiveJob, Making, Removing
  <2> QED
    BY <1>1, <2>7, <2>8, <2>9, <2>10, <2>11, <2>12 DEF LiveInv
<1> QED
  BY <1>3, <1>4

LEMMA LiveMkNumbered ==
  ASSUME StorageInv, GoneInv, LiveInv, NEW w \in Workers, MkNumbered(w)
  PROVE  LiveInv'
<1> DEFINE j == job[w]
<1>0. PICK x, f : x = <<j.dir, nextFid, Data>> /\ f = nextFid
  OBVIOUS
<1>1. /\ TypeOK /\ EntriesOK /\ j \in Job /\ UNCHANGED <<live, promised>>
      /\ job'[w].pc = "syncNumbered" /\ job'[w].fid = f /\ job'[w].dir = j.dir
      /\ nextFid' = f + 1 /\ f \in Fid /\ f \in Nat
      /\ Update(Set(x, EmptyFile)) /\ EmptyFile # Absent
  BY <1>0, GoneTypes, MkNumberedJob DEF MkNumbered, told, EmptyFile, Absent
<1>2. /\ x \in Entries /\ x[1] = j.dir /\ x[2] = f /\ x[3] = Data
      /\ DataOf(job'[w]) = x
  BY <1>0, <1>1, JobFacts DEF Entries, DataOf
<1>3. \A v \in Workers \ {w} : job'[v] = job[v]
  BY <1>1, OthersStay DEF Linking
<1>4. \A z \in Entries : /\ Ever(z)' => Ever(z) \/ z = x
                         /\ Firm(z) => Firm(z)'
                         /\ Put(z) => Put(z)'
                         /\ z # x => View'[z] = View[z]
  BY <1>1, SetKeepsEver, ViewSet
<1>5. \A z \in Entries : z[2] = f => Never(z)
  BY <1>0, <1>1 DEF GoneInv
<1>6. \A v \in Workers : job[v].pc \in Making \union Removing \union Writing =>
                         job[v].fid # f
  BY <1>0, <1>1 DEF GoneInv, GoneJob
<1>7. f \notin live /\ f >= FirstFree
  BY <1>0, <1>1 DEF LiveInv
<1>8. OnePlace'
  <2>1. ASSUME NEW z \in Fid, NEW d \in Places(z)'
        PROVE  IF z = f THEN d = j.dir ELSE d \in Places(z)
    <3>1. CASE d \in Dirs /\ Ever(<<d, z, Data>>)'
      <4>1. PICK e : e = <<d, z, Data>>
        OBVIOUS
      <4>2. e \in Entries /\ e[1] = d /\ e[2] = z /\ e[3] = Data
        BY <3>1, <4>1 DEF Entries
      <4>3. Ever(e) \/ e = x
        BY <1>4, <3>1, <4>1, <4>2
      <4>4. z = f => e = x
        BY <1>1, <1>5, <4>2, <4>3, ViewIsEver
      <4> QED
        BY <1>2, <3>1, <4>1, <4>2, <4>3, <4>4 DEF Places
    <3>2. CASE \E v \in Workers : /\ job'[v].pc \in Making \union Writing
                                  /\ job'[v].fid = z /\ job'[v].dir = d
      <4>1. PICK v \in Workers : /\ job'[v].pc \in Making \union Writing
                                 /\ job'[v].fid = z /\ job'[v].dir = d
        BY <3>2
      <4> QED
        BY <1>1, <1>3, <1>6, <4>1 DEF Places
    <3> QED
      BY <3>1, <3>2 DEF Places
  <2> QED
    BY <2>1 DEF LiveInv, OnePlace
<1>9. ASSUME NEW l \in promised'
      PROVE  l[2] \in live' /\ Firm(<<l[1], l[2], Data>>)' /\ Firm(l)'
  <2>1. PICK e : e = <<l[1], l[2], Data>>
    OBVIOUS
  <2>2. e \in Entries /\ l \in Entries
    BY <1>1, <2>1 DEF Entries, TypeOK
  <2> QED
    BY <1>1, <1>4, <2>1, <2>2 DEF LiveInv
<1>10. \A g \in live' : g < nextFid' /\ \E l \in promised' : l[2] = g
  <2>1. \A g \in live : g \in Nat /\ g < f
    BY <1>0, <1>1, Bounds DEF LiveInv, TypeOK, Fid
  <2> QED
    BY <1>1, <2>1 DEF LiveInv
<1>11. \A v, u \in Workers : /\ job'[v].pc \in Making /\ job'[u].pc \in Making
                             /\ job'[v].fid = job'[u].fid
                             => v = u
  BY <1>1, <1>3, <1>6 DEF LiveInv
<1>12. nextFid' >= FirstFree
  <2>1. FirstFree \in Nat
    BY StorageAssumption DEF StorageAssumption
  <2> QED
    BY <1>1, <1>7, <2>1
<1>13. LiveJob(w)'
  <2>1. Put(x)'
    BY <1>1, <1>2, <1>5, SetKeepsEver
  <2> QED
    BY <1>1, <1>2, <1>7, <2>1 DEF LiveJob, Making, Removing
<1>14. ASSUME NEW v \in Workers \ {w} PROVE LiveJob(v)'
  <2>1. LiveJob(v) /\ job'[v] = job[v]
    BY <1>3 DEF LiveInv
  <2>2. PICK e, l, g : e = DataOf(job[v]) /\ l = NewLink(job[v]) /\ g = job[v].fid
    OBVIOUS
  <2>3. job[v].pc \in Making \union Removing => job[v] \in Job
    BY <1>1, Types DEF Making, Removing, Steps
  <2>4. job[v].pc \in Making => /\ e \in Entries /\ l \in Entries /\ e # x
    BY <1>2, <1>6, <2>2, <2>3, GoneTypes DEF DataOf
  <2>5. ASSUME job[v].pc \in Removing, Dead(g) PROVE Dead(g)'
    <3>1. \A d \in Dirs : <<d, g, Data>> \in Entries /\ <<d, g, Data>> # x
      BY <1>2, <1>6, <2>2, <2>3, <2>5, GoneTypes DEF Entries
    <3> QED
      BY <1>1, <1>4, <2>5, <3>1 DEF Dead
  <2>6. e = DataOf(job'[v]) /\ l = NewLink(job'[v]) /\ g = job'[v].fid
    BY <2>1, <2>2
  <2>7. LiveJob(v)' <=>
           LET k == job'[v] IN
           /\ k.pc \in Making => g >= FirstFree /\ g \notin live'
           /\ k.pc = "syncNumbered" => Put(e)'
           /\ k.pc = "mkNamed" => Firm(e)'
           /\ k.pc = "syncNamed" => View'[e] = Absent \/ (Firm(e)' /\ Put(l)')
           /\ k.pc = "setAttr" => View'[e] = Absent \/ (Firm(e)' /\ Firm(l)')
           /\ k.pc \in Removing \ {"unlink"} => Dead(g)'
    BY <2>6 DEF LiveJob
  <2>8. LiveJob(v) <=>
           LET k == job[v] IN
           /\ k.pc \in Making => g >= FirstFree /\ g \notin live
           /\ k.pc = "syncNumbered" => Put(e)
           /\ k.pc = "mkNamed" => Firm(e)
           /\ k.pc = "syncNamed" => View[e] = Absent \/ (Firm(e) /\ Put(l))
           /\ k.pc = "setAttr" => View[e] = Absent \/ (Firm(e) /\ Firm(l))
           /\ k.pc \in Removing \ {"unlink"} => Dead(g)
    BY <2>2 DEF LiveJob
  <2>9. job[v].pc \in Making => /\ Put(e) => Put(e)'
                                /\ Firm(e) => Firm(e)'
                                /\ Put(l) => Put(l)'
                                /\ Firm(l) => Firm(l)'
                                /\ View'[e] = View[e]
    BY <1>4, <2>4
  <2> QED
    BY <1>1, <2>1, <2>5, <2>7, <2>8, <2>9 DEF Making
<1> QED
  BY <1>8, <1>9, <1>10, <1>11, <1>12, <1>13, <1>14 DEF LiveInv

LEMMA LiveFailures ==
  ASSUME StorageInv, GoneInv, LiveInv, Kill \/ PowerFailure
  PROVE  LiveInv'
<1>1. /\ job' = [w \in Workers |-> Idle] /\ UNCHANGED <<nextFid, live, promised>>
      /\ TypeOK /\ EntriesOK
  BY GoneTypes DEF Kill, PowerFailure, Restart, told
<1>2. \A e \in Entries : (Ever(e)' => Ever(e)) /\ (Firm(e) => Firm(e)')
  <2>1. CASE Kill
    BY <2>1, SameEntries DEF Kill
  <2>2. CASE PowerFailure
    BY <1>1, <2>2, PowerFewer, FewerKeeps
  <2> QED
    BY <2>1, <2>2
<1>3. \A w \in Workers : job'[w].pc = "idle"
  BY <1>1 DEF Idle
<1>4. ASSUME NEW f \in Fid, NEW d \in Places(f)' PROVE d \in Places(f)
  <2>1. d \in Dirs /\ Ever(<<d, f, Data>>)'
    BY <1>3 DEF Places, Making, Writing, Filling
  <2>2. <<d, f, Data>> \in Entries
    BY <2>1 DEF Entries
  <2>3. PICK e : e = <<d, f, Data>>
    OBVIOUS
  <2>4. Ever(e)
    BY <1>2, <2>1, <2>2, <2>3
  <2> QED
    BY <2>1, <2>3, <2>4 DEF Places
<1>5. OnePlace'
  BY <1>4 DEF LiveInv, OnePlace
<1>6. ASSUME NEW l \in promised'
      PROVE  l[2] \in live' /\ Firm(<<l[1], l[2], Data>>)' /\ Firm(l)'
  <2>1. PICK e : e = <<l[1], l[2], Data>>
    OBVIOUS
  <2>2. e \in Entries /\ l \in Entries
    BY <1>1, <2>1 DEF Entries, TypeOK
  <2> QED
    BY <1>1, <1>2, <2>1, <2>2 DEF LiveInv
<1>7. \A w \in Workers : LiveJob(w)' /\ job'[w].pc \notin Making
  BY <1>3 DEF LiveJob, Making, Removing
<1> QED
  BY <1>1, <1>5, <1>6, <1>7 DEF LiveInv

LEMMA LiveInit ==
  ASSUME TidyLinks, Init
  PROVE  LiveInv
<1>1. \A w \in Workers : job[w].pc = "idle"
  BY DEF Init, Idle
<1>2. /\ log = <<>> /\ nextFid = FirstFree /\ promised = InitLinks
      /\ live = {l[2] : l \in InitLinks} /\ InitLinks \subseteq Dirs \X Fid \X Names
      /\ FirstFree \in Nat
  BY StorageAssumption DEF Init, StorageAssumption
<1>3. ASSUME NEW f \in Fid, NEW d \in Places(f)
      PROVE  \E l \in InitLinks : l[1] = d /\ l[2] = f
  <2>1. d \in Dirs /\ Ever(<<d, f, Data>>)
    BY <1>1 DEF Places, Making, Writing, Filling
  <2>2. <<d, f, Data>> \in Entries /\ disk[<<d, f, Data>>] # Absent
    BY <1>2, <2>1 DEF Entries, Ever
  <2> QED
    BY <2>2, InitEntries
<1>4. OnePlace
  BY <1>3 DEF OnePlace, TidyLinks
<1>5. ASSUME NEW l \in InitLinks PROVE Firm(<<l[1], l[2], Data>>) /\ Firm(l)
  <2>1. <<l[1], l[2], Data>> \in Entries /\ l \in Entries
    BY <1>2 DEF Entries
  <2>2. disk[<<l[1], l[2], Data>>] = EmptyFile /\ disk[l] = EmptyFile
    BY <2>1 DEF Init, InitDisk
  <2> QED
    BY <1>2, <2>2 DEF Firm, NoneTakesAway, EmptyFile, Absent
<1>6. \A w \in Workers : LiveJob(w) /\ job[w].pc \notin Making
  BY <1>1 DEF LiveJob, Making, Removing
<1> QED
  BY <1>2, <1>4, <1>5, <1>6 DEF LiveInv, TidyLinks

LEMMA LiveNext ==
  ASSUME NoRenames, WritesOld, StorageInv, GoneInv, LiveInv, [Next]_vars
  PROVE  LiveInv'
<1>1. ASSUME NEW w \in Workers, Start(w) \/ Linking(w) \/ Unlinking(w) \/ Contents(w)
      PROVE  LiveInv'
  <2>1. ~Move(w) /\ ~SyncMoved(w) /\ ~DropOld(w)
    BY NothingMoves, GoneTypes
  <2>2. CASE Start(w) \/ Linking(w)
    BY <2>1, <2>2, LiveStart, LiveMkNumbered, LiveMkNamed, LiveSync, LiveSetAttr
       DEF Linking
  <2>3. CASE Unlinking(w)
    BY <2>3, LiveUnlink, LiveDropNamed, LiveSyncRemoved DEF Unlinking
  <2>4. CASE Contents(w)
    BY <2>4, LiveContents, LiveReplace
  <2> QED
    BY <1>1, <2>2, <2>3, <2>4
<1>2. CASE UNCHANGED vars
  <2>1. UNCHANGED <<disk, log, nextFid, live, promised, job>>
    BY <1>2 DEF vars, volume, told
  <2>2. /\ View' = View
        /\ \A z : (Ever(z)' <=> Ever(z)) /\ (Firm(z)' <=> Firm(z)) /\ (Put(z)' <=> Put(z))
    BY <2>1, SameEntries
  <2>3. \A w \in Workers : LiveJob(w) => LiveJob(w)'
    BY <2>1, <2>2 DEF LiveJob, Dead
  <2>4. \A f : Places(f)' = Places(f)
    BY <2>1, <2>2 DEF Places
  <2> QED
    BY <2>1, <2>2, <2>3, <2>4 DEF LiveInv, OnePlace
<1> QED
  BY <1>1, <1>2, LiveFailures DEF Next

LEMMA LiveAlways ==
  ASSUME NoRenames, TidyLinks, WritesOld
  PROVE  Spec => [](StorageInv /\ GoneInv /\ LiveInv)
<1>1. Init => GoneInv /\ LiveInv
  BY GoneInit, LiveInit
<1>2. StorageInv /\ GoneInv /\ LiveInv /\ [Next]_vars => GoneInv' /\ LiveInv'
  BY GoneNext, LiveNext
<1> QED
  BY <1>1, <1>2, StorageInvariant, PTL DEF Spec

(* What a create that was acknowledged made is there, both entries of it,  *)
(* after any power failure, until it is removed: the two syncs of          *)
(* fs_create_obj (mod.rs:466-473) come before the reply, and nothing but a *)
(* remove takes an entry away.                                             *)
THEOREM AcknowledgedSurvives ==
  ASSUME NoRenames, TidyLinks, WritesOld
  PROVE  Spec => []Survives
<1>1. ASSUME StorageInv, GoneInv, LiveInv, NEW l \in promised PROVE Visible(l[1], l[2], l[3])
  <2>1. /\ EntriesOK /\ promised \subseteq Dirs \X Fid \X Names
    BY <1>1, GoneTypes DEF TypeOK
  <2>2. <<l[1], l[2], Data>> \in Entries /\ l \in Entries /\ l = <<l[1], l[2], l[3]>>
    BY <2>1, <1>1 DEF Entries
  <2>3. Firm(<<l[1], l[2], Data>>) /\ Firm(l)
    BY <1>1 DEF LiveInv
  <2> QED
    BY <2>1, <2>2, <2>3, ViewIsEver DEF Visible, Exists
<1>2. StorageInv /\ GoneInv /\ LiveInv => Survives
  BY <1>1 DEF Survives
<1> QED
  BY <1>2, LiveAlways, PTL

(* A file that was acknowledged is in one directory, with its data and its *)
(* metadata file together, until it is unlinked (README, Crash Recovery),  *)
(* when nothing is renamed.                                                *)
THEOREM FilesExistOnce ==
  ASSUME NoRenames, TidyLinks, WritesOld
  PROVE  Spec => []Existing
<1>1. ASSUME StorageInv, GoneInv, LiveInv, NEW f \in live
      PROVE  \E d \in Dirs : \A c \in Dirs : VisibleIn(c, f) <=> c = d
  <2>1. /\ EntriesOK /\ promised \subseteq Dirs \X Fid \X Names /\ f \in Fid
    BY <1>1, GoneTypes DEF TypeOK
  <2>2. PICK l \in promised : l[2] = f
    BY <1>1 DEF LiveInv
  <2>3. PICK d \in Dirs : d = l[1]
    BY <2>1
  <2>4. <<d, f, Data>> \in Entries /\ l \in Entries /\ l = <<d, f, l[3]>> /\ l[3] \in Names
    BY <2>1, <2>2, <2>3 DEF Entries
  <2>5. Firm(<<d, f, Data>>) /\ Firm(l)
    BY <1>1, <2>2, <2>3 DEF LiveInv
  <2>6. VisibleIn(d, f)
    BY <2>1, <2>4, <2>5, ViewIsEver DEF VisibleIn, Visible, Exists
  <2>7. ASSUME NEW c \in Dirs, VisibleIn(c, f) PROVE c \in Places(f)
    <3>1. Exists(<<c, f, Data>>)
      BY <2>7 DEF VisibleIn, Visible
    <3>2. <<c, f, Data>> \in Entries
      BY <2>1 DEF Entries
    <3>3. Ever(<<c, f, Data>>)
      BY <2>1, <3>1, <3>2, ViewIsEver DEF Exists
    <3> QED
      BY <3>3 DEF Places
  <2> QED
    BY <1>1, <2>1, <2>6, <2>7 DEF LiveInv, OnePlace
<1>2. StorageInv /\ GoneInv /\ LiveInv => Existing
  BY <1>1 DEF Existing
<1> QED
  BY <1>2, LiveAlways, PTL
=============================================================================
