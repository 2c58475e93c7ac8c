----------------------- MODULE NamespaceAtomicProofs ------------------------
(***************************************************************************)
(* What Namespace promises when nothing is renamed, proved for any number  *)
(* of workers, requests and crashes: names are unique, fid_cache is never  *)
(* poisoned, the visible links are those of the abstract NfsTree, and no   *)
(* file is lost.  And what it promises, renames included, when one worker  *)
(* is by itself: no file is lost, fid_cache is right and not poisoned, and *)
(* no name stays locked.                                                   *)
(***************************************************************************)
EXTENDS NamespaceProofs, FiniteNumbers

(* Without renames, AtomicTree and NamesUnique hold whatever the workers   *)
(* do at the same time.  These are the reasons.                            *)

NoRenames == \A r \in Requests : r.op # "rename"

\* Every name that is a pattern at all matches itself.
Literal == \A n \in Names \ NoPattern : <<n, n>> \in Like

\* No junk that a rename left when the server crashed in it.
CleanStart ==
    /\ \A e \in InitNamed : e[2] < FirstFree
    /\ \A e, g \in InitNamed :
          e[2] = g[2] \/ (/\ <<e[1], e[3]>> = <<g[1], g[3]>>
                          /\ InitNumbered[e[2]] = e[1] /\ InitNumbered[g[2]] = g[1])
          => e = g

\* f has been found, by its name or its FID: it has a name or is gone again.
Known(f) ==
    /\ f < nextFid
    /\ f = Root \/ numbered[f] = None \/ \E n \in Names : <<numbered[f], f, n>> \in named

\* Only creates take names, only the others give them up, and nothing moves.
JobKind(j) ==
    /\ j.pc \in {"findDst", "extDst", "lock", "cacheIns"} \union Owning => IsCreate(j)
    /\ j.pc \in {"readDir", "unlink", "dropNamed"} => ~IsCreate(j)
    /\ j.pc \notin {"move", "dropOld"}

\* What a handler has found.
JobKnown(j) ==
    /\ \A i \in 1 .. Len(j.src) : Known(j.src[i])
    /\ \A i \in 1 .. Len(j.dst) : Known(j.dst[i])
    /\ \A m \in j.pairs : Known(m[1])
    /\ j.pc \in {"setAttr", "cacheIns", "readDir", "unlink"} => Known(j.fid)

\* A file that is being made has its place and no name.
Making(j) ==
    j.pc = "mkNamed" =>
        /\ numbered[j.fid] = Here(j.dst) /\ j.fid < nextFid
        /\ \A e \in named : j.fid \notin {e[1], e[2]}

\* A name that was found free is still so while it is locked.
NameFree(j) ==
    j.pc \in {"mkNumbered", "mkNamed"} /\ Exists(j.dst) =>
        \A e \in named : e[1] = Here(j.dst) /\ e[3] = j.req.toname
                         => numbered[e[2]] # e[1]

\* A file that was unlinked keeps its directory until its name is dropped.
Leaving(j) ==
    j.pc = "dropNamed" =>
        /\ numbered[j.fid] = None /\ j.fid < nextFid /\ IsDir(j.src)
        /\ \E n \in Names : <<Here(j.src), j.fid, n>> \in named

\* No two make, or drop the name of, the same file.
Apart ==
    \A v, w \in Workers :
        /\ job[v].pc = job[w].pc /\ job[v].pc \in {"mkNamed", "dropNamed"}
        /\ job[v].fid = job[w].fid
        => v = w

OneName ==
    /\ \A e \in named : e[2] < nextFid
    /\ \A e, g \in named : e[2] = g[2] => e = g

AtomicInv ==
    /\ \A w \in Workers : LET j == job[w] IN
          JobKind(j) /\ JobKnown(j) /\ Making(j) /\ NameFree(j) /\ Leaving(j)
    /\ \A f \in Fid : cache[f] # None => Known(f)
    /\ Apart /\ OneName /\ NamesUnique /\ NeverPoisoned

Good == IInv /\ TreeInv /\ AtomicInv

\* No file moves, and none that has a name loses it before it is unlinked.
Onward ==
    /\ nextFid <= nextFid'
    /\ \A g \in Fid : g < nextFid => numbered'[g] \in {numbered[g], None}
    /\ \A e \in named : e \in named' \/ numbered[e[2]] = None

LEMMA Types ==
  ASSUME Good
  PROVE  /\ numbered \in [Fid -> Fid \union {None}] /\ None \notin Fid
         /\ Fid \subseteq Nat /\ nextFid \in Nat /\ Root \in Fid
         /\ named \subseteq Fid \X Fid \X Names
         /\ cache \in [Fid -> Fid \union {None}] /\ dirs \subseteq Fid
         /\ job \in [Workers -> Job]
         /\ \A w \in Workers :
               /\ job[w] \in Job /\ WellFormed(job[w])
               /\ JobKind(job[w]) /\ JobKnown(job[w]) /\ Making(job[w])
               /\ NameFree(job[w]) /\ Leaving(job[w])
  BY NamespaceAssumption DEF NamespaceAssumption, Good, IInv, TypeOK, JobsOK,
     AtomicInv, Fid, None, Root

LEMMA KnownKept ==
  ASSUME Good, Onward, nextFid' \in Nat, NEW f \in Fid, Known(f)
  PROVE  Known(f)'
<1>1. f < nextFid'
  BY Types DEF Known, Onward
<1>2. numbered'[f] \in {numbered[f], None}
  BY DEF Onward, Known
<1>3. CASE f = Root \/ numbered'[f] = None
  BY <1>1, <1>3 DEF Known
<1>4. CASE f # Root /\ numbered'[f] # None
  <2>1. PICK n \in Names : <<numbered[f], f, n>> \in named
    BY <1>2, <1>4 DEF Known
  <2>2. <<numbered[f], f, n>> \in named'
    BY <1>2, <1>4, <2>1 DEF Onward
  <2> QED
    BY <1>1, <1>2, <1>4, <2>2 DEF Known
<1> QED
  BY <1>3, <1>4

\* The elements of the paths and mappings in a job.
LEMMA JobElements ==
  ASSUME NEW j \in Job
  PROVE  /\ \A i \in 1 .. Len(j.src) : j.src[i] \in Fid
         /\ \A i \in 1 .. Len(j.dst) : j.dst[i] \in Fid
         /\ \A m \in j.pairs : m[1] \in Fid /\ m[2] \in Fid
<1>1. j.src \in Paths \union {<<>>} /\ j.dst \in Paths \union {<<>>}
      /\ j.pairs \subseteq Fid \X Fid
  BY DEF Job
<1>2. ASSUME NEW p \in Paths \union {<<>>} PROVE \A i \in 1 .. Len(p) : p[i] \in Fid
  BY PathFacts
<1> QED
  BY <1>1, <1>2

\* A path of known files that is there now was there before.
LEMMA ExistsBack ==
  ASSUME Good, Onward, NEW p \in Paths, \A i \in 1 .. Len(p) : Known(p[i]),
         Exists(p)'
  PROVE  Exists(p)
<1> SUFFICES ASSUME NEW i \in 1 .. Len(p) - 1 PROVE numbered[p[i + 1]] = p[i]
  BY DEF Exists
<1>1. Len(p) \in Nat \ {0}
  BY PathFacts
<1> DEFINE n == Len(p)
<1> HIDE DEF n
<1>2. i \in 1 .. n /\ i + 1 \in 1 .. n
  BY <1>1 DEF n
<1>3. p[i] \in Fid /\ p[i + 1] \in Fid /\ Known(p[i + 1])
  BY <1>2, PathFacts DEF n
<1>4. numbered'[p[i + 1]] = p[i]
  BY DEF Exists
<1> QED
  BY <1>3, <1>4, Types DEF Onward, Known

-----------------------------------------------------------------------------
(* Two paths that are there and lead to the same directory are the same.   *)

LEMMA PathUnique ==
  ASSUME Good, NEW p \in Paths, NEW q \in Paths, Exists(p), Exists(q),
         Here(p) = Here(q)
  PROVE  p = q
<1>1. /\ Len(p) \in Nat \ {0} /\ \A i \in 1 .. Len(p) : p[i] \in Fid
      /\ Len(q) \in Nat \ {0} /\ \A i \in 1 .. Len(q) : q[i] \in Fid
      /\ p[1] = Root /\ q[1] = Root
  BY PathFacts DEF Paths
<1> DEFINE a == Len(p)  b == Len(q)
<1>2. /\ a \in Nat \ {0} /\ b \in Nat \ {0} /\ p[a] = q[b]
      /\ \A i \in 1 .. a : p[i] \in Fid
      /\ \A i \in 1 .. a - 1 : numbered[p[i + 1]] = p[i]
      /\ \A i \in 1 .. b : q[i] \in Fid
      /\ \A i \in 1 .. b - 1 : numbered[q[i + 1]] = q[i]
  BY <1>1 DEF Here, Exists
<1> HIDE DEF a, b
<1>3. /\ \A i \in 2 .. a : i - 1 \in 1 .. a /\ numbered[p[i]] = p[i - 1]
      /\ \A i \in 2 .. b : i - 1 \in 1 .. b /\ numbered[q[i]] = q[i - 1]
  <2>1. \A i \in 2 .. a : i - 1 \in 1 .. a - 1 /\ i - 1 \in 1 .. a /\ (i - 1) + 1 = i
    BY <1>2
  <2>2. \A i \in 2 .. b : i - 1 \in 1 .. b - 1 /\ i - 1 \in 1 .. b /\ (i - 1) + 1 = i
    BY <1>2
  <2> QED
    BY <1>2, <2>1, <2>2
<1>4. numbered[Root] = None /\ None \notin Fid
  BY Types DEF Good, TreeInv
<1>5. ASSUME NEW i \in 1 .. a, NEW k \in 1 .. b, p[i] = q[k]
      PROVE  /\ i = 1 <=> k = 1
             /\ i # 1 => /\ i - 1 \in 1 .. a /\ k - 1 \in 1 .. b
                         /\ p[i - 1] = q[k - 1] /\ p[i - 1] = numbered[p[i]]
  <2>1. i = 1 \/ i \in 2 .. a
    BY <1>2
  <2>2. k = 1 \/ k \in 2 .. b
    BY <1>2
  <2>3. i \in 2 .. a => p[i] # Root
    BY <1>2, <1>3, <1>4
  <2>4. k \in 2 .. b => q[k] # Root
    BY <1>2, <1>3, <1>4
  <2> QED
    BY <1>1, <1>3, <1>5, <2>1, <2>2, <2>3, <2>4
\* The same file at two depths would have a chain of its own.
<1>6. ASSUME NEW i \in 1 .. a, NEW k \in 1 .. b, p[i] = q[k] PROVE i = k
  <2> SUFFICES ASSUME i # k PROVE FALSE
    OBVIOUS
  <2> DEFINE S == {p[m] : m \in {m \in 1 .. a :
                                  \E l \in 1 .. b : p[m] = q[l] /\ m # l}}
  <2>1. p[i] \in S
    BY <1>6
  <2>2. ASSUME NEW f \in S PROVE numbered[f] \in S
    <3>1. PICK m \in 1 .. a, l \in 1 .. b : f = p[m] /\ p[m] = q[l] /\ m # l
      BY <2>2
    <3>2. m # 1 /\ m - 1 \in 1 .. a /\ l - 1 \in 1 .. b
          /\ p[m - 1] = q[l - 1] /\ p[m - 1] = numbered[p[m]]
      BY <1>5, <3>1
    <3>3. m - 1 # l - 1
      BY <1>2, <3>1
    <3> QED
      BY <3>1, <3>2, <3>3
  <2>3. S \in SUBSET Fid
    BY <1>2
  <2> HIDE DEF S
  <2> QED
    BY <2>1, <2>2, <2>3 DEF Good, TreeInv, TreeShape, Acyclic
<1>7. a = b
  BY <1>2, <1>6
\* And above a place where the two part there would be another.
<1>8. \A i \in 1 .. a : p[i] = q[i]
  <2> DEFINE U == {i \in 1 .. a : p[i] # q[i]}
  <2> SUFFICES ASSUME U # {} PROVE FALSE
    OBVIOUS
  <2>1. PICK m \in U : \A u \in U : u <= m
    <3>1. U \in SUBSET (1 .. a) /\ a \in Nat
      BY <1>2
    <3> HIDE DEF U
    <3> QED
      BY <3>1, LargestExists
  <2>2. m # a
    BY <1>2, <1>7
  <2>3. m + 1 \in 1 .. a /\ ~(m + 1 <= m) /\ m + 1 # 1 /\ (m + 1) - 1 = m
    BY <1>2, <2>2
  <2>4. p[m + 1] = q[m + 1]
    BY <2>1, <2>3
  <2>5. p[m] = q[m]
    BY <1>5, <1>7, <2>3, <2>4
  <2> QED
    BY <2>5
<1>9. p \in [1 .. a -> Fid] /\ q \in [1 .. b -> Fid]
  <2>1. ASSUME NEW x \in Paths PROVE x \in [1 .. Len(x) -> Fid]
    <3>1. PICK n \in 1 .. MaxDepth : x \in [1 .. n -> Fid]
      BY DEF Paths
    <3>2. x \in Seq(Fid) /\ Len(x) = n
      BY <3>1, NamespaceAssumption DEF NamespaceAssumption
    <3> QED
      BY <3>1, <3>2
  <2> QED
    BY <2>1 DEF a, b
<1>10. q \in [1 .. a -> Fid]
  BY <1>7, <1>9
<1> DEFINE D == 1 .. a
<1>11. p \in [D -> Fid] /\ q \in [D -> Fid] /\ \A i \in D : p[i] = q[i]
  BY <1>8, <1>9, <1>10
<1> HIDE DEF D
<1> QED
  BY <1>11

-----------------------------------------------------------------------------
(* What a step must show to keep AtomicInv.                                *)

Sound(j) == JobKind(j) /\ JobKnown(j) /\ Making(j) /\ NameFree(j) /\ Leaving(j)

LEMMA IdleIsSound == Sound(Idle)
  BY DEF Sound, JobKind, JobKnown, Making, NameFree, Leaving, Idle, Owning

\* A worker that does nothing while another one changes the disk.
LEMMA OthersKept ==
  ASSUME Good, Onward, TypeOK', NEW v \in Workers, job'[v] = job[v],
         dirs \subseteq dirs',
         job[v].pc = "mkNamed" =>
            /\ numbered'[job[v].fid] = numbered[job[v].fid]
            /\ \A e \in named' \ named : job[v].fid \notin {e[1], e[2]},
         job[v].pc \in {"mkNumbered", "mkNamed"} /\ Exists(job[v].dst) =>
            \A e \in named' \ named :
               ~(e[1] = Here(job[v].dst) /\ e[3] = job[v].req.toname),
         job[v].pc = "dropNamed" =>
            /\ Exists(job[v].src)'
            /\ \E n \in Names : <<Here(job[v].src), job[v].fid, n>> \in named'
  PROVE  Sound(job[v])'
<1> DEFINE j == job[v]
<1>1. /\ j \in Job /\ WellFormed(j) /\ JobKind(j) /\ JobKnown(j) /\ Making(j)
      /\ NameFree(j) /\ Leaving(j) /\ nextFid' \in Nat
  BY Types DEF TypeOK
<1>2. JobKind(j)'
  BY <1>1 DEF JobKind, IsCreate
<1>3. JobKnown(j)'
  <2>1. \A f \in Fid : Known(f) => Known(f)'
    BY <1>1, KnownKept
  <2>2. j.pc \in {"setAttr", "cacheIns", "readDir", "unlink"} => j.fid \in Fid
    BY <1>1 DEF WellFormed
  <2> QED
    BY <1>1, <2>1, <2>2, JobElements DEF JobKnown
<1>4. Making(j)'
  <2> SUFFICES ASSUME j.pc = "mkNamed"
               PROVE  /\ numbered'[j.fid] = Here(j.dst) /\ j.fid < nextFid'
                      /\ \A e \in named' : j.fid \notin {e[1], e[2]}
    BY DEF Making, Here
  <2>1. j.fid \in Nat /\ j.fid < nextFid
    BY <1>1, Types DEF Making, WellFormed
  <2> QED
    BY <1>1, <2>1, Types DEF Making, Onward
<1>5. NameFree(j)'
  <2> SUFFICES ASSUME j.pc \in {"mkNumbered", "mkNamed"}, Exists(j.dst)',
                      NEW e \in named', e[1] = Here(j.dst), e[3] = j.req.toname
               PROVE  numbered'[e[2]] # e[1]
    BY DEF NameFree, Here
  <2>1. j.dst \in Paths /\ \A i \in 1 .. Len(j.dst) : Known(j.dst[i])
    BY <1>1 DEF WellFormed, Owning, JobKnown
  <2>2. Exists(j.dst)
    BY <2>1, ExistsBack
  <2>3. e \in named
    BY <2>2
  <2>4. numbered[e[2]] # e[1]
    BY <1>1, <2>2, <2>3 DEF NameFree
  <2>5. e[1] \in Fid /\ e[2] \in Fid /\ e[2] < nextFid
    BY <2>3, Types DEF Good, AtomicInv, OneName
  <2> QED
    BY <2>4, <2>5, Types DEF Onward
<1>6. Leaving(j)'
  <2> SUFFICES ASSUME j.pc = "dropNamed"
               PROVE  /\ numbered'[j.fid] = None /\ j.fid < nextFid'
                      /\ IsDir(j.src)'
                      /\ \E n \in Names : <<Here(j.src), j.fid, n>> \in named'
    BY DEF Leaving, Here
  <2>1. j.fid \in Fid /\ j.fid < nextFid /\ numbered[j.fid] = None
        /\ Here(j.src) \in dirs
    BY <1>1 DEF WellFormed, Leaving, IsDir
  <2>2. numbered'[j.fid] = None /\ j.fid < nextFid'
    BY <1>1, <2>1, Types DEF Onward
  <2>3. IsDir(j.src)'
    BY <2>1 DEF IsDir, Here
  <2> QED
    BY <2>2, <2>3
<1> QED
  BY <1>2, <1>3, <1>4, <1>5, <1>6 DEF Sound

\* A step of one worker that leaves files and names alone.
LEMMA Frame ==
  ASSUME Good, TypeOK', NEW w \in Workers, UNCHANGED <<numbered, named, dirs, nextFid>>,
         \A v \in Workers \ {w} : job'[v] = job[v],
         Sound(job'[w]), job'[w].pc \notin {"mkNamed", "dropNamed"},
         poisoned' = FALSE,
         \A f \in Fid : cache'[f] # None => Known(f)
  PROVE  AtomicInv'
<1>1. Onward
  BY Types DEF Onward
<1>2. ASSUME NEW v \in Workers PROVE Sound(job[v])'
  <2>1. CASE v = w
    BY <2>1 DEF Sound, JobKind, JobKnown, Making, NameFree, Leaving, Known,
       Exists, IsDir, Here
  <2>2. CASE v # w
    <3>1. Leaving(job[v]) /\ job'[v] = job[v]
      BY <2>2, Types
    <3> QED
      BY <1>1, <3>1, OthersKept DEF Leaving, IsDir, Exists
  <2> QED
    BY <2>1, <2>2
<1>3. Apart'
  BY DEF Apart, Good, AtomicInv
<1>4. /\ \A f \in Fid : (cache[f] # None => Known(f))'
      /\ OneName' /\ NamesUnique' /\ NeverPoisoned'
  BY DEF Good, AtomicInv, OneName, NamesUnique, NeverPoisoned, Known
<1> QED
  BY <1>2, <1>3, <1>4 DEF AtomicInv, Sound

LEMMA FrameFinish ==
  ASSUME Good, TypeOK', NEW w \in Workers, Finish(w),
         UNCHANGED <<numbered, named, dirs, nextFid, cache, poisoned>>
  PROVE  AtomicInv'
<1>1. /\ \A v \in Workers \ {w} : job'[v] = job[v]
      /\ job'[w] = Idle /\ Idle.pc = "idle"
  BY Types, FinishJob
<1>2. /\ \A f \in Fid : cache'[f] # None => Known(f)
      /\ poisoned' = FALSE
  BY DEF Good, IInv, TypeOK, AtomicInv, NeverPoisoned
<1> QED
  BY <1>1, <1>2, IdleIsSound, Frame

LEMMA GotoSound ==
  ASSUME Good, NEW w \in Workers, NEW x \in Job,
         NEW pc \in PCs \ {"mkNumbered", "mkNamed", "dropNamed", "move", "dropOld"},
         Goto(w, x, pc),
         \A i \in 1 .. Len(x.src) : Known(x.src[i]),
         \A i \in 1 .. Len(x.dst) : Known(x.dst[i]),
         \A m \in x.pairs : Known(m[1]),
         pc \in {"setAttr", "cacheIns", "readDir", "unlink"} => Known(x.fid),
         pc \in {"findDst", "extDst", "lock", "cacheIns"} \union Owning => IsCreate(x),
         pc \in {"readDir", "unlink"} => ~IsCreate(x)
  PROVE  /\ \A v \in Workers \ {w} : job'[v] = job[v]
         /\ job'[w].pc \notin {"mkNamed", "dropNamed"}
         /\ Sound(job'[w])
<1>1. /\ \A v \in Workers \ {w} : job'[v] = job[v]
      /\ job'[w] = IF pc = "idle" THEN Idle ELSE [x EXCEPT !.pc = pc]
  BY Types, GotoJob
<1>2. CASE pc = "idle"
  BY <1>1, <1>2, IdleIsSound DEF Idle
<1>3. CASE pc # "idle"
  <2> DEFINE y == [x EXCEPT !.pc = pc]
  <2>1. y.pc = pc /\ y.req = x.req /\ y.src = x.src /\ y.dst = x.dst
        /\ y.fid = x.fid /\ y.pairs = x.pairs
    BY DEF Job
  <2>2. job'[w] = y
    BY <1>1, <1>3
  <2> HIDE DEF y
  <2>3. JobKind(y)
    BY <2>1 DEF JobKind, IsCreate
  <2>4. JobKnown(y)
    BY <2>1 DEF JobKnown
  <2>5. Making(y) /\ NameFree(y) /\ Leaving(y)
    BY <2>1 DEF Making, NameFree, Leaving
  <2> QED
    BY <1>1, <2>1, <2>2, <2>3, <2>4, <2>5 DEF Sound
<1> QED
  BY <1>2, <1>3

-----------------------------------------------------------------------------
(* Searches.                                                               *)

\* What a search finds is known: through the cache, or by name on the disk.
LEMMA FoundIsKnown ==
  ASSUME Good, NEW f \in Fid, NEW p \in Paths, NEW k \in 1 .. Len(p), Found(f, p, k)
  PROVE  /\ \A i \in 1 .. Len(p) : Known(p[i])
         /\ \A m \in ToCache(p, k) : Known(m[1])
<1> DEFINE n == Len(p)
<1>1. /\ n \in Nat \ {0} /\ k \in 1 .. n
      /\ \A i \in 1 .. n : p[i] \in Fid
      /\ \A i \in k .. n - 1 : cache[p[i + 1]] = p[i]
      /\ \A i \in 1 .. k - 1 : Visible(p[i], p[i + 1])
      /\ p[1] = Root
  BY PathFacts DEF Found, Paths
<1> HIDE DEF n
<1>2. Known(Root)
  BY DEF Known, Good, TreeInv
<1>3. ASSUME NEW i \in 1 .. k - 1 PROVE Known(p[i + 1])
  <2>1. i \in 1 .. n /\ i + 1 \in 1 .. n
    BY <1>1
  <2>2. numbered[p[i + 1]] = p[i]
    BY <1>1 DEF Visible
  <2>3. PICK m \in Names : <<p[i], p[i + 1], m>> \in named
    BY <1>1 DEF Visible
  <2>4. p[i + 1] < nextFid
    BY <2>3 DEF Good, AtomicInv, OneName
  <2> QED
    BY <2>2, <2>3, <2>4 DEF Known
<1>4. ASSUME NEW i \in k .. n - 1 PROVE Known(p[i + 1])
  <2>1. i \in 1 .. n /\ i + 1 \in 1 .. n
    BY <1>1
  <2>2. cache[p[i + 1]] = p[i] /\ p[i] \in Fid /\ p[i + 1] \in Fid
    BY <1>1, <2>1
  <2> QED
    BY <2>2, Types DEF Good, AtomicInv
<1>5. ASSUME NEW i \in 1 .. n PROVE Known(p[i])
  <2>1. CASE i = 1
    BY <1>1, <1>2, <2>1
  <2>2. CASE i # 1
    <3> DEFINE h == i - 1
    <3>1. h + 1 = i /\ (h \in 1 .. k - 1 \/ h \in k .. n - 1)
      BY <1>1, <2>2
    <3> HIDE DEF h
    <3> QED
      BY <1>3, <1>4, <3>1
  <2> QED
    BY <2>1, <2>2
<1>6. ASSUME NEW m \in ToCache(p, k) PROVE Known(m[1])
  <2>1. PICK i \in 1 .. k - 1 : m = <<p[i + 1], p[i]>>
    BY DEF ToCache
  <2> QED
    BY <1>3, <2>1
<1> QED
  BY <1>5, <1>6 DEF n

LEMMA AfterKinds ==
  ASSUME NoRenames, NEW r \in Requests
  PROVE  /\ r.op \notin Creates => AfterSrc(r) \in {"byName", "idle"}
         /\ r.op \in Creates => AfterDst(r) = "lock"
         /\ r.op \notin Creates => AfterName(r) \in {"readDir", "unlink", "idle"}
  BY RequestFacts DEF NoRenames, AfterSrc, AfterDst, AfterName, Ops, Creates, Deletes

LEMMA StartAtomic ==
  ASSUME Good, TypeOK', NEW w \in Workers, Start(w)
  PROVE  AtomicInv'
<1>1. PICK r \in Requests :
         job' = [job EXCEPT ![w] = [Idle EXCEPT
                    !.pc = IF r.op \in Creates THEN "findDst" ELSE "findSrc",
                    !.req = r]]
  BY DEF Start
<1> DEFINE x == [Idle EXCEPT
                    !.pc = IF r.op \in Creates THEN "findDst" ELSE "findSrc",
                    !.req = r]
<1>2. job'[w] = x /\ \A v \in Workers \ {w} : job'[v] = job[v]
  BY <1>1, Types
<1>3. /\ x.pc = IF r.op \in Creates THEN "findDst" ELSE "findSrc"
      /\ x.req = r /\ x.src = <<>> /\ x.dst = <<>> /\ x.pairs = {}
  BY DEF Idle
<1> HIDE DEF x
<1>4. Sound(x)
  BY <1>3 DEF Sound, JobKind, JobKnown, Making, NameFree, Leaving, IsCreate, Owning
<1>5. /\ UNCHANGED <<numbered, named, dirs, nextFid, cache, poisoned>>
      /\ poisoned = FALSE /\ \A f \in Fid : cache[f] # None => Known(f)
  BY DEF Start, disk, memory, Good, AtomicInv, NeverPoisoned, IInv, TypeOK
<1> QED
  BY <1>2, <1>3, <1>4, <1>5, Frame

LEMMA FindAtomic ==
  ASSUME NoRenames, Good, TypeOK', NEW w \in Workers, FindSrc(w) \/ FindDst(w)
  PROVE  AtomicInv'
<1> DEFINE j == job[w]
<1>1. j \in Job /\ WellFormed(j) /\ JobKnown(j) /\ JobKind(j)
  BY Types
<1>2. /\ UNCHANGED <<numbered, named, dirs, nextFid, cache, poisoned>>
      /\ poisoned = FALSE /\ \A f \in Fid : cache[f] # None => Known(f)
  BY DEF FindSrc, FindDst, disk, memory, Good, AtomicInv, NeverPoisoned, IInv, TypeOK
<1>3. CASE FindSrc(w)
  <2>0. PICK p \in Paths : \E k \in 1 .. Len(p) :
          /\ Found(j.req.dir, p, k)
          /\ Goto(w, [j EXCEPT !.src = p, !.pairs = ToCache(p, k)],
               IF k = 1 THEN AfterSrc(j.req) ELSE "extSrc")
    BY <1>3 DEF FindSrc
  <2>1. PICK k \in 1 .. Len(p) :
          /\ Found(j.req.dir, p, k)
          /\ Goto(w, [j EXCEPT !.src = p, !.pairs = ToCache(p, k)],
               IF k = 1 THEN AfterSrc(j.req) ELSE "extSrc")
    BY <2>0
  <2> DEFINE x  == [j EXCEPT !.src = p, !.pairs = ToCache(p, k)]
             pc == IF k = 1 THEN AfterSrc(j.req) ELSE "extSrc"
  <2>2. x \in Job /\ x.src = p /\ x.pairs = ToCache(p, k) /\ x.dst = j.dst
    BY <1>1, ToCacheType DEF Job
  <2>3. j.req \in Requests /\ j.req.op \notin Creates
    BY <1>1, <1>3 DEF FindSrc, WellFormed, IsCreate
  <2>4. pc \in {"byName", "idle", "extSrc"}
    BY <2>3, AfterKinds
  <2>5. j.req.dir \in Fid
    BY <2>3, RequestFacts
  <2>6. /\ \A i \in 1 .. Len(x.src) : Known(x.src[i])
        /\ \A i \in 1 .. Len(x.dst) : Known(x.dst[i])
        /\ \A m \in x.pairs : Known(m[1])
    BY <1>1, <2>1, <2>2, <2>5, FoundIsKnown DEF JobKnown
  <2>7. Goto(w, x, pc)
    BY <2>1
  <2>8. /\ \A v \in Workers \ {w} : job'[v] = job[v]
        /\ job'[w].pc \notin {"mkNamed", "dropNamed"}
        /\ Sound(job'[w])
    <3> HIDE DEF x, pc
    <3>1. /\ pc \in PCs \ {"mkNumbered", "mkNamed", "dropNamed", "move", "dropOld"}
          /\ pc \notin {"setAttr", "cacheIns", "readDir", "unlink"}
          /\ pc \notin {"findDst", "extDst", "lock", "cacheIns"} \union Owning
      BY <2>4 DEF PCs, Owning
    <3> QED
      BY <2>2, <2>6, <2>7, <3>1, GotoSound
  <2> QED
    BY <1>2, <2>8, Frame
<1>4. CASE FindDst(w)
  <2>0. PICK p \in Paths : \E k \in 1 .. Len(p) :
          /\ Found(j.req.todir, p, k)
          /\ Goto(w, [j EXCEPT !.dst = p, !.pairs = ToCache(p, k)],
               IF k = 1 THEN AfterDst(j.req) ELSE "extDst")
    BY <1>4 DEF FindDst
  <2>1. PICK k \in 1 .. Len(p) :
          /\ Found(j.req.todir, p, k)
          /\ Goto(w, [j EXCEPT !.dst = p, !.pairs = ToCache(p, k)],
               IF k = 1 THEN AfterDst(j.req) ELSE "extDst")
    BY <2>0
  <2> DEFINE x  == [j EXCEPT !.dst = p, !.pairs = ToCache(p, k)]
             pc == IF k = 1 THEN AfterDst(j.req) ELSE "extDst"
  <2>2. x \in Job /\ x.dst = p /\ x.pairs = ToCache(p, k) /\ x.src = j.src
        /\ x.req = j.req
    BY <1>1, ToCacheType DEF Job
  <2>3. j.req \in Requests /\ j.req.op \in Creates
    BY <1>1, <1>4 DEF FindDst, WellFormed, IsCreate, JobKind
  <2>4. pc \in {"lock", "extDst"}
    BY <2>3, AfterKinds
  <2>5. j.req.todir \in Fid
    BY <2>3, RequestFacts
  <2>6. /\ \A i \in 1 .. Len(x.src) : Known(x.src[i])
        /\ \A i \in 1 .. Len(x.dst) : Known(x.dst[i])
        /\ \A m \in x.pairs : Known(m[1])
    BY <1>1, <2>1, <2>2, <2>5, FoundIsKnown DEF JobKnown
  <2>7. Goto(w, x, pc) /\ IsCreate(x)
    BY <2>1, <2>2, <2>3 DEF IsCreate
  <2>8. /\ \A v \in Workers \ {w} : job'[v] = job[v]
        /\ job'[w].pc \notin {"mkNamed", "dropNamed"}
        /\ Sound(job'[w])
    <3> HIDE DEF x, pc
    <3>1. /\ pc \in PCs \ {"mkNumbered", "mkNamed", "dropNamed", "move", "dropOld"}
          /\ pc \notin {"setAttr", "cacheIns", "readDir", "unlink"}
      BY <2>4 DEF PCs
    <3> QED
      BY <2>2, <2>6, <2>7, <3>1, GotoSound
  <2> QED
    BY <1>2, <2>8, Frame
<1> QED
  BY <1>3, <1>4

LEMMA ExtendAtomic ==
  ASSUME NoRenames, Good, TypeOK', NEW w \in Workers, Extend(w)
  PROVE  AtomicInv'
<1> DEFINE j  == job[w]
           x  == [j EXCEPT !.pairs = {}]
           pc == IF j.pc = "extSrc" THEN AfterSrc(j.req) ELSE AfterDst(j.req)
<1>1. j \in Job /\ WellFormed(j) /\ JobKnown(j) /\ JobKind(j)
  BY Types
<1>2. /\ UNCHANGED <<numbered, named, dirs, nextFid, poisoned>>
      /\ poisoned = FALSE
  BY DEF Extend, disk, Good, AtomicInv, NeverPoisoned, IInv, TypeOK
<1>3. \A f \in Fid : cache'[f] # None => Known(f)
  <2> SUFFICES ASSUME NEW f \in Fid, cache'[f] # None PROVE Known(f)
    OBVIOUS
  <2>1. CASE \E d \in Fid : <<f, d>> \in j.pairs
    <3>1. PICK d \in Fid : <<f, d>> \in j.pairs
      BY <2>1
    <3>2. <<f, d>>[1] = f
      OBVIOUS
    <3> QED
      BY <1>1, <3>1, <3>2 DEF JobKnown
  <2>2. CASE ~\E d \in Fid : <<f, d>> \in j.pairs
    <3>1. cache'[f] = cache[f]
      BY <2>2 DEF Extend
    <3> QED
      BY <3>1 DEF Good, AtomicInv
  <2> QED
    BY <2>1, <2>2
<1>4. x \in Job /\ x.req = j.req /\ x.dst = j.dst /\ x.src = j.src /\ x.pairs = {}
  BY <1>1 DEF Job
<1>5. j.pc \in {"extSrc", "extDst"} /\ Goto(w, x, pc) /\ j.req \in Requests
  BY <1>1 DEF Extend, WellFormed
<1>6. /\ pc \in {"byName", "idle", "lock"}
      /\ pc = "lock" => IsCreate(x)
  BY <1>1, <1>4, <1>5, AfterKinds DEF WellFormed, JobKind, IsCreate
<1>7. /\ \A i \in 1 .. Len(x.src) : Known(x.src[i])
      /\ \A i \in 1 .. Len(x.dst) : Known(x.dst[i])
      /\ \A m \in x.pairs : Known(m[1])
  BY <1>1, <1>4 DEF JobKnown
<1> HIDE DEF x, pc
<1>8. /\ pc \in PCs \ {"mkNumbered", "mkNamed", "dropNamed", "move", "dropOld"}
      /\ pc \notin {"setAttr", "cacheIns", "readDir", "unlink"}
      /\ pc \in {"findDst", "extDst", "lock", "cacheIns"} \union Owning => IsCreate(x)
  BY <1>6 DEF PCs, Owning
<1>9. /\ \A v \in Workers \ {w} : job'[v] = job[v]
      /\ job'[w].pc \notin {"mkNamed", "dropNamed"}
      /\ Sound(job'[w])
  BY <1>4, <1>5, <1>7, <1>8, GotoSound
<1> QED
  BY <1>2, <1>3, <1>9, Frame

-----------------------------------------------------------------------------
(* Names found, locked and found free.                                     *)

LEMMA ByNameAtomic ==
  ASSUME NoRenames, Good, TypeOK', NEW w \in Workers, ByName(w)
  PROVE  AtomicInv'
<1> DEFINE j == job[w]
<1>1. j \in Job /\ WellFormed(j) /\ JobKnown(j) /\ JobKind(j)
  BY Types
<1>2. /\ UNCHANGED <<numbered, named, dirs, nextFid, cache, poisoned>>
      /\ poisoned = FALSE /\ \A f \in Fid : cache[f] # None => Known(f)
  BY DEF ByName, disk, memory, Good, AtomicInv, NeverPoisoned, IInv, TypeOK
<1>3. PICK f \in WithName(j.src, j.req.name) :
         Goto(w, [j EXCEPT !.fid = f], AfterName(j.req))
  BY DEF ByName
<1>4. f \in Fid /\ Known(f)
  <2>1. PICK m \in Names : <<Here(j.src), f, m>> \in named /\ numbered[f] = Here(j.src)
    BY <1>3 DEF WithName
  <2>2. f < nextFid
    BY <2>1 DEF Good, AtomicInv, OneName
  <2> QED
    BY <1>3, <2>1, <2>2 DEF Known, WithName
<1> DEFINE x == [j EXCEPT !.fid = f]  pc == AfterName(j.req)
<1>5. x \in Job /\ x.fid = f /\ x.dst = j.dst /\ x.src = j.src /\ x.pairs = j.pairs
      /\ x.req = j.req
  BY <1>1, <1>4 DEF Job
<1>6. pc \in {"readDir", "unlink", "idle"} /\ ~IsCreate(x)
  <2>1. j.req \in Requests /\ j.req.op \notin Creates
    BY <1>1 DEF ByName, WellFormed, IsCreate
  <2> QED
    BY <1>5, <2>1, AfterKinds DEF IsCreate
<1>7. /\ \A i \in 1 .. Len(x.src) : Known(x.src[i])
      /\ \A i \in 1 .. Len(x.dst) : Known(x.dst[i])
      /\ \A m \in x.pairs : Known(m[1])
      /\ Goto(w, x, pc)
  BY <1>1, <1>3, <1>5 DEF JobKnown
<1> HIDE DEF x, pc
<1>8. /\ pc \in PCs \ {"mkNumbered", "mkNamed", "dropNamed", "move", "dropOld"}
      /\ pc \notin {"findDst", "extDst", "lock", "cacheIns"} \union Owning
  BY <1>6 DEF PCs, Owning
<1>9. /\ \A v \in Workers \ {w} : job'[v] = job[v]
      /\ job'[w].pc \notin {"mkNamed", "dropNamed"}
      /\ Sound(job'[w])
  BY <1>4, <1>5, <1>6, <1>7, <1>8, GotoSound
<1> QED
  BY <1>2, <1>9, Frame

LEMMA CheckEmptyAtomic ==
  ASSUME Good, TypeOK', NEW w \in Workers, CheckEmpty(w)
  PROVE  AtomicInv'
<1> DEFINE j == job[w]
<1>1. /\ j \in Job /\ JobKnown(j) /\ JobKind(j) /\ j.pc = "readDir" /\ Goto(w, j, "unlink")
  BY Types DEF CheckEmpty
<1>2. /\ UNCHANGED <<numbered, named, dirs, nextFid, cache, poisoned>>
      /\ poisoned = FALSE /\ \A f \in Fid : cache[f] # None => Known(f)
  BY DEF CheckEmpty, disk, memory, Good, AtomicInv, NeverPoisoned, IInv, TypeOK
<1>3. /\ \A v \in Workers \ {w} : job'[v] = job[v]
      /\ job'[w].pc \notin {"mkNamed", "dropNamed"}
      /\ Sound(job'[w])
  <2>1. /\ "unlink" \in PCs \ {"mkNumbered", "mkNamed", "dropNamed", "move", "dropOld"}
        /\ "unlink" \notin {"findDst", "extDst", "lock", "cacheIns"} \union Owning
    BY DEF PCs, Owning
  <2>2. ~IsCreate(j) /\ Known(j.fid)
    BY <1>1 DEF JobKind, JobKnown
  <2> QED
    BY <1>1, <2>1, <2>2, GotoSound DEF JobKnown
<1> QED
  BY <1>2, <1>3, Frame

LEMMA LockAtomic ==
  ASSUME Good, TypeOK', NEW w \in Workers, Lock(w)
  PROVE  AtomicInv'
<1> DEFINE j == job[w]
<1>1. j \in Job /\ JobKnown(j) /\ JobKind(j) /\ j.pc = "lock" /\ Goto(w, j, "check")
  BY Types DEF Lock
<1>2. /\ UNCHANGED <<numbered, named, dirs, nextFid, cache, poisoned>>
      /\ poisoned = FALSE /\ \A f \in Fid : cache[f] # None => Known(f)
  BY DEF Lock, disk, Good, AtomicInv, NeverPoisoned, IInv, TypeOK
<1>3. /\ \A v \in Workers \ {w} : job'[v] = job[v]
      /\ job'[w].pc \notin {"mkNamed", "dropNamed"}
      /\ Sound(job'[w])
  <2>1. "check" \in PCs \ {"mkNumbered", "mkNamed", "dropNamed", "move", "dropOld"}
    BY DEF PCs
  <2>2. IsCreate(j)
    BY <1>1 DEF JobKind
  <2> QED
    BY <1>1, <2>1, <2>2, GotoSound DEF JobKnown
<1> QED
  BY <1>2, <1>3, Frame

\* The name is free, and the search for it does find literal names.
LEMMA CheckAtomic ==
  ASSUME Literal, Good, TypeOK', NEW w \in Workers, Check(w)
  PROVE  AtomicInv'
<1> DEFINE j == job[w]
<1>1. /\ j \in Job /\ JobKnown(j) /\ JobKind(j) /\ j.pc = "check" /\ IsCreate(j)
      /\ WellFormed(j) /\ job \in [Workers -> Job] /\ j.req \in Requests
  BY Types DEF Check, JobKind, Owning, WellFormed
<1>2. /\ UNCHANGED <<numbered, named, dirs, nextFid, cache, poisoned>>
      /\ poisoned = FALSE /\ \A f \in Fid : cache[f] # None => Known(f)
  BY DEF Check, disk, memory, Good, AtomicInv, NeverPoisoned, IInv, TypeOK
<1>3. Goto(w, j, "mkNumbered") /\ "mkNumbered" \in PCs \ {"idle"}
  BY <1>1 DEF Check, AfterCheck, PCs
<1>4. /\ \A v \in Workers \ {w} : job'[v] = job[v]
      /\ job'[w].pc = "mkNumbered" /\ job'[w] = [j EXCEPT !.pc = "mkNumbered"]
  <2>1. job'[w] = IF "mkNumbered" = "idle" THEN Idle ELSE [j EXCEPT !.pc = "mkNumbered"]
    BY <1>1, <1>3, GotoJob
  <2>2. job'[w] = [j EXCEPT !.pc = "mkNumbered"]
    BY <2>1
  <2> QED
    BY <1>1, <1>3, <2>2, NextStep
<1> DEFINE x == [j EXCEPT !.pc = "mkNumbered"]
<1>5. /\ x.pc = "mkNumbered" /\ x.req = j.req /\ x.src = j.src /\ x.dst = j.dst
      /\ x.fid = j.fid /\ x.pairs = j.pairs
  BY <1>1 DEF Job
<1>6. job'[w] = x
  BY <1>4
<1> HIDE DEF x
<1>7. JobKind(x) /\ JobKnown(x) /\ Making(x) /\ Leaving(x)
  BY <1>1, <1>5 DEF JobKind, JobKnown, Making, Leaving, IsCreate
<1>8. NameFree(x)
  <2> SUFFICES ASSUME NEW e \in named, e[1] = Here(j.dst), e[3] = j.req.toname,
                      numbered[e[2]] = e[1]
               PROVE  FALSE
    BY <1>5 DEF NameFree
  <2>1. e[2] \in Fid /\ e[3] \in Names /\ e = <<e[1], e[2], e[3]>>
    BY Types
  <2>2. e[2] \in WithName(j.dst, j.req.toname)
    BY <1>1, <2>1 DEF WithName, Literal, Check, SearchPanics
  <2>3. ~Taken(j)
    BY DEF Check
  <2> QED
    BY <2>2, <2>3 DEF Taken
<1>9. Sound(job'[w])
  BY <1>6, <1>7, <1>8 DEF Sound
<1> QED
  BY <1>2, <1>4, <1>9, Frame

LEMMA SetAttrAtomic ==
  ASSUME Good, TypeOK', NEW w \in Workers, SetAttr(w)
  PROVE  AtomicInv'
<1> DEFINE j == job[w]
<1>1. j \in Job /\ JobKnown(j) /\ JobKind(j) /\ j.pc = "setAttr" /\ Goto(w, j, "cacheIns")
  BY Types DEF SetAttr
<1>2. /\ UNCHANGED <<numbered, named, dirs, nextFid, cache, poisoned>>
      /\ poisoned = FALSE /\ \A f \in Fid : cache[f] # None => Known(f)
  BY DEF SetAttr, disk, Good, AtomicInv, NeverPoisoned, IInv, TypeOK
<1>3. /\ \A v \in Workers \ {w} : job'[v] = job[v]
      /\ job'[w].pc \notin {"mkNamed", "dropNamed"}
      /\ Sound(job'[w])
  <2>1. "cacheIns" \in PCs \ {"mkNumbered", "mkNamed", "dropNamed", "move", "dropOld"}
    BY DEF PCs
  <2>2. IsCreate(j)
    BY <1>1 DEF JobKind, Owning
  <2>3. Known(j.fid)
    BY <1>1 DEF JobKnown
  <2> QED
    BY <1>1, <2>1, <2>2, <2>3, GotoSound DEF JobKnown
<1> QED
  BY <1>2, <1>3, Frame

LEMMA CacheInsAtomic ==
  ASSUME Good, TypeOK', NEW w \in Workers, CacheIns(w)
  PROVE  AtomicInv'
<1> DEFINE j == job[w]
<1>1. JobKnown(j) /\ j.pc = "cacheIns" /\ Finish(w) /\ WellFormed(j)
  BY Types DEF CacheIns
<1>2. /\ UNCHANGED <<numbered, named, dirs, nextFid, poisoned>>
      /\ poisoned = FALSE /\ \A f \in Fid : cache[f] # None => Known(f)
  BY DEF CacheIns, disk, memory, Good, AtomicInv, NeverPoisoned, IInv, TypeOK
<1>3. \A f \in Fid : cache'[f] # None => Known(f)
  <2>1. j.fid \in Fid /\ Known(j.fid)
    BY <1>1 DEF JobKnown, WellFormed
  <2>2. cache' = [cache EXCEPT ![j.fid] = j.req.todir]
    BY <1>2 DEF CacheIns
  <2> QED
    BY <1>2, <2>1, <2>2, Types
<1>4. /\ \A v \in Workers \ {w} : job'[v] = job[v]
      /\ job'[w] = Idle /\ Idle.pc = "idle"
  BY <1>1, Types, FinishJob
<1> QED
  BY <1>2, <1>3, <1>4, IdleIsSound, Frame

-----------------------------------------------------------------------------
(* Steps that give up, and steps that are not taken.                       *)

LEMMA EndingsAtomic ==
  ASSUME Good, TypeOK', NEW w \in Workers,
         \/ NotFound(w) \/ BadName(w) \/ LockRefused(w) \/ CheckPanics(w)
         \/ NameTaken(w) \/ MkNamedFails(w) \/ SetAttrFails(w) \/ UnlinkFails(w)
         \/ NotEmpty(w) \/ ExtendPanics(w)
  PROVE  AtomicInv'
<1>1. /\ Finish(w)
      /\ UNCHANGED <<numbered, named, dirs, nextFid, cache, poisoned>>
  BY DEF NotFound, BadName, LockRefused, CheckPanics, NameTaken, MkNamedFails,
     SetAttrFails, UnlinkFails, NotEmpty, ExtendPanics, disk, memory
<1> QED
  BY <1>1, FrameFinish

LEMMA NotTaken ==
  ASSUME Good, NEW w \in Workers
  PROVE  ~Move(w) /\ ~MovePanics(w) /\ ~MoveFails(w) /\ ~DropOld(w)
         /\ ~DropNamedPanics(w)
<1>1. JobKind(job[w]) /\ Leaving(job[w]) /\ poisoned = FALSE
  BY Types DEF Good, IInv, TypeOK, AtomicInv, NeverPoisoned
<1> QED
  BY <1>1 DEF Move, MovePanics, MoveFails, DropOld, DropNamedPanics, JobKind, Leaving

LEMMA RestartAtomic ==
  ASSUME Good, Restart
  PROVE  AtomicInv'
<1>1. /\ UNCHANGED <<numbered, named, dirs, nextFid>>
      /\ poisoned' = FALSE /\ cache' = [f \in Fid |-> None]
      /\ \A w \in Workers : job'[w] = Idle
  BY DEF Restart, disk
<1>2. ASSUME NEW w \in Workers PROVE Sound(job[w])'
  BY <1>1 DEF Sound, JobKind, JobKnown, Making, NameFree, Leaving, Idle, Owning
<1>3. Apart'
  BY <1>1 DEF Apart, Idle
<1>4. /\ \A f \in Fid : (cache[f] # None => Known(f))'
      /\ OneName' /\ NamesUnique' /\ NeverPoisoned'
  BY <1>1 DEF Good, AtomicInv, OneName, NamesUnique, NeverPoisoned
<1> QED
  BY <1>2, <1>3, <1>4 DEF AtomicInv, Sound

-----------------------------------------------------------------------------
(* Creations.                                                              *)

LEMMA CacheKept ==
  ASSUME Good, Onward, TypeOK',
         \A f \in Fid : cache'[f] \in {cache[f], None}
  PROVE  \A f \in Fid : (cache[f] # None => Known(f))'
<1> SUFFICES ASSUME NEW f \in Fid, cache'[f] # None PROVE Known(f)'
  OBVIOUS
<1>1. Known(f)
  BY DEF Good, AtomicInv
<1> QED
  BY <1>1, KnownKept DEF TypeOK

LEMMA MkNumberedAtomic ==
  ASSUME Good, TypeOK', NEW w \in Workers, MkNumbered(w)
  PROVE  AtomicInv'
<1> DEFINE j == job[w]  new == nextFid  d == Here(j.dst)
<1>1. /\ j \in Job /\ WellFormed(j) /\ JobKind(j) /\ JobKnown(j) /\ NameFree(j)
      /\ job \in [Workers -> Job] /\ j.pc = "mkNumbered" /\ j.dst \in Paths
      /\ j.req \in Requests /\ d \in Fid
  BY Types, PathFacts DEF MkNumbered, WellFormed, Owning
<1>2. /\ new \in Fid /\ new \in Nat /\ nextFid' = new + 1
      /\ UNCHANGED <<named, cache, poisoned>> /\ poisoned = FALSE
  BY Types DEF MkNumbered, disk, memory, Good, AtomicInv, NeverPoisoned,
     IInv, TypeOK, Fid
<1>3. \A g \in Fid : g # new => numbered'[g] = numbered[g]
  BY Types DEF MkNumbered
<1>4. dirs \subseteq dirs'
  BY DEF MkNumbered
<1>5. Onward
  BY <1>2, <1>3, Types DEF Onward
<1>6. \A e \in named : /\ e[2] \in Fid /\ e[2] \in Nat /\ e[2] < new /\ e[2] # new
                       /\ e[1] \in Fid /\ e[1] # new
  <2>1. new \notin dirs
    BY <1>2 DEF Good, TreeInv
  <2> QED
    BY <2>1, Types DEF Good, AtomicInv, OneName, TreeInv, TreeShape
<1>7. ASSUME NEW v \in Workers, v # w, job'[v] = job[v] PROVE Sound(job[v])'
  <2>1. Making(job[v]) /\ Leaving(job[v]) /\ WellFormed(job[v]) /\ JobKnown(job[v])
    BY Types
  <2>2. job[v].pc = "mkNamed" => numbered'[job[v].fid] = numbered[job[v].fid]
    BY <1>3, <2>1, Types DEF Making, WellFormed
  <2>3. ASSUME job[v].pc = "dropNamed" PROVE Exists(job[v].src)'
    <3> DEFINE p == job[v].src
    <3> SUFFICES ASSUME NEW i \in 1 .. Len(p) - 1
                 PROVE  numbered'[p[i + 1]] = p[i]
      BY <1>7 DEF Exists
    <3>1. p \in Paths /\ Exists(p) /\ \A k \in 1 .. Len(p) : Known(p[k])
      <4>1. ~IsCreate(job[v])
        BY <2>3, Types DEF JobKind
      <4> QED
        BY <2>1, <2>3, <4>1 DEF Leaving, WellFormed, IsDir, JobKnown
    <3>2. i + 1 \in 1 .. Len(p) /\ p[i + 1] \in Fid
      BY <3>1, PathFacts
    <3>3. p[i + 1] # new
      BY <1>2, <3>1, <3>2 DEF Known
    <3>4. numbered[p[i + 1]] = p[i]
      BY <3>1 DEF Exists
    <3> QED
      BY <1>2, <1>3, <3>2, <3>3, <3>4
  <2> QED
    BY <1>2, <1>4, <1>5, <1>7, <2>1, <2>2, <2>3, OthersKept DEF Leaving
<1>8. /\ \A f \in Fid : (cache[f] # None => Known(f))'
      /\ NeverPoisoned'
  BY <1>2, <1>5, CacheKept DEF NeverPoisoned
<1>9. OneName'
  BY <1>2, <1>6 DEF OneName, Good, AtomicInv
<1>10. NamesUnique'
  BY <1>2, <1>3, <1>6 DEF NamesUnique, Good, AtomicInv
<1>11. CASE IsDir(j.dst)
  <2> DEFINE x == [j EXCEPT !.fid = new]
  <2>1. /\ numbered' = [numbered EXCEPT ![new] = d]
        /\ Goto(w, x, "mkNamed")
    BY <1>11 DEF MkNumbered
  <2>2. x \in Job /\ "mkNamed" \in PCs
    BY <1>1, <1>2 DEF Job, PCs
  <2>7. x.fid = new /\ x.req = j.req /\ x.src = j.src /\ x.dst = j.dst
        /\ x.pairs = j.pairs
    BY <1>1 DEF Job
  <2> HIDE DEF x
  <2> DEFINE y == [x EXCEPT !.pc = "mkNamed"]
  <2>3. /\ y.pc = "mkNamed" /\ y.fid = new /\ y.req = j.req /\ y.src = j.src
        /\ y.dst = j.dst /\ y.pairs = j.pairs
    BY <2>2, <2>7 DEF Job
  <2>4. /\ job'[w] = y /\ \A v \in Workers \ {w} : job'[v] = job[v]
    <3>1. /\ \A v \in Workers \ {w} : job'[v] = job[v]
          /\ job'[w] = IF "mkNamed" = "idle" THEN Idle ELSE y
      BY <1>1, <2>1, <2>2, GotoJob
    <3> QED
      BY <3>1
  <2>8. /\ job'[w].pc = "mkNamed" /\ job'[w].fid = new /\ job'[w].req = j.req
        /\ job'[w].src = j.src /\ job'[w].dst = j.dst /\ job'[w].pairs = j.pairs
    BY <2>3, <2>4
  <2> HIDE DEF y
  <2>5. Sound(job[w])'
    <3>1. JobKind(job[w])'
      BY <1>1, <2>8 DEF JobKind, IsCreate, Owning
    <3>2. JobKnown(job[w])'
      <4>1. \A f \in Fid : Known(f) => Known(f)'
        BY <1>2, <1>5, KnownKept
      <4> QED
        BY <1>1, <2>8, <4>1, JobElements DEF JobKnown
    <3>3. Making(job[w])'
      <4>1. numbered'[new] = d /\ new < nextFid'
        BY <1>2, <2>1, Types
      <4>2. \A e \in named' : new \notin {e[1], e[2]}
        BY <1>2, <1>6
      <4> QED
        BY <2>8, <4>1, <4>2 DEF Making, Here
    <3>4. NameFree(job[w])'
      <4> SUFFICES ASSUME NEW e \in named', e[1] = d, e[3] = j.req.toname
                   PROVE  numbered'[e[2]] # e[1]
        BY <2>8 DEF NameFree, Here
      <4>1. numbered[e[2]] # e[1]
        BY <1>1, <1>2, <1>11 DEF NameFree, IsDir
      <4> QED
        BY <1>2, <1>3, <1>6, <4>1
    <3>5. Leaving(job[w])'
      BY <2>8 DEF Leaving
    <3> QED
      BY <3>1, <3>2, <3>3, <3>4, <3>5 DEF Sound
  <2>6. Apart'
    <3>1. ASSUME NEW v \in Workers, v # w, job[v].pc = "mkNamed" PROVE job[v].fid # new
      <4>1. Making(job[v]) /\ job[v].fid \in Nat
        BY <3>1, Types DEF WellFormed
      <4> QED
        BY <1>2, <3>1, <4>1 DEF Making
    <3> QED
      BY <2>3, <2>4, <3>1 DEF Apart, Good, AtomicInv
  <2> QED
    BY <1>7, <1>8, <1>9, <1>10, <2>4, <2>5, <2>6 DEF AtomicInv, Sound
<1>12. CASE ~IsDir(j.dst)
  <2>1. /\ \A v \in Workers \ {w} : job'[v] = job[v]
        /\ job'[w] = Idle /\ Idle.pc = "idle"
    BY <1>1, <1>12, FinishJob DEF MkNumbered
  <2>2. Sound(job[w])'
    BY <2>1 DEF Sound, JobKind, JobKnown, Making, NameFree, Leaving, Idle, Owning
  <2>3. Apart'
    BY <2>1 DEF Apart, Good, AtomicInv
  <2> QED
    BY <1>7, <1>8, <1>9, <1>10, <2>1, <2>2, <2>3 DEF AtomicInv, Sound
<1> QED
  BY <1>11, <1>12

LEMMA MkNamedAtomic ==
  ASSUME Good, TypeOK', NEW w \in Workers, MkNamed(w)
  PROVE  AtomicInv'
<1> DEFINE j == job[w]  f == j.fid  d == Here(j.dst)  e0 == <<d, f, j.req.toname>>
<1>1. /\ j \in Job /\ WellFormed(j) /\ JobKind(j) /\ JobKnown(j) /\ NameFree(j)
      /\ Making(j) /\ job \in [Workers -> Job] /\ j.pc = "mkNamed" /\ IsCreate(j)
      /\ j.dst \in Paths /\ j.req \in Requests /\ d \in Fid /\ f \in Fid
      /\ j.req.toname \in Names
  BY Types, PathFacts, RequestFacts DEF MkNamed, WellFormed, Owning, JobKind
<1>2. /\ UNCHANGED <<numbered, dirs, nextFid, cache, poisoned>> /\ poisoned = FALSE
      /\ named' = named \union {e0} /\ IsDir(j.dst) /\ Exists(j.dst)
      /\ Goto(w, j, "setAttr")
  BY <1>1 DEF MkNamed, memory, Good, AtomicInv, NeverPoisoned, IInv, TypeOK, IsDir
<1>3. numbered[f] = d /\ f < nextFid /\ \A e \in named : f \notin {e[1], e[2]}
  BY <1>1 DEF Making
<1>4. Onward
  BY <1>2, Types DEF Onward
<1>5. /\ \A v \in Workers \ {w} : job'[v] = job[v]
      /\ job'[w].pc = "setAttr" /\ job'[w].fid = f /\ job'[w].req = j.req
      /\ job'[w].src = j.src /\ job'[w].dst = j.dst /\ job'[w].pairs = j.pairs
  <2>1. "setAttr" \in PCs
    BY DEF PCs
  <2>2. /\ \A v \in Workers \ {w} : job'[v] = job[v]
        /\ job'[w] = IF "setAttr" = "idle" THEN Idle ELSE [j EXCEPT !.pc = "setAttr"]
    BY <1>1, <1>2, <2>1, GotoJob
  <2>3. job'[w] = [j EXCEPT !.pc = "setAttr"]
    BY <2>2
  <2> QED
    BY <1>1, <2>2, <2>3 DEF Job
<1>6. ASSUME NEW v \in Workers, v # w PROVE Sound(job[v])'
  <2>1. /\ Making(job[v]) /\ Leaving(job[v]) /\ WellFormed(job[v])
        /\ job'[v] = job[v]
    BY <1>5, <1>6, Types
  <2>2. ASSUME job[v].pc = "mkNamed" PROVE job[v].fid \notin {d, f}
    <3>1. job[v].fid # f
      BY <1>1, <1>6, <2>2 DEF Good, AtomicInv, Apart
    <3>2. Known(d)
      <4>1. Len(j.dst) \in 1 .. Len(j.dst)
        BY <1>1, PathFacts
      <4> QED
        BY <1>1, <4>1 DEF JobKnown, Here
    <3>3. /\ numbered[job[v].fid] \in Fid
          /\ \A e \in named : e[2] # job[v].fid
      BY <2>1, <2>2, PathFacts DEF Making, WellFormed, Owning
    <3>4. job[v].fid # d
      <4> SUFFICES ASSUME job[v].fid = d PROVE FALSE
        OBVIOUS
      <4>1. numbered[d] # None /\ d # Root
        BY <3>3, Types DEF Good, TreeInv
      <4>2. PICK n \in Names : <<numbered[d], d, n>> \in named
        BY <3>2, <4>1 DEF Known
      <4> QED
        BY <3>3, <4>2
    <3> QED
      BY <3>1, <3>4
  <2>3. ASSUME job[v].pc \in {"mkNumbered", "mkNamed"}, Exists(job[v].dst),
               d = Here(job[v].dst), j.req.toname = job[v].req.toname
        PROVE  FALSE
    <3>1. job[v].dst \in Paths
      BY <2>1, <2>3 DEF WellFormed, Owning
    <3>2. job[v].dst = j.dst
      BY <1>1, <1>2, <2>3, <3>1, PathUnique
    <3>3. Key(job[v]) = Key(j)
      BY <2>3, <3>2 DEF Key
    <3> QED
      BY <1>1, <1>6, <2>3, <3>3 DEF Good, IInv, LockOwned, Owning
  <2>4. job[v].pc = "dropNamed" => Exists(job[v].src)'
    BY <1>2, <2>1 DEF Leaving, IsDir, Exists
  <2>5. \A e \in named' \ named : e[1] = d /\ e[2] = f /\ e[3] = j.req.toname
    BY <1>2
  <2> HIDE DEF e0, d, f, j
  <2>6. job[v].pc = "mkNamed" =>
           /\ numbered'[job[v].fid] = numbered[job[v].fid]
           /\ \A e \in named' \ named : job[v].fid \notin {e[1], e[2]}
    BY <1>2, <2>2, <2>5
  <2>7. job[v].pc \in {"mkNumbered", "mkNamed"} /\ Exists(job[v].dst) =>
           \A e \in named' \ named :
              ~(e[1] = Here(job[v].dst) /\ e[3] = job[v].req.toname)
    BY <2>3, <2>5
  <2>8. job[v].pc = "dropNamed" =>
           /\ Exists(job[v].src)'
           /\ \E n \in Names : <<Here(job[v].src), job[v].fid, n>> \in named'
    BY <1>2, <2>1, <2>4 DEF Leaving
  <2>9. dirs \subseteq dirs'
    BY <1>2
  <2> QED
    BY <1>4, <2>1, <2>6, <2>7, <2>8, <2>9, OthersKept
<1>7. Sound(job[w])'
  <2>1. \A g \in Fid : Known(g) => Known(g)'
    BY <1>2, <1>4, Types, KnownKept
  <2>2. Known(job[w].fid)'
    <3>1. <<numbered'[f], f, j.req.toname>> \in named'
      BY <1>2, <1>3
    <3> QED
      BY <1>1, <1>2, <1>3, <1>5, <3>1 DEF Known
  <2>3. JobKnown(job[w])'
    BY <1>1, <1>5, <2>1, <2>2, JobElements DEF JobKnown
  <2>4. JobKind(job[w])'
    BY <1>1, <1>5 DEF JobKind, IsCreate
  <2> QED
    BY <1>5, <2>3, <2>4 DEF Sound, Making, NameFree, Leaving
<1>8. /\ \A g \in Fid : (cache[g] # None => Known(g))'
      /\ NeverPoisoned'
  BY <1>2, <1>4, CacheKept DEF NeverPoisoned
<1>9. OneName'
  <2>1. OneName /\ e0[2] = f
    BY DEF Good, AtomicInv
  <2> QED
    BY <1>2, <1>3, <2>1 DEF OneName
<1>10. NamesUnique'
  <2>1. \A e \in named : e[1] = d /\ e[3] = j.req.toname => numbered[e[2]] # e[1]
    BY <1>1, <1>2 DEF NameFree
  <2>2. e0[1] = d /\ e0[2] = f /\ e0[3] = j.req.toname /\ NamesUnique
    BY DEF Good, AtomicInv
  <2> HIDE DEF d, f, j
  <2> QED
    BY <1>2, <2>1, <2>2 DEF NamesUnique
<1>11. Apart'
  BY <1>5 DEF Apart, Good, AtomicInv
<1> QED
  BY <1>6, <1>7, <1>8, <1>9, <1>10, <1>11 DEF AtomicInv, Sound

-----------------------------------------------------------------------------
(* Removals.                                                               *)

\* No directory is unlinked from above a file, or above a name.
LEMMA UnlinkKeepsPath ==
  ASSUME Good, NEW w \in Workers, Unlink(w), NEW p \in Paths, IsDir(p),
         \/ numbered[job[w].fid] = Here(p)
         \/ \E e \in named : e[1] = Here(p)
  PROVE  /\ \A i \in 1 .. Len(p) - 1 : numbered'[p[i + 1]] = p[i]
         /\ Here(p) \in dirs'
<1> DEFINE j == job[w]  f == j.fid  n == Len(p)
<1>1. /\ f \in Fid /\ j.pc = "unlink" /\ j.req.op \in Deletes
      /\ (j.req.op = "remove" => f \notin dirs) /\ (j.req.op = "rmdir" => IsEmpty(f))
  BY Types DEF Unlink, WellFormed, Good, TreeInv
<1>2. f \notin dirs \/ IsEmpty(f)
  BY <1>1 DEF Deletes
<1>3. /\ n \in Nat \ {0} /\ \A i \in 1 .. n : p[i] \in Fid
      /\ \A i \in 1 .. n - 1 : numbered[p[i + 1]] = p[i]
      /\ p[n] \in dirs
      /\ numbered[f] = p[n] \/ \E e \in named : e[1] = p[n]
  BY PathFacts DEF IsDir, Exists, Here
<1>4. /\ \A g \in Fid : g # f => numbered'[g] = numbered[g]
      /\ dirs' = dirs
  BY Types DEF Unlink
<1>5. Here(p) = p[n]
  BY DEF Here
<1> HIDE DEF n, f
<1>6. ASSUME NEW k \in 1 .. n PROVE p[k] # f
  <2> SUFFICES ASSUME p[k] = f PROVE FALSE
    OBVIOUS
  <2>1. CASE k = n
    BY <1>1, <1>2, <1>3, <2>1 DEF IsEmpty
  <2>2. CASE k # n
    <3>1. k \in 1 .. n - 1 /\ k + 1 \in 1 .. n
      BY <1>3, <2>2
    <3>2. p[k + 1] \in Fid /\ numbered[p[k + 1]] = f
      BY <1>3, <3>1
    <3>3. f \in dirs
      BY <1>1, <3>2, Types DEF Good, TreeInv, TreeShape
    <3> QED
      BY <1>2, <3>2, <3>3 DEF IsEmpty
  <2> QED
    BY <2>1, <2>2
<1>7. ASSUME NEW i \in 1 .. n - 1 PROVE numbered'[p[i + 1]] = p[i]
  <2>1. i + 1 \in 1 .. n
    BY <1>3
  <2> QED
    BY <1>3, <1>4, <1>6, <2>1
<1> QED
  BY <1>3, <1>4, <1>5, <1>7 DEF n

LEMMA UnlinkAtomic ==
  ASSUME Good, TypeOK', NEW w \in Workers, Unlink(w)
  PROVE  AtomicInv'
<1> DEFINE j == job[w]  f == j.fid  d == Here(j.src)
<1>1. /\ j \in Job /\ WellFormed(j) /\ JobKind(j) /\ JobKnown(j)
      /\ job \in [Workers -> Job] /\ j.pc = "unlink" /\ ~IsCreate(j)
      /\ f \in Fid /\ Known(f)
  BY Types DEF Unlink, WellFormed, JobKind, JobKnown
<1>2. j.src \in Paths /\ d \in Fid
  BY <1>1, PathFacts DEF WellFormed
<1>3. /\ UNCHANGED <<named, dirs, nextFid, cache, poisoned>> /\ poisoned = FALSE
      /\ numbered' = [numbered EXCEPT ![f] = None]
      /\ numbered[f] = d /\ Exists(j.src) /\ Goto(w, j, "dropNamed")
  BY <1>1 DEF Unlink, memory, Good, AtomicInv, NeverPoisoned, IInv, TypeOK, HasFile
<1>4. PICK m \in Names : <<d, f, m>> \in named
  <2>1. d # None /\ f # Root
    BY <1>2, <1>3, Types DEF Good, TreeInv
  <2> QED
    BY <1>1, <1>3, <2>1 DEF Known
<1>5. /\ \A g \in Fid : numbered'[g] \in {numbered[g], None}
      /\ \A g \in Fid : g # f => numbered'[g] = numbered[g]
      /\ numbered'[f] = None /\ f < nextFid
  BY <1>1, <1>3, Types DEF Known
<1>6. Onward
  BY <1>3, <1>5, Types DEF Onward
<1>7. /\ \A v \in Workers \ {w} : job'[v] = job[v]
      /\ job'[w].pc = "dropNamed" /\ job'[w].fid = f /\ job'[w].req = j.req
      /\ job'[w].src = j.src /\ job'[w].dst = j.dst /\ job'[w].pairs = j.pairs
  <2>1. "dropNamed" \in PCs
    BY DEF PCs
  <2>2. /\ \A v \in Workers \ {w} : job'[v] = job[v]
        /\ job'[w] = IF "dropNamed" = "idle" THEN Idle ELSE [j EXCEPT !.pc = "dropNamed"]
    BY <1>1, <1>3, <2>1, GotoJob
  <2>3. job'[w] = [j EXCEPT !.pc = "dropNamed"]
    BY <2>2
  <2> QED
    BY <1>1, <2>2, <2>3 DEF Job
<1>8. ASSUME NEW v \in Workers, v # w PROVE Sound(job[v])'
  <2>1. /\ Making(job[v]) /\ Leaving(job[v]) /\ WellFormed(job[v])
        /\ JobKind(job[v]) /\ job'[v] = job[v]
    BY <1>7, <1>8, Types
  <2>2. job[v].pc = "mkNamed" => numbered'[job[v].fid] = numbered[job[v].fid]
    BY <1>4, <1>5, <2>1 DEF Making, WellFormed
  <2>3. ASSUME job[v].pc = "dropNamed"
        PROVE  /\ Exists(job[v].src)'
               /\ \E n \in Names : <<Here(job[v].src), job[v].fid, n>> \in named'
    <3>1. job[v].src \in Paths
      BY <2>1, <2>3 DEF JobKind, WellFormed
    <3>2. /\ IsDir(job[v].src)
          /\ \E n \in Names : <<Here(job[v].src), job[v].fid, n>> \in named
      BY <2>1, <2>3 DEF Leaving
    <3>3. PICK n \in Names : <<Here(job[v].src), job[v].fid, n>> \in named
      BY <3>2
    <3>4. \E e \in named : e[1] = Here(job[v].src)
      <4>1. <<Here(job[v].src), job[v].fid, n>>[1] = Here(job[v].src)
        OBVIOUS
      <4> QED
        BY <3>3, <4>1
    <3>5. IsDir(job[v].src)'
      <4>1. /\ \A i \in 1 .. Len(job[v].src) - 1 :
                   numbered'[job[v].src[i + 1]] = job[v].src[i]
            /\ Here(job[v].src) \in dirs'
        BY <3>1, <3>2, <3>4, UnlinkKeepsPath
      <4> QED
        BY <2>1, <4>1 DEF IsDir, Exists, Here
    <3> QED
      BY <1>3, <3>3, <3>5 DEF IsDir
  <2>4. dirs \subseteq dirs' /\ named' \ named = {}
    BY <1>3
  <2> QED
    BY <1>6, <2>1, <2>2, <2>3, <2>4, OthersKept
<1>9. Sound(job[w])'
  <2>1. \A g \in Fid : Known(g) => Known(g)'
    BY <1>3, <1>6, Types, KnownKept
  <2>2. JobKnown(job[w])'
    BY <1>1, <1>7, <2>1, JobElements DEF JobKnown
  <2>3. JobKind(job[w])'
    BY <1>1, <1>7 DEF JobKind, IsCreate, Owning
  <2>4. Leaving(job[w])'
    <3>1. d \in dirs
      BY <1>1, <1>2, <1>3, Types DEF Good, TreeInv, TreeShape
    <3>2. IsDir(j.src)
      BY <1>3, <3>1 DEF IsDir
    <3>3. IsDir(job[w].src)'
      <4>1. /\ \A i \in 1 .. Len(j.src) - 1 : numbered'[j.src[i + 1]] = j.src[i]
            /\ Here(j.src) \in dirs'
        BY <1>2, <1>3, <3>2, UnlinkKeepsPath
      <4> QED
        BY <1>7, <4>1 DEF IsDir, Exists, Here
    <3>4. Here(job[w].src)' = d
      BY <1>7 DEF Here
    <3>5. <<Here(job[w].src)', job'[w].fid, m>> \in named'
      BY <1>3, <1>4, <1>7, <3>4
    <3> QED
      BY <1>3, <1>5, <1>7, <3>3, <3>5 DEF Leaving
  <2> QED
    BY <1>7, <2>2, <2>3, <2>4 DEF Sound, Making, NameFree
<1>10. /\ \A g \in Fid : (cache[g] # None => Known(g))'
       /\ NeverPoisoned'
  BY <1>3, <1>6, CacheKept DEF NeverPoisoned
<1>11. OneName'
  BY <1>3 DEF OneName, Good, AtomicInv
<1>12. NamesUnique'
  <2>1. NamesUnique /\ \A e \in named : e[1] \in Fid /\ e[2] \in Fid
    BY Types DEF Good, AtomicInv
  <2> QED
    BY <1>3, <1>5, <2>1, Types DEF NamesUnique
<1>13. Apart'
  <2>1. ASSUME NEW v \in Workers, v # w, job[v].pc = "dropNamed" PROVE job[v].fid # f
    BY <1>2, <1>3, <2>1, Types DEF Leaving
  <2> QED
    BY <1>7, <2>1 DEF Apart, Good, AtomicInv
<1> QED
  BY <1>8, <1>9, <1>10, <1>11, <1>12, <1>13 DEF AtomicInv, Sound

LEMMA DropNamedAtomic ==
  ASSUME Good, TypeOK', NEW w \in Workers, DropNamed(w)
  PROVE  AtomicInv'
<1> DEFINE j == job[w]  f == j.fid
<1>1. /\ j \in Job /\ WellFormed(j) /\ Leaving(j) /\ j.pc = "dropNamed" /\ f \in Fid
      /\ numbered[f] = None
  BY Types DEF DropNamed, WellFormed, Leaving
<1>2. /\ UNCHANGED <<numbered, dirs, nextFid, poisoned>> /\ poisoned = FALSE
      /\ named' = named \ {<<Here(j.src), f, j.req.name>>}
      /\ cache' = [cache EXCEPT ![f] = None] /\ Finish(w)
  BY DEF DropNamed, Good, AtomicInv, NeverPoisoned, IInv, TypeOK
<1>3. named' \subseteq named /\ \A e \in named : e[2] # f => e \in named'
  BY <1>2
<1>4. Onward
  BY <1>1, <1>2, <1>3, Types DEF Onward
<1>5. /\ \A v \in Workers \ {w} : job'[v] = job[v]
      /\ job'[w] = Idle /\ Idle.pc = "idle"
  BY <1>2, Types, FinishJob
<1>6. ASSUME NEW v \in Workers, v # w PROVE Sound(job[v])'
  <2>1. Leaving(job[v]) /\ job'[v] = job[v]
    BY <1>5, <1>6, Types
  <2>2. ASSUME job[v].pc = "dropNamed"
        PROVE  /\ Exists(job[v].src)'
               /\ \E n \in Names : <<Here(job[v].src), job[v].fid, n>> \in named'
    <3>1. PICK n \in Names : <<Here(job[v].src), job[v].fid, n>> \in named
      BY <2>1, <2>2 DEF Leaving
    <3>2. job[v].fid # f
      BY <1>1, <1>6, <2>2 DEF Good, AtomicInv, Apart
    <3>3. <<Here(job[v].src), job[v].fid, n>> \in named'
      BY <1>3, <3>1, <3>2
    <3>4. Exists(job[v].src)'
      BY <1>2, <2>1, <2>2 DEF Leaving, IsDir, Exists
    <3> QED
      BY <3>3, <3>4
  <2> QED
    BY <1>2, <1>3, <1>4, <2>1, <2>2, OthersKept
<1>7. Sound(job[w])'
  BY <1>5 DEF Sound, JobKind, JobKnown, Making, NameFree, Leaving, Idle, Owning
<1>8. /\ \A g \in Fid : (cache[g] # None => Known(g))'
      /\ NeverPoisoned'
  <2>1. \A g \in Fid : cache'[g] \in {cache[g], None}
    BY <1>2, Types
  <2> QED
    BY <1>2, <1>4, <2>1, CacheKept DEF NeverPoisoned
<1>9. OneName' /\ NamesUnique'
  BY <1>2, <1>3 DEF OneName, NamesUnique, Good, AtomicInv
<1>10. Apart'
  BY <1>5 DEF Apart, Good, AtomicInv
<1> QED
  BY <1>6, <1>7, <1>8, <1>9, <1>10 DEF AtomicInv, Sound

-----------------------------------------------------------------------------
(* AtomicInv holds in every behavior without renames.                      *)

LEMMA InitAtomic == CleanStart /\ Init => AtomicInv
<1> SUFFICES ASSUME CleanStart, Init PROVE AtomicInv
  OBVIOUS
<1>1. /\ numbered = InitNumbered /\ named = InitNamed /\ nextFid = FirstFree
      /\ cache = [f \in Fid |-> None] /\ poisoned = FALSE
      /\ \A w \in Workers : job[w] = Idle
  BY DEF Init
<1>2. \A w \in Workers : Sound(job[w])
  BY <1>1, IdleIsSound
<1>3. Apart
  BY <1>1 DEF Apart, Idle
<1>4. OneName
  BY <1>1 DEF OneName, CleanStart
<1>5. NamesUnique
  BY <1>1 DEF NamesUnique, CleanStart
<1> QED
  BY <1>1, <1>2, <1>3, <1>4, <1>5 DEF AtomicInv, Sound, NeverPoisoned

LEMMA StepKeepsAtomic ==
  ASSUME NoRenames, Literal, Good, TypeOK', [Next]_vars
  PROVE  AtomicInv'
<1>1. CASE Crash
  BY <1>1, RestartAtomic DEF Crash
<1>2. ASSUME NEW w \in Workers, Overflow(w) PROVE AtomicInv'
  BY <1>2, RestartAtomic DEF Overflow
<1>3. ASSUME NEW w \in Workers, Start(w) PROVE AtomicInv'
  BY <1>3, StartAtomic
<1>4. ASSUME NEW w \in Workers, Lookups(w) PROVE AtomicInv'
  BY <1>4, FindAtomic, EndingsAtomic, ExtendAtomic DEF Lookups
<1>5. ASSUME NEW w \in Workers, Naming(w) PROVE AtomicInv'
  BY <1>5, ByNameAtomic, LockAtomic, CheckAtomic, EndingsAtomic DEF Naming
<1>6. ASSUME NEW w \in Workers, Creating(w) PROVE AtomicInv'
  BY <1>6, MkNumberedAtomic, MkNamedAtomic, SetAttrAtomic, CacheInsAtomic,
     EndingsAtomic DEF Creating
<1>7. ASSUME NEW w \in Workers, Deleting(w) PROVE AtomicInv'
  BY <1>7, CheckEmptyAtomic, UnlinkAtomic, DropNamedAtomic, EndingsAtomic, NotTaken
     DEF Deleting
<1>8. ASSUME NEW w \in Workers, Moving(w) PROVE AtomicInv'
  BY <1>8, NotTaken DEF Moving
<1>9. CASE UNCHANGED vars
  <2>1. UNCHANGED <<numbered, named, dirs, nextFid, cache, poisoned, job>>
    BY <1>9 DEF vars, disk, memory
  <2>2. Onward
    BY <2>1, Types DEF Onward
  <2>3. ASSUME NEW v \in Workers PROVE Sound(job[v])'
    <3>1. Leaving(job[v])
      BY Types
    <3> QED
      BY <2>1, <2>2, <3>1, OthersKept DEF Leaving, IsDir, Exists
  <2>4. /\ \A f \in Fid : (cache[f] # None => Known(f))'
        /\ Apart' /\ OneName' /\ NamesUnique' /\ NeverPoisoned'
    BY <2>1 DEF Good, AtomicInv, Apart, OneName, NamesUnique, NeverPoisoned, Known
  <2> QED
    BY <2>3, <2>4 DEF AtomicInv, Sound
<1> QED
  BY <1>1, <1>2, <1>3, <1>4, <1>5, <1>6, <1>7, <1>8, <1>9 DEF Next

LEMMA GoodInductive ==
  ASSUME NoRenames, Literal, CleanStart
  PROVE  Spec => []Good
<1>1. Init => Good
  BY InitEstablishesIInv, InitTree, InitAtomic DEF Good
<1>2. Good /\ [Next]_vars => Good'
  <2> SUFFICES ASSUME Good, [Next]_vars PROVE Good'
    OBVIOUS
  <2>1. IInv' /\ TreeInv'
    BY StepPreservesIInv, StepKeepsTree DEF Good
  <2>2. AtomicInv'
    BY <2>1, StepKeepsAtomic DEF IInv
  <2> QED
    BY <2>1, <2>2 DEF Good
<1> QED
  BY <1>1, <1>2, PTL DEF Spec

(* A name of a directory is one file's, whatever creates and removes run   *)
(* at the same time and wherever the process dies: what name_lock and the  *)
(* second fs_find_by_name are for (mod.rs:506-523, 1012-1027).             *)
THEOREM NamesStayUnique ==
  ASSUME NoRenames, Literal, CleanStart
  PROVE  Spec => []NamesUnique
<1>1. Good => NamesUnique
  BY DEF Good, AtomicInv
<1> QED
  BY <1>1, GoodInductive, PTL

(* Without renames the unwraps under the write lock of fid_cache           *)
(* (mod.rs:590, 1082) do not panic: the directory of a file that is being  *)
(* removed cannot go while the file's old name is in it.                   *)
THEOREM CacheStaysUsable ==
  ASSUME NoRenames, Literal, CleanStart
  PROVE  Spec => []NeverPoisoned
<1>1. Good => NeverPoisoned
  BY DEF Good, AtomicInv
<1> QED
  BY <1>1, GoodInductive, PTL

-----------------------------------------------------------------------------
(* The visible links are those of NfsTree.                                 *)

LEMMA LinksAre ==
  ASSUME Good
  PROVE  /\ \A l \in Links : /\ l = <<l[1], l[2], l[3]>>
                             /\ <<l[1], l[3], l[2]>> \in named
                             /\ numbered[l[3]] = l[1] /\ l[1] \in Fid
                             /\ l[2] \in Names /\ l[3] \in Fid
         /\ \A e \in named : numbered[e[2]] = e[1] => <<e[1], e[3], e[2]>> \in Links
<1>1. \A e \in named : /\ e = <<e[1], e[2], e[3]>>
                       /\ e[1] \in Fid /\ e[2] \in Fid /\ e[3] \in Names
  BY Types
<1>2. ASSUME NEW l \in Links
      PROVE  /\ l = <<l[1], l[2], l[3]>> /\ <<l[1], l[3], l[2]>> \in named
             /\ numbered[l[3]] = l[1]
             /\ l[1] \in Fid /\ l[2] \in Names /\ l[3] \in Fid
  <2>1. PICK e \in named : numbered[e[2]] = e[1] /\ l = <<e[1], e[3], e[2]>>
    BY DEF Links
  <2>2. l[1] = e[1] /\ l[2] = e[3] /\ l[3] = e[2]
    BY <2>1
  <2> QED
    BY <1>1, <2>1, <2>2
<1> QED
  BY <1>2 DEF Links

LEMMA SameLinks ==
  ASSUME Good, Onward, named' \subseteq named,
         \A e \in named : numbered[e[2]] = e[1] =>
            e \in named' /\ numbered'[e[2]] = e[1]
  PROVE  Links' = Links
<1>1. \A e \in named : /\ e[1] \in Fid /\ e[2] \in Fid /\ e[2] < nextFid
  BY Types DEF Good, AtomicInv, OneName
<1>2. \A e \in named' : numbered'[e[2]] = e[1] => e \in named /\ numbered[e[2]] = e[1]
  BY <1>1, Types DEF Onward
<1>3. {x \in named' : numbered'[x[2]] = x[1]} = {x \in named : numbered[x[2]] = x[1]}
  BY <1>2
<1> QED
  BY <1>3 DEF Links

LEMMA MkNumberedLinks ==
  ASSUME Good, NEW w \in Workers, MkNumbered(w)
  PROVE  Links' = Links
<1>1. named' = named /\ nextFid' = nextFid + 1
      /\ \A g \in Fid : g # nextFid => numbered'[g] = numbered[g]
  BY Types DEF MkNumbered
<1>2. \A e \in named : e[2] # nextFid /\ e[2] \in Fid
  BY Types DEF Good, AtomicInv, OneName
<1>3. Onward
  BY <1>1, Types DEF Onward
<1> QED
  BY <1>1, <1>2, <1>3, SameLinks

LEMMA MkNamedLinks ==
  ASSUME Good, NEW w \in Workers, MkNamed(w)
  PROVE  Tree!Next
<1> DEFINE j == job[w]  f == j.fid  d == Here(j.dst)  n == j.req.toname
<1>1. /\ JobKnown(j) /\ NameFree(j) /\ Making(j) /\ j.pc = "mkNamed" /\ IsCreate(j)
      /\ j.dst \in Paths /\ d \in Fid /\ f \in Fid /\ n \in Names
  BY Types, PathFacts, RequestFacts DEF MkNamed, WellFormed, Owning, JobKind
<1>2. /\ numbered' = numbered /\ named' = named \union {<<d, f, n>>}
      /\ Exists(j.dst)
  BY DEF MkNamed, IsDir
<1>3. numbered[f] = d /\ \A e \in named : f \notin {e[1], e[2]}
  BY <1>1 DEF Making
<1>4. \A e \in named : e[1] = d /\ e[3] = n => numbered[e[2]] # e[1]
  BY <1>1, <1>2 DEF NameFree
<1>5. f # Root
  BY <1>1, <1>3, Types DEF Good, TreeInv
<1>6. d = Root \/ numbered[d] # None
  <2> DEFINE m == Len(j.dst)
  <2>1. /\ m \in Nat \ {0} /\ \A i \in 1 .. m : j.dst[i] \in Fid
        /\ \A i \in 1 .. m - 1 : numbered[j.dst[i + 1]] = j.dst[i]
        /\ d = j.dst[m] /\ j.dst[1] = Root
    BY <1>1, <1>2, PathFacts DEF Exists, Here, Paths
  <2> HIDE DEF m
  <2>2. CASE m = 1
    BY <2>1, <2>2
  <2>3. CASE m # 1
    <3>1. m - 1 \in 1 .. m - 1 /\ m - 1 \in 1 .. m /\ (m - 1) + 1 = m
      BY <2>1, <2>3
    <3>2. numbered[j.dst[(m - 1) + 1]] = j.dst[m - 1]
      BY <2>1, <3>1
    <3>3. numbered[d] = j.dst[m - 1] /\ j.dst[m - 1] \in Fid
      BY <2>1, <3>1, <3>2
    <3> QED
      BY <3>3, Types
  <2> QED
    BY <2>2, <2>3
<1>7. Known(d)
  <2>1. Len(j.dst) \in 1 .. Len(j.dst)
    BY <1>1, PathFacts
  <2> QED
    BY <1>1, <2>1 DEF JobKnown, Here
<1> HIDE DEF j, f, d, n
<1>8. Links' = Links \union {<<d, n, f>>}
  <2>1. <<d, f, n>>[1] = d /\ <<d, f, n>>[2] = f /\ <<d, f, n>>[3] = n
    OBVIOUS
  <2>2. {x \in named' : numbered'[x[2]] = x[1]}
          = {x \in named : numbered[x[2]] = x[1]} \union {<<d, f, n>>}
    BY <1>2, <1>3, <2>1
  <2> DEFINE V == {x \in named : numbered[x[2]] = x[1]}
             W == {x \in named' : numbered'[x[2]] = x[1]}
  <2>3. W = V \union {<<d, f, n>>} /\ Links = {<<e[1], e[3], e[2]>> : e \in V}
        /\ Links' = {<<e[1], e[3], e[2]>> : e \in W}
    BY <2>2 DEF Links
  <2> HIDE DEF V, W
  <2> QED
    BY <2>1, <2>3
<1>9. \A l \in Links : f \notin {l[1], l[3]} /\ <<l[1], l[2]>> # <<d, n>>
  <2> SUFFICES ASSUME NEW l \in Links
               PROVE  f \notin {l[1], l[3]} /\ <<l[1], l[2]>> # <<d, n>>
    OBVIOUS
  <2> DEFINE e == <<l[1], l[3], l[2]>>
  <2>1. e \in named /\ numbered[l[3]] = l[1]
    BY LinksAre
  <2>2. e[1] = l[1] /\ e[2] = l[3] /\ e[3] = l[2]
    OBVIOUS
  <2> HIDE DEF e
  <2> QED
    BY <1>3, <1>4, <2>1, <2>2
<1>10. Tree!IsLinked(d)
  <2> SUFFICES ASSUME d # Root PROVE \E l \in Links : l[3] = d
    BY DEF Tree!IsLinked
  <2>1. PICK m \in Names : <<numbered[d], d, m>> \in named
    BY <1>6, <1>7 DEF Known
  <2>2. <<numbered[d], m, d>> \in Links
    <3> DEFINE e == <<numbered[d], d, m>>
    <3>1. e \in named /\ e[1] = numbered[d] /\ e[2] = d /\ e[3] = m
      BY <2>1
    <3> HIDE DEF e
    <3> QED
      BY <3>1, LinksAre
  <2>3. <<numbered[d], m, d>>[3] = d
    OBVIOUS
  <2> QED
    BY <2>2, <2>3
<1>11. Tree!Create(d, n, f)
  BY <1>5, <1>8, <1>9, <1>10 DEF Tree!Create, Tree!IsFree
<1>12. d \in Fid /\ n \in Names /\ f \in Fid
  BY <1>1 DEF d, n, f
<1> QED
  BY <1>11, <1>12 DEF Tree!Next

LEMMA UnlinkLinks ==
  ASSUME Good, NEW w \in Workers, Unlink(w)
  PROVE  Tree!Next
<1> DEFINE j == job[w]  f == j.fid  d == Here(j.src)
<1>1. /\ f \in Fid /\ Known(f) /\ ~IsCreate(j) /\ j.src \in Paths /\ d \in Fid
      /\ j.pc = "unlink" /\ j.req.op \in Deletes
      /\ (j.req.op = "remove" => f \notin dirs) /\ (j.req.op = "rmdir" => IsEmpty(f))
  <2>1. WellFormed(j) /\ JobKind(j) /\ JobKnown(j) /\ j.pc = "unlink"
    BY Types DEF Unlink
  <2> QED
    BY <2>1, PathFacts DEF WellFormed, JobKind, JobKnown, Unlink, Good, TreeInv
<1>2. /\ named' = named /\ numbered[f] = d
      /\ numbered' = [numbered EXCEPT ![f] = None]
  BY DEF Unlink, HasFile
<1>3. PICK m \in Names : <<d, f, m>> \in named
  <2>1. d # None /\ f # Root
    BY <1>1, <1>2, Types DEF Good, TreeInv
  <2> QED
    BY <1>1, <1>2, <2>1 DEF Known
<1>4. \A e \in named : e[1] \in dirs /\ e[1] # f
  <2>1. \A e \in named : e[1] \in dirs
    BY DEF Good, TreeInv, TreeShape
  <2> QED
    BY <1>1, <2>1 DEF IsEmpty, Deletes
<1>5. \A e \in named : e[2] = f => e = <<d, f, m>>
  BY <1>3 DEF Good, AtomicInv, OneName
<1>6. \A e \in named : e[1] \in Fid /\ e[2] \in Fid
  BY Types
<1> HIDE DEF j, f, d
<1> DEFINE l0 == <<d, m, f>>
<1>7. l0 \in Links
  <2>1. <<d, f, m>>[1] = d /\ <<d, f, m>>[2] = f /\ <<d, f, m>>[3] = m
    OBVIOUS
  <2> QED
    BY <1>2, <1>3, <2>1, LinksAre
<1>8. Links' = Links \ {l0}
  <2> DEFINE V == {x \in named : numbered[x[2]] = x[1]}
             W == {x \in named' : numbered'[x[2]] = x[1]}
  <2>1. /\ \A g \in Fid : g # f => numbered'[g] = numbered[g]
        /\ numbered'[f] = None /\ None \notin Fid
    BY <1>1, <1>2, Types DEF f
  <2>2. W = V \ {<<d, f, m>>}
    <3>1. ASSUME NEW x \in named
          PROVE  numbered'[x[2]] = x[1] <=> numbered[x[2]] = x[1] /\ x # <<d, f, m>>
      <4>1. CASE x[2] = f
        BY <1>5, <1>6, <2>1, <4>1
      <4>2. CASE x[2] # f
        BY <1>6, <2>1, <4>2
      <4> QED
        BY <4>1, <4>2
    <3> QED
      BY <1>2, <3>1
  <2>3. Links = {<<e[1], e[3], e[2]>> : e \in V}
        /\ Links' = {<<e[1], e[3], e[2]>> : e \in W}
    BY DEF Links
  <2>4. \A e \in V : e = <<e[1], e[2], e[3]>>
    BY Types
  <2> HIDE DEF V, W
  <2>5. \A e \in V : <<e[1], e[3], e[2]>> = l0 <=> e = <<d, f, m>>
    BY <2>4
  <2> HIDE DEF l0
  <2> QED
    BY <2>2, <2>3, <2>5
<1>9. \A k \in Links : k[1] # l0[3]
  <2> SUFFICES ASSUME NEW k \in Links, k[1] = f PROVE FALSE
    BY DEF l0
  <2>1. <<k[1], k[3], k[2]>> \in named
    BY LinksAre
  <2>2. <<k[1], k[3], k[2]>>[1] = k[1]
    OBVIOUS
  <2> QED
    BY <1>4, <2>1, <2>2
<1>10. Tree!Unlink(l0)
  BY <1>8, <1>9 DEF Tree!Unlink
<1> QED
  BY <1>7, <1>10 DEF Tree!Next

LEMMA DropNamedLinks ==
  ASSUME Good, NEW w \in Workers, DropNamed(w)
  PROVE  Links' = Links
<1> DEFINE f == job[w].fid
<1>1. /\ numbered' = numbered /\ nextFid' = nextFid /\ numbered[f] = None
      /\ named' = named \ {<<Here(job[w].src), f, job[w].req.name>>}
  BY Types DEF DropNamed, Leaving
<1>2. named' \subseteq named /\ \A e \in named : e[2] # f => e \in named'
  BY <1>1
<1>3. \A e \in named : numbered[e[2]] = e[1] => e[2] # f
  BY <1>1, Types
<1>4. Onward
  BY <1>1, <1>2, Types DEF Onward
<1> QED
  BY <1>1, <1>2, <1>3, <1>4, SameLinks

LEMMA StepOnTree ==
  ASSUME Good, [Next]_vars
  PROVE  [Tree!Next]_Links
<1>1. ASSUME UNCHANGED <<numbered, named>> PROVE Links' = Links
  BY <1>1 DEF Links
<1>2. CASE Crash \/ UNCHANGED vars
  BY <1>1, <1>2 DEF Crash, Restart, vars, disk
<1>3. ASSUME NEW w \in Workers,
             Start(w) \/ Lookups(w) \/ Naming(w) \/ Overflow(w)
      PROVE  Links' = Links
  BY <1>1, <1>3 DEF Start, Lookups, FindSrc, FindDst, NotFound, Extend, ExtendPanics, Naming,
     ByName, BadName, Lock, LockRefused, Check, NameTaken, CheckPanics, Overflow,
     Restart, disk
<1>4. ASSUME NEW w \in Workers, Creating(w) PROVE [Tree!Next]_Links
  <2>1. CASE MkNumbered(w) \/ MkNamed(w)
    BY <2>1, MkNumberedLinks, MkNamedLinks
  <2>2. CASE MkNamedFails(w) \/ SetAttr(w) \/ SetAttrFails(w) \/ CacheIns(w)
    BY <1>1, <2>2 DEF MkNamedFails, SetAttr, SetAttrFails, CacheIns, disk
  <2> QED
    BY <1>4, <2>1, <2>2 DEF Creating
<1>5. ASSUME NEW w \in Workers, Deleting(w) PROVE [Tree!Next]_Links
  <2>1. CASE Unlink(w) \/ DropNamed(w)
    BY <2>1, UnlinkLinks, DropNamedLinks
  <2>2. CASE CheckEmpty(w) \/ NotEmpty(w) \/ UnlinkFails(w) \/ DropNamedPanics(w)
    BY <1>1, <2>2 DEF CheckEmpty, NotEmpty, UnlinkFails, DropNamedPanics, disk
  <2> QED
    BY <1>5, <2>1, <2>2 DEF Deleting
<1>6. ASSUME NEW w \in Workers, Moving(w) PROVE FALSE
  BY <1>6, NotTaken DEF Moving
<1> QED
  BY <1>2, <1>3, <1>4, <1>5, <1>6 DEF Next

(* A client sees a tree in which each creation and each removal is one     *)
(* step, whatever other requests and crashes come between the system calls *)
(* it is made of (README, "Crash Recovery": a file exists when both its    *)
(* server files do).                                                       *)
THEOREM TreeIsImplemented ==
  ASSUME NoRenames, Literal, CleanStart
  PROVE  Spec => AtomicTree
<1>1. Init => Tree!Init
  BY DEF Init, Links, InitLinks, Tree!Init
<1>2. Good /\ [Next]_vars => [Tree!Next]_Links
  BY StepOnTree
<1> QED
  BY <1>1, <1>2, GoodInductive, PTL DEF Spec, AtomicTree, Tree!Spec

-----------------------------------------------------------------------------
(* A file whose ancestors all have their names is found from the root.     *)

\* Going up from a file one comes by no file twice, and so by few.
LEMMA ChainIsShort ==
  ASSUME Acyclic, NEW n \in Nat, NEW q, \A i \in 1 .. n : q[i] \in Fid,
         \A i \in 1 .. n - 1 : numbered[q[i + 1]] = q[i]
  PROVE  n <= MaxFid
<1>1. ASSUME NEW a \in 1 .. n, NEW b \in 1 .. n, a < b, q[a] = q[b] PROVE FALSE
  <2> DEFINE S == {q[i] : i \in {i \in 1 .. n : a < i /\ i <= b}}
  <2>1. S \in SUBSET Fid
    OBVIOUS
  <2>2. q[b] \in S
    BY <1>1
  <2>3. ASSUME NEW f \in S PROVE numbered[f] \in S
    <3>1. PICK i \in 1 .. n : a < i /\ i <= b /\ f = q[i]
      BY <2>3
    <3>2. i - 1 \in 1 .. n - 1 /\ (i - 1) + 1 = i
      BY <3>1
    <3>3. numbered[f] = q[i - 1]
      BY <3>1, <3>2
    <3>4. i - 1 = a \/ (a < i - 1 /\ i - 1 <= b /\ i - 1 \in 1 .. n)
      BY <3>1, <3>2
    <3> QED
      BY <1>1, <2>2, <3>3, <3>4
  <2> HIDE DEF S
  <2> QED
    BY <2>1, <2>2, <2>3 DEF Acyclic
<1> DEFINE g == [i \in 1 .. n |-> q[i]]
<1>2. g \in Injection(1 .. n, Fid)
  <2>1. g \in [1 .. n -> Fid]
    OBVIOUS
  <2>2. ASSUME NEW a \in 1 .. n, NEW b \in 1 .. n, g[a] = g[b] PROVE a = b
    BY <1>1, <2>2
  <2> QED
    BY <2>1, <2>2 DEF Injection, IsInjective
<1>3. \A m \in Nat : IsFiniteSet(1 .. m) /\ Cardinality(1 .. m) = m
  <2> SUFFICES ASSUME NEW m \in Nat
               PROVE  IsFiniteSet(1 .. m) /\ Cardinality(1 .. m) = m
    OBVIOUS
  <2>1. IsFiniteSet(1 .. m)
        /\ Cardinality(1 .. m) = IF 1 > m THEN 0 ELSE m - 1 + 1
    BY FS_Interval
  <2> QED
    BY <2>1
<1>4. MaxFid \in Nat /\ Fid = 1 .. MaxFid
  BY NamespaceAssumption DEF NamespaceAssumption, Fid
<1> HIDE DEF g
<1>5. Cardinality(1 .. n) <= Cardinality(Fid)
  BY <1>2, <1>3, <1>4, FS_Injection
<1> QED
  BY <1>3, <1>4, <1>5

LEMMA AllReachable ==
  ASSUME Acyclic, MaxDepth >= MaxFid, NEW U \in SUBSET Fid,
         \A f \in U : /\ Visible(numbered[f], f)
                      /\ numbered[f] = Root \/ numbered[f] \in U
  PROVE  \A f \in U : Reachable(f)
<1> DEFINE B == {f \in U : ~Reachable(f)}
<1>1. MaxDepth \in Nat /\ MaxFid \in Nat /\ Root \in Fid /\ MaxDepth >= 1
  BY NamespaceAssumption DEF NamespaceAssumption, Fid, Root
<1>2. Reachable(Root)
  <2> DEFINE p == [i \in 1 .. 1 |-> Root]
  <2>1. p \in [1 .. 1 -> Fid] /\ p[1] = Root
    BY <1>1
  <2>2. p \in Paths
    BY <1>1, <2>1 DEF Paths
  <2>3. Len(p) = 1
    OBVIOUS
  <2> HIDE DEF p
  <2> QED
    BY <2>1, <2>2, <2>3 DEF Reachable, Here
\* A path to the directory goes on to the file.
<1>3. ASSUME NEW f \in U, NEW p \in Paths, Here(p) = numbered[f],
             \A i \in 1 .. Len(p) - 1 : Visible(p[i], p[i + 1])
      PROVE  Reachable(f)
  <2> DEFINE n == Len(p)  q == [i \in 1 .. n + 1 |-> IF i <= n THEN p[i] ELSE f]
  <2>1. n \in Nat \ {0} /\ \A i \in 1 .. n : p[i] \in Fid
    BY PathFacts
  <2>2. p[1] = Root /\ p[n] = numbered[f] /\ f \in Fid
    BY <1>3 DEF Paths, Here
  <2>3. \A i \in 1 .. n - 1 : Visible(p[i], p[i + 1])
    BY <1>3
  <2> HIDE DEF n
  <2>4. /\ \A i \in 1 .. n : q[i] = p[i]
        /\ q[n + 1] = f
        /\ \A i \in 1 .. n + 1 : q[i] \in Fid
    BY <2>1, <2>2
  <2>5. ASSUME NEW i \in 1 .. n PROVE Visible(q[i], q[i + 1])
    <3>1. CASE i = n
      BY <2>1, <2>2, <2>4, <3>1
    <3>2. CASE i # n
      <4>1. i \in 1 .. n - 1 /\ i + 1 \in 1 .. n
        BY <2>1, <3>2
      <4> QED
        BY <2>3, <2>4, <4>1
    <3> QED
      BY <3>1, <3>2
  <2>6. n + 1 <= MaxFid
    <3> DEFINE m == n + 1
    <3>1. m \in Nat /\ m - 1 = n
      BY <2>1
    <3>2. \A i \in 1 .. m : q[i] \in Fid
      BY <2>4
    <3>3. \A i \in 1 .. m - 1 : numbered[q[i + 1]] = q[i]
      BY <2>5, <3>1 DEF Visible
    <3> HIDE DEF m, q
    <3>4. m <= MaxFid
      BY <3>1, <3>2, <3>3, ChainIsShort
    <3> QED
      BY <3>4 DEF m
  <2>7. n + 1 \in 1 .. MaxDepth
    BY <1>1, <2>1, <2>6
  <2>8. q \in [1 .. n + 1 -> Fid] /\ q[1] = Root /\ Len(q) = n + 1
    BY <2>1, <2>2, <2>4
  <2> HIDE DEF q
  <2>9. q \in Paths
    BY <2>7, <2>8 DEF Paths
  <2>10. Len(q) - 1 = n
    BY <2>1, <2>8
  <2>11. Here(q) = f
    BY <2>4, <2>8 DEF Here
  <2> QED
    BY <2>5, <2>9, <2>10, <2>11 DEF Reachable
<1>4. ASSUME NEW f \in B PROVE numbered[f] \in B
  <2>1. ~Reachable(numbered[f])
    BY <1>3 DEF Reachable
  <2> QED
    BY <1>2, <2>1
<1>5. B \in SUBSET Fid
  OBVIOUS
<1>6. B = {}
  <2> HIDE DEF B
  <2> QED
    BY <1>4, <1>5 DEF Acyclic
<1> QED
  BY <1>6

-----------------------------------------------------------------------------
(* Without renames no file is lost.                                        *)

\* Every file to start from has its name beside it.
AllNamed ==
    \A f \in Fid : InitNumbered[f] # None =>
        \E n \in Names : <<InitNumbered[f], f, n>> \in InitNamed

\* The bound on paths does not cut off what there are FIDs for.
DeepEnough == MaxDepth >= MaxFid

\* What is in a directory came there when the directory had its name.
FindInv ==
    /\ \A f \in Fid : numbered[f] # None => Known(numbered[f])
    /\ \A f \in live : numbered[f] # None /\ Known(f)

LEMMA FindStep ==
  ASSUME Good, FindInv, Onward, TypeOK',
         \A f \in Fid : numbered'[f] \in {numbered[f], None} \/ Known(numbered'[f]),
         \A f \in live' : \/ f \in live /\ numbered'[f] = numbered[f]
                          \/ numbered'[f] # None /\ Known(f)'
  PROVE  FindInv'
<1>1. \A f \in Fid : Known(f) => Known(f)'
  BY KnownKept DEF TypeOK
<1>2. \A f \in Fid : numbered[f] \in Fid \union {None} /\ numbered'[f] \in Fid \union {None}
  BY Types DEF TypeOK
<1>3. \A f \in Fid : numbered'[f] # None => Known(numbered'[f])
  BY <1>2 DEF FindInv
<1>4. ASSUME NEW f \in Fid, numbered'[f] # None PROVE Known(numbered[f])'
  <2>1. PICK d \in Fid : d = numbered'[f] /\ Known(d)
    BY <1>2, <1>3, <1>4
  <2>2. Known(d)'
    BY <1>1, <2>1
  <2> QED
    BY <2>1, <2>2 DEF Known
<1>5. \A f \in live' : numbered'[f] # None /\ Known(f)'
  BY <1>1 DEF FindInv, TypeOK
<1> QED
  BY <1>4, <1>5 DEF FindInv

LEMMA StepKeepsFind ==
  ASSUME NoRenames, Literal, Good, FindInv, Good', [Next]_vars
  PROVE  FindInv'
<1>1. TypeOK'
  BY DEF Good, IInv
<1>2. ASSUME UNCHANGED <<numbered, named, nextFid, live>> PROVE FindInv'
  BY <1>2 DEF FindInv, Known
<1>3. ASSUME NEW w \in Workers, MkNumbered(w) PROVE FindInv'
  <2> DEFINE j == job[w]  new == nextFid  d == Here(j.dst)
  <2>1. /\ j \in Job /\ WellFormed(j) /\ JobKnown(j) /\ j.pc = "mkNumbered"
        /\ j.dst \in Paths /\ d \in Fid
    BY <1>3, Types, PathFacts DEF MkNumbered, WellFormed, Owning
  <2>2. Known(d)
    <3>1. Len(j.dst) \in 1 .. Len(j.dst)
      BY <2>1, PathFacts
    <3> QED
      BY <2>1, <3>1 DEF JobKnown, Here
  <2>3. /\ new \in Nat /\ nextFid' = new + 1 /\ live' = live /\ named' = named
        /\ \A g \in Fid : g # new => numbered'[g] = numbered[g]
        /\ new \in Fid => numbered'[new] \in {numbered[new], d}
    BY <1>3, Types DEF MkNumbered
  <2>4. Onward
    BY <2>3, Types DEF Onward, Good, AtomicInv, OneName
  <2>5. \A f \in Fid : numbered'[f] \in {numbered[f], None} \/ Known(numbered'[f])
    BY <2>2, <2>3
  <2>6. \A f \in live' : f \in live /\ numbered'[f] = numbered[f]
    <3>1. \A f \in live : f \in Fid /\ f # new
      BY <2>3, Types DEF FindInv, Known, Good, IInv, TypeOK
    <3> QED
      BY <2>3, <3>1
  <2> QED
    BY <1>1, <2>4, <2>5, <2>6, FindStep
<1>4. ASSUME NEW w \in Workers, MkNamed(w) PROVE FindInv'
  <2> DEFINE j == job[w]
  <2>1. /\ j \in Job /\ WellFormed(j) /\ Making(j) /\ j.pc = "mkNamed"
        /\ j.dst \in Paths /\ Here(j.dst) \in Fid /\ j.fid \in Fid
        /\ j.req \in Requests /\ j.req.toname \in Names
    BY <1>4, Types, PathFacts, RequestFacts DEF MkNamed, WellFormed, Owning
  <2>2. PICK f \in Fid, d \in Fid, n \in Names :
           f = j.fid /\ d = Here(j.dst) /\ n = j.req.toname
    BY <2>1
  <2>3. /\ UNCHANGED <<numbered, nextFid>> /\ live' \subseteq live \union {f}
        /\ named' = named \union {<<d, f, n>>}
    BY <1>4, <2>2 DEF MkNamed
  <2>4. numbered[f] = d /\ f < nextFid
    BY <2>1, <2>2 DEF Making
  <2> HIDE DEF j
  <2>5. Onward
    BY <2>3, Types DEF Onward
  <2>6. numbered'[f] # None /\ Known(f)'
    <3>1. numbered'[f] = d /\ f < nextFid' /\ d # None
      BY <2>3, <2>4, Types
    <3>2. <<d, f, n>> \in named'
      BY <2>3
    <3> QED
      BY <2>2, <3>1, <3>2 DEF Known
  <2>7. \A x \in Fid : numbered'[x] = numbered[x]
    BY <2>3
  <2>8. \A x \in live' : \/ x \in live /\ numbered'[x] = numbered[x]
                         \/ numbered'[x] # None /\ Known(x)'
    <3> TAKE x \in live'
    <3>1. x \in live \/ x = f
      BY <2>3
    <3> QED
      BY <2>3, <2>6, <3>1
  <2> QED
    BY <1>1, <2>5, <2>7, <2>8, FindStep
<1>5. ASSUME NEW w \in Workers, Unlink(w) PROVE FindInv'
  <2> DEFINE j == job[w]  f == j.fid
  <2>1. f \in Fid /\ f < nextFid
    BY <1>5, Types DEF Unlink, WellFormed, JobKnown, Known
  <2>2. /\ UNCHANGED <<named, nextFid>> /\ live' = live \ {f}
        /\ \A g \in Fid : g # f => numbered'[g] = numbered[g]
        /\ numbered'[f] = None
    BY <1>5, <2>1, Types DEF Unlink
  <2>3. Onward
    BY <2>1, <2>2, Types DEF Onward, Good, AtomicInv, OneName
  <2>4. \A g \in live' : g \in live /\ numbered'[g] = numbered[g]
    <3>1. live \subseteq Fid
      BY DEF Good, IInv, TypeOK
    <3> QED
      BY <2>2, <3>1
  <2>5. \A g \in Fid : numbered'[g] \in {numbered[g], None}
    BY <2>2
  <2> QED
    BY <1>1, <2>3, <2>4, <2>5, FindStep
<1>6. ASSUME NEW w \in Workers, DropNamed(w) PROVE FindInv'
  <2> DEFINE f == job[w].fid
  <2>1. numbered[f] = None /\ f \in Fid
    BY <1>6, Types DEF DropNamed, Leaving, WellFormed
  <2>2. /\ UNCHANGED <<numbered, nextFid, live>>
        /\ named' = named \ {<<Here(job[w].src), f, job[w].req.name>>}
    BY <1>6 DEF DropNamed
  <2>3. Onward
    BY <2>1, <2>2, Types DEF Onward
  <2> QED
    BY <1>1, <2>2, <2>3, FindStep
<1>7. ASSUME NEW w \in Workers, Moving(w) PROVE FALSE
  BY <1>7, NotTaken DEF Moving
<1>8. ASSUME NEW w \in Workers,
             \/ Start(w) \/ Lookups(w) \/ Naming(w) \/ Overflow(w)
             \/ MkNamedFails(w) \/ SetAttr(w) \/ SetAttrFails(w) \/ CacheIns(w)
             \/ CheckEmpty(w) \/ NotEmpty(w) \/ UnlinkFails(w) \/ DropNamedPanics(w)
      PROVE  FindInv'
  BY <1>2, <1>8 DEF Start, Lookups, FindSrc, FindDst, NotFound, Extend, Naming,
     ByName, BadName, Lock, LockRefused, Check, NameTaken, CheckPanics, Overflow,
     Restart, MkNamedFails, SetAttr, SetAttrFails, CacheIns, UnlinkFails,
     ExtendPanics, CheckEmpty, NotEmpty,
     DropNamedPanics, disk
<1>9. CASE Crash \/ UNCHANGED vars
  BY <1>2, <1>9 DEF Crash, Restart, vars, disk
<1> QED
  BY <1>3, <1>4, <1>5, <1>6, <1>7, <1>8, <1>9 DEF Next, Creating, Deleting

(* README, Crash Recovery: a file that exists has its numbered and its     *)
(* named file in one directory, up to the root, so that the search on disk *)
(* (mod.rs:140-245) finds it, whatever is created and removed at the same  *)
(* time and wherever the process dies.                                     *)
THEOREM NoFileIsLost ==
  ASSUME NoRenames, Literal, CleanStart, AllNamed, DeepEnough
  PROVE  Spec => []Findable
<1>1. Init => FindInv
  <2> SUFFICES ASSUME Init PROVE FindInv
    OBVIOUS
  <2>1. /\ numbered = InitNumbered /\ named = InitNamed /\ nextFid = FirstFree
        /\ live = {f \in Fid : InitNumbered[f] # None}
    BY DEF Init
  <2>2. \A f \in Fid : InitNumbered[f] # None => Known(f)
    <3> TAKE f \in Fid
    <3> HAVE InitNumbered[f] # None
    <3>1. PICK n \in Names : <<InitNumbered[f], f, n>> \in InitNamed
      BY DEF AllNamed
    <3>2. ~(f >= FirstFree) /\ f \in Nat /\ FirstFree \in Nat
      BY NamespaceAssumption, TreeAssumption
         DEF NamespaceAssumption, TreeAssumption, Fid
    <3>3. f < nextFid
      BY <2>1, <3>2
    <3> QED
      BY <2>1, <3>1, <3>3 DEF Known
  <2>3. \A f \in Fid : InitNumbered[f] # None => Known(InitNumbered[f])
    <3>1. Known(Root)
      BY InitTree DEF Known, TreeInv
    <3>2. \A f \in Fid : InitNumbered[f] # None =>
             /\ InitNumbered[f] \in Fid
             /\ InitNumbered[f] = Root \/ InitNumbered[InitNumbered[f]] # None
      BY NamespaceAssumption, TreeAssumption DEF NamespaceAssumption, TreeAssumption
    <3> QED
      BY <2>2, <3>1, <3>2
  <2> QED
    BY <2>1, <2>2, <2>3 DEF FindInv
<1>2. FindInv /\ Good /\ Good' /\ [Next]_vars => FindInv'
  BY StepKeepsFind
<1>3. FindInv /\ Good => Findable
  <2> SUFFICES ASSUME FindInv, Good PROVE Findable
    OBVIOUS
  <2> DEFINE U == {f \in Fid : numbered[f] # None /\ Known(f)}
  <2>1. live \subseteq U
    BY DEF FindInv, Good, IInv, TypeOK
  <2>2. ASSUME NEW f \in U
        PROVE  /\ Visible(numbered[f], f)
               /\ numbered[f] = Root \/ numbered[f] \in U
    <3>1. f # Root
      BY Types DEF Good, TreeInv
    <3>2. Visible(numbered[f], f)
      BY <3>1 DEF Known, Visible
    <3>3. numbered[f] \in Fid /\ Known(numbered[f])
      BY Types DEF FindInv
    <3>4. numbered[f] = Root \/ numbered[numbered[f]] # None
      BY DEF Good, TreeInv, TreeShape, Present
    <3> QED
      BY <3>2, <3>3, <3>4
  <2>3. U \in SUBSET Fid
    OBVIOUS
  <2> HIDE DEF U
  <2>4. \A f \in U : Reachable(f)
    BY <2>2, <2>3, AllReachable DEF Good, TreeInv, TreeShape, DeepEnough
  <2> QED
    BY <2>1, <2>4 DEF Findable
<1> QED
  BY <1>1, <1>2, <1>3, GoodInductive, PTL DEF Spec

-----------------------------------------------------------------------------
(* A worker by itself, renames included.                                   *)

OneWorker == \A v, w \in Workers : v = w

\* A file that a search on disk finds in its directory.
Named(f) == f = Root \/ Visible(numbered[f], f)

NewName(j) == <<Here(j.dst), j.fid, j.req.toname>>
OldName(j) == <<Here(j.src), j.fid, j.req.name>>

\* The directories that were found are still where they were.
Places(j) ==
    /\ \/ j.pc \in {"extSrc", "byName", "readDir", "unlink"}
       \/ IsRename(j) /\ j.pc \in {"findDst", "extDst", "lock", "check",
                                   "mkNamed", "move"}
       => Exists(j.src) /\ Here(j.src) = j.req.dir
    /\ \/ j.pc \in {"extDst", "lock", "cacheIns", "dropOld"} \union Owning
       \/ IsRename(j) /\ j.pc = "byName"
       => Exists(j.dst) /\ Here(j.dst) = j.req.todir /\ Named(Here(j.dst))
    /\ j.pc \in {"extSrc", "extDst"} => \A m \in j.pairs : Visible(m[2], m[1])
    /\ IsCreate(j) /\ j.pc \in Owning => Here(j.dst) \in dirs

\* The file is where the names are that were found or made.
Subject(j) ==
    /\ IsRename(j) /\ j.pc \in {"lock", "check"} =>
          j.fid \in WithName(j.src, j.req.name)
    /\ IsRename(j) /\ j.pc \in {"mkNamed", "move"} => Visible(Here(j.src), j.fid)
    /\ IsRename(j) /\ j.pc \in {"mkNamed", "move", "dropOld"} =>
          NewName(j) # OldName(j)
    /\ IsCreate(j) /\ j.pc = "mkNamed" => numbered[j.fid] = Here(j.dst)
    /\ j.pc \in {"setAttr", "cacheIns", "dropOld"} => numbered[j.fid] = Here(j.dst)
    /\ j.pc \in {"setAttr", "cacheIns", "move", "dropOld"} => NewName(j) \in named
    /\ j.pc = "dropNamed" => numbered[j.fid] = None /\ IsDir(j.src)

JobAlone(j) == Kinds(j) /\ Places(j) /\ Subject(j)

\* A remove forgets its mapping last.
CacheTrue ==
    \A f \in Fid :
        \/ cache[f] = None
        \/ cache[f] = numbered[f] /\ Named(f)
        \/ \E w \in Workers : job[w].pc = "dropNamed" /\ job[w].fid = f

AloneInv ==
    /\ \A w \in Workers : JobAlone(job[w])
    /\ CacheTrue /\ NeverPoisoned

\* What is in a directory came there when the directory had its name.
Rooted ==
    /\ \A f \in Fid : numbered[f] # None => Named(numbered[f])
    /\ \A f \in live : numbered[f] # None /\ Named(f)

Orderly == IInv /\ TreeInv /\ AloneInv

LEMMA AloneTypes ==
  ASSUME Orderly
  PROVE  /\ numbered \in [Fid -> Fid \union {None}] /\ None \notin Fid
         /\ Fid \subseteq Nat /\ nextFid \in Nat /\ Root \in Fid
         /\ named \subseteq Fid \X Fid \X Names
         /\ cache \in [Fid -> Fid \union {None}] /\ dirs \subseteq Fid
         /\ live \subseteq Fid /\ poisoned = FALSE /\ CacheTrue
         /\ job \in [Workers -> Job]
         /\ \A w \in Workers : /\ job[w] \in Job /\ WellFormed(job[w])
                               /\ Kinds(job[w]) /\ Places(job[w]) /\ Subject(job[w])
  BY NamespaceAssumption DEF NamespaceAssumption, Orderly, IInv, TypeOK, JobsOK,
     AloneInv, JobAlone, NeverPoisoned, Fid, None, Root

LEMMA IdleAlone == JobAlone(Idle)
  BY DEF JobAlone, Kinds, Places, Subject, Idle, Owning, IsCreate, IsRename, Creates

\* Field by field, the job after a Goto.
LEMMA GotoFields ==
  ASSUME Orderly, NEW w \in Workers, NEW x \in Job, NEW pc \in PCs \ {"idle"},
         Goto(w, x, pc)
  PROVE  /\ job'[w].pc = pc /\ job'[w].req = x.req
         /\ job'[w].src = x.src /\ job'[w].dst = x.dst
         /\ job'[w].fid = x.fid /\ job'[w].pairs = x.pairs
<1>1. job'[w] = [x EXCEPT !.pc = pc]
  BY AloneTypes, GotoJob
<1> QED
  BY <1>1 DEF Job

LEMMA SameTree ==
  ASSUME UNCHANGED <<numbered, named, dirs>>, NEW j
  PROVE  /\ Places(j)' <=> Places(j)
         /\ Subject(j)' <=> Subject(j)
<1>1. \A d, f : Visible(d, f)' <=> Visible(d, f)
  BY DEF Visible
<1>2. \A p : (Exists(p)' <=> Exists(p)) /\ (IsDir(p)' <=> IsDir(p))
  BY DEF Exists, IsDir
<1>3. \A f : Named(f)' <=> Named(f)
  BY DEF Named, Visible
<1>4. \A p, n : WithName(p, n)' = WithName(p, n)
  BY DEF WithName
<1>5. Places(j)' <=> Places(j)
  BY <1>1, <1>2, <1>3 DEF Places
<1>6. Subject(j)' <=> Subject(j)
  BY <1>1, <1>2, <1>4 DEF Subject
<1> QED
  BY <1>5, <1>6

\* A step that leaves the disk alone.
LEMMA AloneFrame ==
  ASSUME OneWorker, Orderly, NEW w \in Workers,
         UNCHANGED <<numbered, named, dirs, live>>, poisoned' = FALSE,
         job[w].pc # "dropNamed", JobAlone(job'[w]),
         \A f \in Fid : \/ cache'[f] \in {None, cache[f]}
                        \/ cache'[f] = numbered[f] /\ Named(f)
  PROVE  AloneInv' /\ (Rooted => Rooted')
<1>1. \A f \in Fid : Named(f)' <=> Named(f)
  BY DEF Named, Visible
<1>2. JobAlone(job[w])'
  <2>1. PICK j : j = job'[w]
    OBVIOUS
  <2>2. Kinds(j) /\ Places(j)' /\ Subject(j)'
    BY <2>1, SameTree DEF JobAlone
  <2>3. Kinds(job[w])'
    BY <2>1, <2>2 DEF Kinds, IsCreate, IsRename
  <2>4. Places(job[w])'
    BY <2>1, <2>2 DEF Places
  <2>5. Subject(job[w])'
    BY <2>1, <2>2 DEF Subject
  <2> QED
    BY <2>3, <2>4, <2>5 DEF JobAlone
<1>3. CacheTrue'
  BY <1>1, AloneTypes DEF CacheTrue, OneWorker
<1>4. Rooted => Rooted'
  BY DEF Rooted, Named, Visible
<1> QED
  BY <1>2, <1>3, <1>4 DEF AloneInv, OneWorker, NeverPoisoned

\* The request ends, and so may what the cache had of its file.
LEMMA AloneFinish ==
  ASSUME OneWorker, Orderly, NEW w \in Workers, Finish(w),
         UNCHANGED <<numbered, named, dirs, live>>, poisoned' = FALSE,
         job[w].pc # "dropNamed",
         \A f \in Fid : \/ cache'[f] \in {None, cache[f]}
                        \/ cache'[f] = numbered[f] /\ Named(f)
  PROVE  AloneInv' /\ (Rooted => Rooted')
<1>1. job'[w] = Idle
  BY AloneTypes, FinishJob
<1> QED
  BY <1>1, IdleAlone, AloneFrame

\* What a search finds is there.
LEMMA FoundIsThere ==
  ASSUME Orderly, \A w \in Workers : job[w].pc # "dropNamed",
         NEW f \in Fid, NEW p \in Paths, NEW k \in 1 .. Len(p), Found(f, p, k)
  PROVE  /\ Exists(p) /\ Here(p) = f /\ Named(f)
         /\ \A m \in ToCache(p, k) : Visible(m[2], m[1])
<1> DEFINE n == Len(p)
<1>1. /\ n \in Nat \ {0} /\ k \in 1 .. n /\ p[n] = f /\ p[1] = Root
      /\ \A i \in 1 .. n : p[i] \in Fid
      /\ \A i \in k .. n - 1 : p[i + 1] # Root /\ cache[p[i + 1]] = p[i]
      /\ \A i \in 1 .. k - 1 : Visible(p[i], p[i + 1])
  BY PathFacts DEF Found, Paths, Here
<1> HIDE DEF n
<1>2. ASSUME NEW i \in 1 .. n - 1 PROVE Visible(p[i], p[i + 1])
  <2>1. CASE i \in 1 .. k - 1
    BY <1>1, <2>1
  <2>2. CASE i \in k .. n - 1
    <3>1. i \in 1 .. n /\ i + 1 \in 1 .. n
      BY <1>1
    <3>2. cache[p[i + 1]] = p[i] /\ p[i + 1] # Root /\ p[i] # None
      BY <1>1, <2>2, <3>1, AloneTypes
    <3>3. PICK g \in Fid : g = p[i + 1]
      BY <1>1, <3>1
    <3>4. p[i] = numbered[g] /\ Named(g)
      BY <3>2, <3>3, AloneTypes DEF CacheTrue
    <3> QED
      BY <3>2, <3>3, <3>4 DEF Named
  <2> QED
    BY <1>1, <2>1, <2>2
<1>3. Exists(p)
  BY <1>2 DEF Exists, Visible, n
<1>4. Named(f)
  <2>1. CASE n = 1
    BY <1>1, <2>1 DEF Named
  <2>2. CASE n # 1
    <3> DEFINE i == n - 1
    <3>1. i \in 1 .. n - 1 /\ i + 1 = n
      BY <1>1, <2>2
    <3> HIDE DEF i
    <3>2. Visible(p[i], f)
      BY <1>1, <1>2, <3>1
    <3> QED
      BY <3>2 DEF Named, Visible
  <2> QED
    BY <2>1, <2>2
<1>5. ASSUME NEW m \in ToCache(p, k) PROVE Visible(m[2], m[1])
  BY <1>1 DEF ToCache
<1> QED
  BY <1>1, <1>3, <1>4, <1>5 DEF Here, n

LEMMA AloneStart ==
  ASSUME OneWorker, Orderly, NEW w \in Workers, Start(w)
  PROVE  AloneInv' /\ (Rooted => Rooted')
<1>1. PICK r \in Requests :
         job' = [job EXCEPT ![w] = [Idle EXCEPT
                    !.pc = IF r.op \in Creates THEN "findDst" ELSE "findSrc",
                    !.req = r]]
  BY DEF Start
<1> DEFINE x == [Idle EXCEPT
                    !.pc = IF r.op \in Creates THEN "findDst" ELSE "findSrc",
                    !.req = r]
<1>2. job'[w] = x
  BY <1>1, AloneTypes
<1>3. /\ x.pc = IF r.op \in Creates THEN "findDst" ELSE "findSrc"
      /\ x.req = r
  BY DEF Idle
<1> HIDE DEF x
<1>4. JobAlone(x)
  BY <1>3 DEF JobAlone, Kinds, Places, Subject, IsCreate, IsRename, Creates, Owning
<1>5. /\ UNCHANGED <<numbered, named, dirs, live, cache>> /\ poisoned' = FALSE
      /\ job[w].pc # "dropNamed"
  BY AloneTypes DEF Start, disk, memory
<1> QED
  BY <1>2, <1>4, <1>5, AloneFrame

LEMMA AfterPCs ==
  ASSUME NEW r \in Requests
  PROVE  /\ \/ r.op = "rename" /\ AfterSrc(r) = "findDst"
            \/ AfterSrc(r) \in {"byName", "idle"}
         /\ AfterSrc(r) = "byName" => r.op # "rename"
         /\ AfterDst(r) = IF r.op \in Creates THEN "lock" ELSE "byName"
         /\ \/ r.op = "rename" /\ AfterName(r) = "lock"
            \/ r.op \in Deletes /\ AfterName(r) \in {"readDir", "unlink"}
            \/ AfterName(r) = "idle"
         /\ r.op = "rename" => r.op \notin Creates /\ r.op \notin Deletes
         /\ r.op \notin Creates \/ r.op \notin Deletes
  BY RequestFacts DEF AfterSrc, AfterDst, AfterName, Ops, Creates, Deletes

LEMMA AloneFind ==
  ASSUME OneWorker, Orderly, NEW w \in Workers, FindSrc(w) \/ FindDst(w)
  PROVE  AloneInv' /\ (Rooted => Rooted')
<1> DEFINE j == job[w]
<1>1. /\ j \in Job /\ WellFormed(j) /\ Kinds(j) /\ Places(j)
      /\ j.pc \in {"findSrc", "findDst"} /\ j.req \in Requests
  BY AloneTypes DEF FindSrc, FindDst, WellFormed
<1>2. /\ UNCHANGED <<numbered, named, dirs, live, cache>> /\ poisoned' = FALSE
      /\ \A v \in Workers : job[v].pc # "dropNamed"
  BY <1>1, AloneTypes DEF FindSrc, FindDst, disk, memory, OneWorker
<1>3. j.req.dir \in Fid /\ j.req.todir \in Fid
  BY <1>1, RequestFacts
<1>4. CASE FindSrc(w)
  <2>0. PICK p \in Paths : \E k \in 1 .. Len(p) :
          /\ Found(j.req.dir, p, k)
          /\ Goto(w, [j EXCEPT !.src = p, !.pairs = ToCache(p, k)],
                  IF k = 1 THEN AfterSrc(j.req) ELSE "extSrc")
    BY <1>4 DEF FindSrc
  <2>1. PICK k \in 1 .. Len(p) :
          /\ Found(j.req.dir, p, k)
          /\ Goto(w, [j EXCEPT !.src = p, !.pairs = ToCache(p, k)],
                  IF k = 1 THEN AfterSrc(j.req) ELSE "extSrc")
    BY <2>0
  <2> DEFINE x == [j EXCEPT !.src = p, !.pairs = ToCache(p, k)]
             pc == IF k = 1 THEN AfterSrc(j.req) ELSE "extSrc"
  <2>2. /\ x.req = j.req /\ x.src = p /\ x.dst = j.dst /\ x.fid = j.fid
        /\ x.pairs = ToCache(p, k) /\ x \in Job
    BY <1>1, ToCacheType DEF Job
  <2>3. /\ Exists(p) /\ Here(p) = j.req.dir /\ Named(j.req.dir)
        /\ \A m \in ToCache(p, k) : Visible(m[2], m[1])
    BY <1>2, <1>3, <2>1, FoundIsThere
  <2>4. /\ j.pc = "findSrc" /\ ~IsCreate(j)
    BY <1>1, <1>4 DEF FindSrc, WellFormed
  <2>5. Goto(w, x, pc)
    BY <2>1
  <2>6. \/ pc = "findDst" /\ j.req.op = "rename"
        \/ pc = "byName" /\ j.req.op # "rename"
        \/ pc \in {"extSrc", "idle"}
    BY <1>1, AfterPCs
  <2> HIDE DEF x, pc
  <2>7. JobAlone(job'[w])
    <3>1. CASE pc = "idle"
      <4>1. job'[w] = Idle
        BY <2>5, <3>1, AloneTypes DEF Goto
      <4> QED
        BY <4>1, IdleAlone
    <3>2. CASE pc # "idle"
      <4>1. pc \in PCs \ {"idle"}
        BY <2>6, <3>2 DEF PCs
      <4>2. /\ job'[w].pc = pc /\ job'[w].req = j.req
            /\ job'[w].src = p /\ job'[w].pairs = ToCache(p, k)
        BY <2>2, <2>5, <4>1, GotoFields
      <4> HIDE DEF j
      <4> QED
        BY <2>3, <2>4, <2>6, <3>2, <4>2
           DEF JobAlone, Kinds, Places, Subject, IsCreate, IsRename, Owning
    <3> QED
      BY <3>1, <3>2
  <2> QED
    BY <1>2, <2>7, AloneFrame
<1>5. CASE FindDst(w)
  <2>0. PICK p \in Paths : \E k \in 1 .. Len(p) :
          /\ Found(j.req.todir, p, k)
          /\ Goto(w, [j EXCEPT !.dst = p, !.pairs = ToCache(p, k)],
                  IF k = 1 THEN AfterDst(j.req) ELSE "extDst")
    BY <1>5 DEF FindDst
  <2>1. PICK k \in 1 .. Len(p) :
          /\ Found(j.req.todir, p, k)
          /\ Goto(w, [j EXCEPT !.dst = p, !.pairs = ToCache(p, k)],
                  IF k = 1 THEN AfterDst(j.req) ELSE "extDst")
    BY <2>0
  <2> DEFINE x == [j EXCEPT !.dst = p, !.pairs = ToCache(p, k)]
             pc == IF k = 1 THEN AfterDst(j.req) ELSE "extDst"
  <2>2. /\ x.req = j.req /\ x.dst = p /\ x.src = j.src /\ x.fid = j.fid
        /\ x.pairs = ToCache(p, k) /\ x \in Job
    BY <1>1, ToCacheType DEF Job
  <2>3. /\ Exists(p) /\ Here(p) = j.req.todir /\ Named(j.req.todir)
        /\ \A m \in ToCache(p, k) : Visible(m[2], m[1])
    BY <1>2, <1>3, <2>1, FoundIsThere
  <2>4. /\ j.pc = "findDst" /\ (IsCreate(j) \/ IsRename(j))
        /\ IsRename(j) => Exists(j.src) /\ Here(j.src) = j.req.dir
    BY <1>1, <1>5 DEF FindDst, Kinds, Places
  <2>5. Goto(w, x, pc)
    BY <2>1
  <2>6. \/ pc = "lock" /\ IsCreate(j)
        \/ pc = "byName" /\ ~IsCreate(j)
        \/ pc = "extDst"
    BY <1>1, AfterPCs DEF IsCreate
  <2>7. ~(IsCreate(j) /\ IsRename(j))
    BY <1>1, AfterPCs DEF IsCreate, IsRename
  <2> HIDE DEF x, pc
  <2>8. pc \in PCs \ {"idle"}
    BY <2>6 DEF PCs
  <2>9. /\ job'[w].pc = pc /\ job'[w].req = j.req /\ job'[w].src = j.src
        /\ job'[w].dst = p /\ job'[w].pairs = ToCache(p, k)
    BY <2>2, <2>5, <2>8, GotoFields
  <2>10. JobAlone(job'[w])
    <3> HIDE DEF j
    <3> QED
      BY <2>3, <2>4, <2>6, <2>7, <2>9
         DEF JobAlone, Kinds, Places, Subject, IsCreate, IsRename, Owning
  <2> QED
    BY <1>2, <2>10, AloneFrame
<1> QED
  BY <1>4, <1>5

LEMMA AloneExtend ==
  ASSUME OneWorker, Orderly, NEW w \in Workers, Extend(w)
  PROVE  AloneInv' /\ (Rooted => Rooted')
<1> DEFINE j  == job[w]
           x  == [j EXCEPT !.pairs = {}]
           pc == IF j.pc = "extSrc" THEN AfterSrc(j.req) ELSE AfterDst(j.req)
<1>1. /\ j \in Job /\ WellFormed(j) /\ Kinds(j) /\ Places(j)
      /\ j.pc \in {"extSrc", "extDst"} /\ j.req \in Requests
  BY AloneTypes DEF Extend, WellFormed
<1>2. /\ UNCHANGED <<numbered, named, dirs, live>> /\ poisoned' = FALSE
      /\ Goto(w, x, pc)
      /\ cache' = [f \in Fid |->
                     IF \E d \in Fid : <<f, d>> \in j.pairs
                     THEN CHOOSE d \in Fid : <<f, d>> \in j.pairs
                     ELSE cache[f]]
  BY AloneTypes DEF Extend, disk
<1>3. /\ x \in Job /\ x.req = j.req /\ x.src = j.src /\ x.dst = j.dst
  BY <1>1 DEF Job
<1>4. \A m \in j.pairs : Visible(m[2], m[1])
  BY <1>1 DEF Places
<1>5. ASSUME NEW f \in Fid
      PROVE  \/ cache'[f] \in {None, cache[f]}
             \/ cache'[f] = numbered[f] /\ Named(f)
  <2>1. CASE \E d \in Fid : <<f, d>> \in j.pairs
    <3>1. PICK d \in Fid : d = cache'[f] /\ <<f, d>> \in j.pairs
      BY <1>2, <2>1
    <3>2. Visible(d, f)
      BY <1>4, <3>1
    <3> QED
      BY <3>1, <3>2 DEF Named, Visible
  <2>2. CASE ~\E d \in Fid : <<f, d>> \in j.pairs
    BY <1>2, <2>2
  <2> QED
    BY <2>1, <2>2
<1>6. /\ j.pc = "extSrc" => ~IsCreate(j) /\ Exists(j.src) /\ Here(j.src) = j.req.dir
      /\ j.pc = "extDst" =>
            /\ Exists(j.dst) /\ Here(j.dst) = j.req.todir /\ Named(Here(j.dst))
            /\ IsCreate(j) \/ IsRename(j)
            /\ IsRename(j) => Exists(j.src) /\ Here(j.src) = j.req.dir
  BY <1>1 DEF WellFormed, Kinds, Places
<1>7. \/ j.pc = "extSrc" /\ pc = "findDst" /\ IsRename(j)
      \/ j.pc = "extSrc" /\ pc = "byName" /\ ~IsRename(j)
      \/ j.pc = "extSrc" /\ pc = "idle"
      \/ j.pc = "extDst" /\ pc = "lock" /\ IsCreate(j) /\ ~IsRename(j)
      \/ j.pc = "extDst" /\ pc = "byName" /\ ~IsCreate(j)
  BY <1>1, AfterPCs DEF IsCreate, IsRename
<1> HIDE DEF x, pc
<1>8. JobAlone(job'[w])
  <2>1. CASE pc = "idle"
    <3>1. job'[w] = Idle
      BY <1>2, <2>1, AloneTypes DEF Goto
    <3> QED
      BY <3>1, IdleAlone
  <2>2. CASE pc # "idle"
    <3>1. pc \in PCs \ {"idle"}
      BY <1>7, <2>2 DEF PCs
    <3>2. /\ job'[w].pc = pc /\ job'[w].req = j.req /\ job'[w].src = j.src
          /\ job'[w].dst = j.dst
      BY <1>2, <1>3, <3>1, GotoFields
    <3> HIDE DEF j
    <3> QED
      BY <1>6, <1>7, <2>2, <3>2
         DEF JobAlone, Kinds, Places, Subject, IsCreate, IsRename, Owning
  <2> QED
    BY <2>1, <2>2
<1>9. j.pc # "dropNamed"
  BY <1>1
<1> QED
  BY <1>2, <1>5, <1>8, <1>9, AloneFrame

-----------------------------------------------------------------------------
(* Names.                                                                  *)

LEMMA AloneByName ==
  ASSUME OneWorker, Orderly, NEW w \in Workers, ByName(w)
  PROVE  AloneInv' /\ (Rooted => Rooted')
<1> DEFINE j == job[w]  pc == AfterName(j.req)
<1>1. /\ j \in Job /\ Kinds(j) /\ Places(j) /\ WellFormed(j)
      /\ j.pc = "byName" /\ j.req \in Requests /\ ~IsCreate(j)
  BY AloneTypes DEF ByName, WellFormed
<1>2. PICK f \in Fid : f \in WithName(j.src, j.req.name)
                       /\ Goto(w, [j EXCEPT !.fid = f], AfterName(j.req))
  BY DEF ByName, WithName
<1> DEFINE x == [j EXCEPT !.fid = f]
<1>3. /\ UNCHANGED <<numbered, named, dirs, live, cache>> /\ poisoned' = FALSE
      /\ j.pc # "dropNamed"
  BY <1>1, AloneTypes DEF ByName, disk, memory
<1>4. /\ x \in Job /\ x.req = j.req /\ x.src = j.src /\ x.dst = j.dst /\ x.fid = f
  BY <1>1 DEF Job
<1>5. /\ Exists(j.src) /\ Here(j.src) = j.req.dir
      /\ IsRename(j) =>
            Exists(j.dst) /\ Here(j.dst) = j.req.todir /\ Named(Here(j.dst))
  BY <1>1 DEF Places
<1>6. \/ pc = "lock" /\ IsRename(j) /\ ~IsCreate(j)
      \/ pc \in {"readDir", "unlink"} /\ j.req.op \in Deletes /\ ~IsRename(j) /\ ~IsCreate(j)
      \/ pc = "idle"
  BY <1>1, AfterPCs DEF IsCreate, IsRename
<1>7. Goto(w, x, pc)
  BY <1>2
<1> HIDE DEF x, pc
<1>8. JobAlone(job'[w])
  <2>1. CASE pc = "idle"
    <3>1. job'[w] = Idle
      BY <1>7, <2>1, AloneTypes DEF Goto
    <3> QED
      BY <3>1, IdleAlone
  <2>2. CASE pc # "idle"
    <3>1. pc \in PCs \ {"idle"}
      BY <1>6, <2>2 DEF PCs
    <3>2. /\ job'[w].pc = pc /\ job'[w].req = j.req /\ job'[w].src = j.src
          /\ job'[w].dst = j.dst /\ job'[w].fid = f
      BY <1>4, <1>7, <3>1, GotoFields
    <3> HIDE DEF j
    <3> QED
      BY <1>2, <1>5, <1>6, <2>2, <3>2
         DEF JobAlone, Kinds, Places, Subject, IsCreate, IsRename, Owning
  <2> QED
    BY <2>1, <2>2
<1> QED
  BY <1>3, <1>8, AloneFrame

LEMMA AloneLock ==
  ASSUME OneWorker, Orderly, NEW w \in Workers, Lock(w)
  PROVE  AloneInv' /\ (Rooted => Rooted')
<1> DEFINE j == job[w]
<1>1. /\ j \in Job /\ Kinds(j) /\ Places(j) /\ Subject(j)
      /\ j.pc = "lock" /\ Goto(w, j, "check") /\ "check" \in PCs \ {"idle"}
      /\ IsCreate(j) => Here(j.dst) \in dirs
  BY AloneTypes DEF Lock, PCs, IsDir
<1>2. /\ UNCHANGED <<numbered, named, dirs, live, cache>> /\ poisoned' = FALSE
      /\ j.pc # "dropNamed"
  BY <1>1, AloneTypes DEF Lock, disk
<1>3. /\ job'[w].pc = "check" /\ job'[w].req = j.req /\ job'[w].src = j.src
      /\ job'[w].dst = j.dst /\ job'[w].fid = j.fid
  BY <1>1, GotoFields
<1>4. JobAlone(job'[w])
  <2> HIDE DEF j
  <2> QED
    BY <1>1, <1>3 DEF JobAlone, Kinds, Places, Subject, IsCreate, IsRename, Owning
<1> QED
  BY <1>2, <1>4, AloneFrame

LEMMA AloneCheckEmpty ==
  ASSUME OneWorker, Orderly, NEW w \in Workers, CheckEmpty(w)
  PROVE  AloneInv' /\ (Rooted => Rooted')
<1> DEFINE j == job[w]
<1>1. /\ j \in Job /\ Kinds(j) /\ Places(j) /\ Subject(j)
      /\ j.pc = "readDir" /\ Goto(w, j, "unlink") /\ "unlink" \in PCs \ {"idle"}
  BY AloneTypes DEF CheckEmpty, PCs
<1>2. /\ UNCHANGED <<numbered, named, dirs, live, cache>> /\ poisoned' = FALSE
      /\ j.pc # "dropNamed"
  BY <1>1, AloneTypes DEF CheckEmpty, disk, memory
<1>3. /\ job'[w].pc = "unlink" /\ job'[w].req = j.req /\ job'[w].src = j.src
      /\ job'[w].dst = j.dst /\ job'[w].fid = j.fid
  BY <1>1, GotoFields
<1>4. JobAlone(job'[w])
  <2> HIDE DEF j
  <2> QED
    BY <1>1, <1>3 DEF JobAlone, Kinds, Places, Subject, IsCreate, IsRename, Owning
<1> QED
  BY <1>2, <1>4, AloneFrame

\* A name that is free is not the one that the file has.
LEMMA AloneCheck ==
  ASSUME OneWorker, Orderly, NEW w \in Workers, Check(w)
  PROVE  AloneInv' /\ (Rooted => Rooted')
<1> DEFINE j == job[w]  pc == AfterCheck(j)
<1>1. /\ j \in Job /\ Kinds(j) /\ Places(j) /\ Subject(j)
      /\ j.pc = "check" /\ Goto(w, j, pc) /\ WithName(j.dst, j.req.toname) = {}
  BY AloneTypes DEF Check, Taken
<1>2. /\ UNCHANGED <<numbered, named, dirs, live, cache>> /\ poisoned' = FALSE
      /\ j.pc # "dropNamed"
  BY <1>1, AloneTypes DEF Check, disk, memory
<1>3. pc \in PCs \ {"idle"} /\ pc = IF IsCreate(j) THEN "mkNumbered" ELSE "mkNamed"
  BY DEF AfterCheck, PCs
<1> HIDE DEF pc
<1>4. /\ job'[w].pc = pc /\ job'[w].req = j.req /\ job'[w].src = j.src
      /\ job'[w].dst = j.dst /\ job'[w].fid = j.fid
  BY <1>1, <1>3, GotoFields
<1>5. IsRename(j) => Visible(Here(j.src), j.fid) /\ NewName(j) # OldName(j)
  <2> SUFFICES ASSUME IsRename(j)
               PROVE  Visible(Here(j.src), j.fid) /\ NewName(j) # OldName(j)
    OBVIOUS
  <2>1. j.fid \in WithName(j.src, j.req.name)
    BY <1>1 DEF Subject
  <2>2. Visible(Here(j.src), j.fid)
    BY <2>1 DEF WithName, Visible
  <2>3. ASSUME NewName(j) = OldName(j) PROVE FALSE
    <3>1. Here(j.dst) = Here(j.src) /\ j.req.toname = j.req.name
      BY <2>3 DEF NewName, OldName
    <3> QED
      BY <1>1, <2>1, <3>1 DEF WithName
  <2> QED
    BY <2>2, <2>3
<1>6. JobAlone(job'[w])
  <2> HIDE DEF j
  <2>1. Kinds(job'[w]) /\ Places(job'[w])
    BY <1>1, <1>3, <1>4 DEF Kinds, Places, IsCreate, IsRename, Owning
  <2>2. Subject(job'[w])
    BY <1>1, <1>3, <1>4, <1>5
       DEF Subject, IsCreate, IsRename, Owning, NewName, OldName
  <2> QED
    BY <2>1, <2>2 DEF JobAlone
<1> QED
  BY <1>2, <1>6, AloneFrame

LEMMA AloneSetAttr ==
  ASSUME OneWorker, Orderly, NEW w \in Workers, SetAttr(w)
  PROVE  AloneInv' /\ (Rooted => Rooted')
<1> DEFINE j == job[w]
<1>1. /\ j \in Job /\ Kinds(j) /\ Places(j) /\ Subject(j)
      /\ j.pc = "setAttr" /\ Goto(w, j, "cacheIns") /\ "cacheIns" \in PCs \ {"idle"}
  BY AloneTypes DEF SetAttr, PCs
<1>2. /\ UNCHANGED <<numbered, named, dirs, live, cache>> /\ poisoned' = FALSE
      /\ j.pc # "dropNamed"
  BY <1>1, AloneTypes DEF SetAttr, disk
<1>3. /\ job'[w].pc = "cacheIns" /\ job'[w].req = j.req /\ job'[w].src = j.src
      /\ job'[w].dst = j.dst /\ job'[w].fid = j.fid
  BY <1>1, GotoFields
<1>4. JobAlone(job'[w])
  <2> HIDE DEF j
  <2> QED
    BY <1>1, <1>3 DEF JobAlone, Kinds, Places, Subject, IsCreate, IsRename, Owning,
       NewName, OldName
<1> QED
  BY <1>2, <1>4, AloneFrame

LEMMA AloneCacheIns ==
  ASSUME OneWorker, Orderly, NEW w \in Workers, CacheIns(w)
  PROVE  AloneInv' /\ (Rooted => Rooted')
<1> DEFINE j == job[w]
<1>1. /\ WellFormed(j) /\ Places(j) /\ Subject(j) /\ j.pc = "cacheIns" /\ Finish(w)
      /\ UNCHANGED <<numbered, named, dirs, live>> /\ poisoned' = FALSE
      /\ cache' = [cache EXCEPT ![j.fid] = j.req.todir]
      /\ j.req \in Requests
  BY AloneTypes DEF CacheIns, disk, WellFormed
<1>2. /\ numbered[j.fid] = Here(j.dst) /\ Here(j.dst) = j.req.todir
      /\ <<Here(j.dst), j.fid, j.req.toname>> \in named
  BY <1>1 DEF Places, Subject, NewName
<1>3. Named(j.fid)
  BY <1>1, <1>2, RequestFacts DEF Named, Visible
<1>4. \A f \in Fid : \/ cache'[f] \in {None, cache[f]}
                     \/ cache'[f] = numbered[f] /\ Named(f)
  BY <1>1, <1>2, <1>3, AloneTypes
<1> QED
  BY <1>1, <1>4, AloneFinish

\* By itself a worker never panics while it has fid_cache locked.
LEMMA NeverPanics ==
  ASSUME OneWorker, Orderly, NEW w \in Workers
  PROVE  ~MovePanics(w) /\ ~DropNamedPanics(w)
<1> DEFINE j == job[w]
<1>1. WellFormed(j) /\ Kinds(j) /\ Places(j) /\ Subject(j) /\ poisoned = FALSE
  BY AloneTypes
<1>2. ASSUME j.pc = "move" PROVE CacheAgrees(j)
  <2>1. IsRename(j) /\ j.fid \in Fid
    BY <1>1, <1>2 DEF Kinds, WellFormed
  <2>2. numbered[j.fid] = j.req.dir
    BY <1>1, <1>2, <2>1 DEF Places, Subject, Visible
  <2>3. cache[j.fid] \in {None, numbered[j.fid]}
    BY <1>2, <2>1, AloneTypes DEF CacheTrue, OneWorker
  <2> QED
    BY <2>2, <2>3 DEF CacheAgrees
<1>3. j.pc = "dropNamed" => IsDir(j.src)
  BY <1>1 DEF Subject
<1> QED
  BY <1>1, <1>2, <1>3 DEF MovePanics, DropNamedPanics

LEMMA AloneEndings ==
  ASSUME OneWorker, Orderly, NEW w \in Workers,
         \/ NotFound(w) \/ BadName(w) \/ LockRefused(w) \/ CheckPanics(w)
         \/ NameTaken(w) \/ MkNamedFails(w) \/ SetAttrFails(w)
         \/ UnlinkFails(w) \/ MoveFails(w) \/ NotEmpty(w) \/ ExtendPanics(w)
  PROVE  AloneInv' /\ (Rooted => Rooted')
<1>1. /\ Finish(w) /\ UNCHANGED <<numbered, named, dirs, live, cache, poisoned>>
      /\ job[w].pc # "dropNamed"
  BY DEF NotFound, BadName, LockRefused, CheckPanics, NameTaken, MkNamedFails,
     SetAttrFails, UnlinkFails, MoveFails, NotEmpty, ExtendPanics, disk, memory
<1> QED
  BY <1>1, AloneTypes, AloneFinish

LEMMA AloneRestart ==
  ASSUME OneWorker, Orderly, Restart
  PROVE  AloneInv' /\ (Rooted => Rooted')
<1>1. /\ UNCHANGED <<numbered, named, dirs, live>> /\ poisoned' = FALSE
      /\ \A w \in Workers : job'[w] = Idle
      /\ \A f \in Fid : cache'[f] = None
  BY DEF Restart, disk
<1>2. \A w \in Workers : JobAlone(job[w])'
  BY <1>1 DEF JobAlone, Kinds, Places, Subject, Idle, Owning, IsCreate,
     IsRename, Creates
<1>3. CacheTrue'
  BY <1>1 DEF CacheTrue
<1>4. Rooted => Rooted'
  BY <1>1 DEF Rooted, Named, Visible
<1> QED
  BY <1>1, <1>2, <1>3, <1>4 DEF AloneInv, NeverPoisoned

-----------------------------------------------------------------------------
(* Files made, removed and moved.                                          *)

\* A FID that was not given out is nowhere, and nothing is in it.
LEMMA Unissued ==
  ASSUME Orderly
  PROVE  /\ numbered[Root] = None /\ Root < nextFid
         /\ \A f \in Fid : f >= nextFid =>
               /\ numbered[f] = None
               /\ \/ cache[f] = None
                  \/ \E w \in Workers : job[w].pc = "dropNamed"
         /\ \A f \in Fid : numbered[f] # None => numbered[f] \in dirs
<1> QED
  BY AloneTypes DEF Orderly, TreeInv, TreeShape, CacheTrue

LEMMA AloneMkNumbered ==
  ASSUME OneWorker, Orderly, NEW w \in Workers, MkNumbered(w)
  PROVE  AloneInv' /\ (Rooted => Rooted')
<1> DEFINE j == job[w]
<1>1. /\ j \in Job /\ WellFormed(j) /\ Kinds(j) /\ Places(j) /\ Subject(j)
      /\ j.pc = "mkNumbered" /\ IsCreate(j) /\ j.dst \in Paths
      /\ ~IsRename(j)
  BY AloneTypes, AfterPCs
     DEF MkNumbered, Kinds, WellFormed, Owning, IsCreate, IsRename
<1>2. /\ UNCHANGED <<named, live, cache>> /\ poisoned' = FALSE
      /\ \A v \in Workers : job[v].pc # "dropNamed"
  BY <1>1, AloneTypes DEF MkNumbered, memory, OneWorker
<1>3. CASE ~IsDir(j.dst)
  <2>1. Finish(w) /\ UNCHANGED <<numbered, dirs>>
    BY <1>3 DEF MkNumbered
  <2> QED
    BY <1>2, <2>1, AloneFinish
<1>4. CASE IsDir(j.dst)
  <2>1. PICK new \in Fid, d \in Fid : new = nextFid /\ d = Here(j.dst)
    BY <1>1, PathFacts, NamespaceAssumption, AloneTypes
       DEF MkNumbered, NamespaceAssumption, Fid, Orderly, IInv, TypeOK
  <2>2. /\ numbered' = [numbered EXCEPT ![new] = d] /\ dirs \subseteq dirs'
        /\ Goto(w, [j EXCEPT !.fid = new], "mkNamed")
    BY <1>4, <2>1 DEF MkNumbered
  <2>3. numbered[new] = None /\ cache[new] = None /\ new # Root
    BY <1>2, <2>1, Unissued, AloneTypes
  <2>4. numbered'[new] = d /\ \A f \in Fid \ {new} : numbered'[f] = numbered[f]
    BY <2>2, AloneTypes
  <2>5. \A f \in Fid \ {new} : Named(f) => Named(f)'
    BY <1>2, <2>4 DEF Named, Visible
  <2>6. Named(d) /\ d # new /\ Exists(j.dst) /\ d \in dirs /\ d = j.req.todir
    <3>1. Named(d) /\ d \in dirs /\ Exists(j.dst) /\ d = j.req.todir
      BY <1>1, <2>1 DEF Places, Owning
    <3>2. ~Named(new)
      BY <2>1, <2>3, AloneTypes DEF Named, Visible
    <3> QED
      BY <3>1, <3>2
  <2>7. ASSUME NEW i \in 1 .. Len(j.dst) - 1 PROVE numbered'[j.dst[i + 1]] = j.dst[i]
    <3>1. i \in 1 .. Len(j.dst) /\ i + 1 \in 1 .. Len(j.dst)
      BY <1>1, PathFacts
    <3>2. j.dst[i] \in Fid /\ j.dst[i + 1] \in Fid
      BY <1>1, <3>1, PathFacts
    <3>3. numbered[j.dst[i + 1]] = j.dst[i]
      BY <2>6 DEF Exists
    <3> QED
      BY <2>3, <2>4, <3>2, <3>3, AloneTypes
  <2> DEFINE x == [j EXCEPT !.fid = new]
  <2>8. x \in Job /\ x.req = j.req /\ x.dst = j.dst /\ x.fid = new
    BY <1>1 DEF Job
  <2>9. Goto(w, x, "mkNamed") /\ "mkNamed" \in PCs \ {"idle"}
    BY <2>2 DEF PCs
  <2> HIDE DEF x
  <2>10. /\ job'[w].pc = "mkNamed" /\ job'[w].req = j.req
         /\ job'[w].dst = j.dst /\ job'[w].fid = new
    BY <2>8, <2>9, GotoFields
  <2>11. Named(d)'
    BY <2>5, <2>6
  <2> HIDE DEF j
  <2>12. JobAlone(job[w])'
    <3>1. Kinds(job[w])' /\ ~IsRename(job[w])' /\ IsCreate(job[w])'
      BY <1>1, <2>10 DEF Kinds, IsCreate, IsRename
    <3>2. Exists(job[w].dst)'
      BY <2>7, <2>10 DEF Exists
    <3>3. Here(job[w].dst)' = d
      BY <2>1, <2>10 DEF Here
    <3>4. Named(Here(job[w].dst))'
      BY <2>11, <3>3 DEF Named, Visible
    <3>5. Places(job[w])'
      BY <2>2, <2>6, <2>10, <3>1, <3>2, <3>3, <3>4 DEF Places, Owning
    <3>6. Subject(job[w])'
      BY <2>4, <2>10, <3>1, <3>3 DEF Subject
    <3> QED
      BY <3>1, <3>5, <3>6 DEF JobAlone
  <2>13. CacheTrue'
    BY <1>2, <2>3, <2>4, <2>5, AloneTypes DEF CacheTrue
  <2>14. ASSUME Rooted PROVE Rooted'
    <3>1. ASSUME NEW f \in Fid, numbered'[f] # None PROVE Named(numbered[f])'
      <4>1. PICK e \in Fid : e = numbered'[f] /\ Named(e) /\ e # new
        <5>1. CASE f = new
          BY <2>4, <2>6, <5>1
        <5>2. CASE f # new
          <6>1. numbered[f] \in Fid /\ Named(numbered[f])
            BY <2>4, <2>14, <3>1, <5>2, AloneTypes DEF Rooted
          <6>2. ~Named(new)
            BY <2>1, <2>3, AloneTypes DEF Named, Visible
          <6> QED
            BY <2>4, <5>2, <6>1, <6>2
        <5> QED
          BY <5>1, <5>2
      <4>2. Named(e)'
        BY <2>5, <4>1
      <4> QED
        BY <4>1, <4>2 DEF Named, Visible
    <3>2. \A f \in live' : numbered'[f] # None /\ Named(f)'
      BY <1>2, <2>3, <2>4, <2>5, <2>14, AloneTypes DEF Rooted
    <3> QED
      BY <3>1, <3>2 DEF Rooted
  <2> QED
    BY <1>2, <2>12, <2>13, <2>14 DEF AloneInv, OneWorker, NeverPoisoned
<1> QED
  BY <1>3, <1>4

LEMMA AloneMkNamed ==
  ASSUME OneWorker, Orderly, NEW w \in Workers, MkNamed(w)
  PROVE  AloneInv' /\ (Rooted => Rooted')
<1> DEFINE j == job[w]  pc == IF IsCreate(j) THEN "setAttr" ELSE "move"
<1>1. /\ j \in Job /\ WellFormed(j) /\ Kinds(j) /\ Places(j) /\ Subject(j)
      /\ j.pc = "mkNamed" /\ j.dst \in Paths /\ j.fid \in Fid /\ Here(j.dst) \in Fid
      /\ j.req \in Requests /\ j.req.toname \in Names
  BY AloneTypes, PathFacts, RequestFacts DEF MkNamed, WellFormed, Owning
<1>2. /\ UNCHANGED <<numbered, dirs, cache>> /\ poisoned' = FALSE
      /\ live' = IF IsCreate(j) THEN live \union {j.fid} ELSE live
      /\ named' = named \union {NewName(j)}
      /\ Goto(w, j, pc)
      /\ \A v \in Workers : job[v].pc # "dropNamed"
  BY <1>1, AloneTypes DEF MkNamed, memory, OneWorker, NewName
<1>3. /\ pc \in PCs \ {"idle"}
      /\ \/ pc = "setAttr" /\ IsCreate(j)
         \/ pc = "move" /\ IsRename(j)
  BY <1>1 DEF PCs, Kinds
<1> HIDE DEF pc
<1>4. /\ job'[w].pc = pc /\ job'[w].req = j.req /\ job'[w].src = j.src
      /\ job'[w].dst = j.dst /\ job'[w].fid = j.fid
  BY <1>1, <1>2, <1>3, GotoFields
<1>5. \A f \in Fid : Named(f) => Named(f)'
  BY <1>2 DEF Named, Visible
<1>6. IsCreate(j) => numbered[j.fid] = Here(j.dst)
  BY <1>1 DEF Subject
<1>7. ASSUME IsCreate(j), NEW f \in Fid, f = j.fid PROVE numbered'[f] # None /\ Named(f)'
  <2>1. numbered'[f] = Here(j.dst) /\ Here(j.dst) # None
    BY <1>1, <1>2, <1>6, <1>7, AloneTypes
  <2>2. <<numbered'[f], f, j.req.toname>> \in named'
    BY <1>2, <1>7, <2>1 DEF NewName
  <2>3. numbered'[f] # None /\ \E n \in Names : <<numbered'[f], f, n>> \in named'
    BY <1>1, <2>1, <2>2
  <2> HIDE DEF j
  <2> QED
    BY <2>3 DEF Named, Visible
<1>8. JobAlone(job[w])'
  <2> HIDE DEF j
  <2>1. PICK d \in Fid : d = Here(j.dst)
    BY <1>1
  <2>2. Exists(j.dst) /\ d = j.req.todir /\ Named(d) /\ (IsCreate(j) => d \in dirs)
    BY <1>1, <2>1 DEF Places, Owning
  <2>3. Named(d)'
    BY <1>5, <2>2
  <2>4. Here(job[w].dst)' = d
    BY <1>4, <2>1 DEF Here
  <2>5. Named(Here(job[w].dst))'
    BY <2>3, <2>4 DEF Named, Visible
  <2>6. Exists(job[w].dst)'
    BY <1>2, <1>4, <2>2 DEF Exists
  <2>7. (IsCreate(job[w])' <=> IsCreate(j)) /\ (IsRename(job[w])' <=> IsRename(j))
    BY <1>4 DEF IsCreate, IsRename
  <2>8. IsRename(j) => Exists(j.src) /\ Here(j.src) = j.req.dir
                       /\ Visible(Here(j.src), j.fid) /\ NewName(j) # OldName(j)
    BY <1>1 DEF Places, Subject
  <2>9. IsRename(j) => (Exists(job[w].src) /\ Here(job[w].src) = job[w].req.dir
                        /\ Visible(Here(job[w].src), job[w].fid))'
    BY <1>2, <1>4, <2>8 DEF Exists, Here, Visible
  <2>10. NewName(job[w])' = NewName(j) /\ OldName(job[w])' = OldName(j)
    BY <1>4 DEF NewName, OldName, Here
  <2>11. ~(IsCreate(j) /\ IsRename(j))
    BY <1>1, AfterPCs DEF IsCreate, IsRename
  <2>12. Kinds(job[w])'
    BY <1>3, <1>4, <2>7 DEF Kinds
  <2>13. Places(job[w])'
    BY <1>2, <1>3, <1>4, <2>2, <2>4, <2>5, <2>6, <2>7, <2>9, <2>11
       DEF Places, Owning
  <2>14. Subject(job[w])'
    BY <1>2, <1>3, <1>4, <1>6, <2>1, <2>4, <2>7, <2>8, <2>9, <2>10, <2>11
       DEF Subject
  <2> QED
    BY <2>12, <2>13, <2>14 DEF JobAlone
<1>9. CacheTrue'
  BY <1>2, <1>5, AloneTypes DEF CacheTrue
<1>10. ASSUME Rooted PROVE Rooted'
  <2>1. ASSUME NEW f \in Fid, numbered'[f] # None PROVE Named(numbered[f])'
    <3>1. PICK e \in Fid : e = numbered'[f] /\ Named(e)
      BY <1>2, <1>10, <2>1, AloneTypes DEF Rooted
    <3>2. Named(e)'
      BY <1>5, <3>1
    <3> QED
      BY <3>1, <3>2 DEF Named, Visible
  <2>2. ASSUME NEW f \in live' PROVE numbered'[f] # None /\ Named(f)'
    <3>1. CASE f \in live
      BY <1>2, <1>5, <1>10, <3>1, AloneTypes DEF Rooted
    <3>2. CASE f \notin live
      BY <1>1, <1>2, <1>7, <3>2
    <3> QED
      BY <3>1, <3>2
  <2> QED
    BY <2>1, <2>2 DEF Rooted
<1> QED
  BY <1>2, <1>8, <1>9, <1>10 DEF AloneInv, OneWorker, NeverPoisoned

\* What is unlinked is empty, so that nothing that is there depends on it.
LEMMA AloneUnlink ==
  ASSUME OneWorker, Orderly, NEW w \in Workers, Unlink(w)
  PROVE  AloneInv' /\ (Rooted => Rooted')
<1> DEFINE j == job[w]
<1>1. /\ j \in Job /\ WellFormed(j) /\ Kinds(j) /\ Places(j)
      /\ j.pc = "unlink" /\ j.src \in Paths /\ Here(j.src) \in Fid
      /\ j.req \in Requests /\ j.req.op \in Deletes /\ ~IsCreate(j) /\ ~IsRename(j)
      /\ HasFile(j.src, j.fid)
  BY AloneTypes, AfterPCs, PathFacts
     DEF Unlink, Kinds, WellFormed, IsCreate, IsRename
<1>2. PICK f \in Fid : f = j.fid
  BY <1>1 DEF WellFormed
<1>3. /\ UNCHANGED <<named, dirs, cache>> /\ poisoned' = FALSE
      /\ numbered' = [numbered EXCEPT ![f] = None] /\ live' = live \ {f}
      /\ Goto(w, j, "dropNamed") /\ "dropNamed" \in PCs \ {"idle"}
      /\ \A v \in Workers : job[v].pc # "dropNamed"
  BY <1>1, <1>2, AloneTypes DEF Unlink, memory, OneWorker, PCs
<1>4. /\ job'[w].pc = "dropNamed" /\ job'[w].req = j.req /\ job'[w].src = j.src
      /\ job'[w].fid = f
  BY <1>1, <1>2, <1>3, GotoFields
<1>5. ASSUME NEW g \in Fid PROVE numbered[g] # f
  <2>1. CASE j.req.op = "rmdir"
    BY <1>2, <2>1 DEF Unlink, IsEmpty
  <2>2. CASE j.req.op # "rmdir"
    <3>1. f \notin dirs
      BY <1>1, <1>2, <2>2 DEF Orderly, TreeInv, Deletes
    <3> QED
      BY <3>1, Unissued, AloneTypes
  <2> QED
    BY <2>1, <2>2
<1>6. /\ numbered'[f] = None /\ \A g \in Fid \ {f} : numbered'[g] = numbered[g]
      /\ numbered[f] = Here(j.src) /\ f # Root /\ Here(j.src) \in dirs
  BY <1>1, <1>2, <1>3, Unissued, AloneTypes DEF HasFile
<1>7. \A g \in Fid \ {f} : Named(g) => Named(g)'
  BY <1>3, <1>6 DEF Named, Visible
<1>8. ASSUME NEW i \in 1 .. Len(j.src) - 1 PROVE numbered'[j.src[i + 1]] = j.src[i]
  <2>1. i + 1 \in 1 .. Len(j.src) /\ Len(j.src) \in Nat
    BY <1>1, PathFacts
  <2>2. j.src[i + 1] \in Fid /\ numbered[j.src[i + 1]] = j.src[i]
    BY <1>1, <2>1, PathFacts DEF HasFile, Exists
  <2>3. j.src[i + 1] # f
    <3>1. CASE i + 1 = Len(j.src)
      BY <1>5, <1>6, <3>1 DEF Here
    <3>2. CASE i + 1 # Len(j.src)
      <4>1. i + 1 \in 1 .. Len(j.src) - 1 /\ i + 2 \in 1 .. Len(j.src)
            /\ (i + 1) + 1 = i + 2
        BY <2>1, <3>2
      <4>2. numbered[j.src[i + 2]] = j.src[i + 1] /\ j.src[i + 2] \in Fid
        BY <1>1, <4>1, PathFacts DEF HasFile, Exists
      <4> QED
        BY <1>5, <4>2
    <3> QED
      BY <3>1, <3>2
  <2> QED
    BY <1>6, <2>2, <2>3
<1> HIDE DEF j
<1>9. JobAlone(job[w])'
  <2>1. Kinds(job[w])' /\ ~IsRename(job[w])' /\ ~IsCreate(job[w])'
    BY <1>1, <1>4 DEF Kinds, IsCreate, IsRename
  <2>2. IsDir(job[w].src)'
    BY <1>3, <1>4, <1>6, <1>8 DEF IsDir, Exists, Here
  <2>3. Places(job[w])'
    BY <1>4, <2>1 DEF Places, Owning
  <2>4. Subject(job[w])'
    BY <1>4, <1>6, <2>1, <2>2 DEF Subject
  <2> QED
    BY <2>1, <2>3, <2>4 DEF JobAlone
<1>10. CacheTrue'
  BY <1>3, <1>4, <1>6, <1>7, AloneTypes DEF CacheTrue
<1>11. ASSUME Rooted PROVE Rooted'
  <2>1. ASSUME NEW g \in Fid, numbered'[g] # None PROVE Named(numbered[g])'
    <3>1. PICK e \in Fid : e = numbered'[g] /\ Named(e) /\ e # f
      BY <1>5, <1>6, <1>11, <2>1, AloneTypes DEF Rooted
    <3>2. Named(e)'
      BY <1>7, <3>1
    <3> QED
      BY <3>1, <3>2 DEF Named, Visible
  <2>2. \A g \in live' : numbered'[g] # None /\ Named(g)'
    BY <1>3, <1>6, <1>7, <1>11, AloneTypes DEF Rooted
  <2> QED
    BY <2>1, <2>2 DEF Rooted
<1> QED
  BY <1>3, <1>9, <1>10, <1>11 DEF AloneInv, OneWorker, NeverPoisoned

LEMMA AloneDropNamed ==
  ASSUME OneWorker, Orderly, NEW w \in Workers, DropNamed(w)
  PROVE  AloneInv' /\ (Rooted => Rooted')
<1> DEFINE j == job[w]
<1>1. j.pc = "dropNamed" /\ Subject(j) /\ WellFormed(j)
  BY AloneTypes DEF DropNamed
<1>2. PICK f \in Fid : f = j.fid /\ numbered[f] = None
  BY <1>1 DEF WellFormed, Subject
<1>3. /\ UNCHANGED <<numbered, dirs, live>> /\ poisoned' = FALSE /\ Finish(w)
      /\ cache' = [cache EXCEPT ![f] = None]
      /\ named' = named \ {<<Here(j.src), f, j.req.name>>}
      /\ \A v \in Workers : v = w
  BY <1>1, <1>2, AloneTypes DEF DropNamed, OneWorker
<1>4. \A g \in Fid : Named(g) => Named(g)'
  <2>1. ~Visible(numbered[f], f)
    BY <1>2, AloneTypes DEF Visible
  <2> QED
    BY <1>2, <1>3, <2>1 DEF Named, Visible
<1>5. job'[w] = Idle
  BY <1>3, AloneTypes, FinishJob
<1>6. JobAlone(job[w])'
  BY <1>5 DEF JobAlone, Kinds, Places, Subject, Idle, Owning, IsCreate,
     IsRename, Creates
<1>7. CacheTrue'
  BY <1>2, <1>3, <1>4, AloneTypes DEF CacheTrue
<1>8. ASSUME Rooted PROVE Rooted'
  <2>1. ASSUME NEW g \in Fid, numbered'[g] # None PROVE Named(numbered[g])'
    <3>1. PICK e \in Fid : e = numbered'[g] /\ Named(e)
      BY <1>3, <1>8, <2>1, AloneTypes DEF Rooted
    <3>2. Named(e)'
      BY <1>4, <3>1
    <3> QED
      BY <3>1, <3>2 DEF Named, Visible
  <2> QED
    BY <1>3, <1>4, <1>8, <2>1, AloneTypes DEF Rooted
<1> QED
  BY <1>3, <1>6, <1>7, <1>8 DEF AloneInv, NeverPoisoned

\* The file has its new name before it moves.
LEMMA AloneMove ==
  ASSUME OneWorker, Orderly, NEW w \in Workers, Move(w)
  PROVE  AloneInv' /\ (Rooted => Rooted')
<1> DEFINE j == job[w]
<1>1. /\ j \in Job /\ WellFormed(j) /\ Kinds(j) /\ Places(j) /\ Subject(j)
      /\ j.pc = "move" /\ j.dst \in Paths /\ IsRename(j) /\ ~IsCreate(j)
      /\ j.req \in Requests /\ j.req.toname \in Names
      /\ Movable(j)
  BY AloneTypes, AfterPCs, RequestFacts
     DEF Move, Kinds, WellFormed, Owning, IsCreate, IsRename
<1>2. PICK f \in Fid, d \in Fid, n \in Names :
         f = j.fid /\ d = Here(j.dst) /\ n = j.req.toname
  BY <1>1, PathFacts DEF WellFormed
<1>3. /\ UNCHANGED <<named, dirs, live>> /\ poisoned' = FALSE
      /\ numbered' = [numbered EXCEPT ![f] = d]
      /\ cache' = [cache EXCEPT ![f] = j.req.todir]
      /\ Goto(w, j, "dropOld") /\ "dropOld" \in PCs \ {"idle"}
      /\ \A v \in Workers : job[v].pc # "dropNamed"
  BY <1>1, <1>2, AloneTypes DEF Move, OneWorker, PCs
<1>4. /\ job'[w].pc = "dropOld" /\ job'[w].req = j.req /\ job'[w].src = j.src
      /\ job'[w].dst = j.dst /\ job'[w].fid = f
  BY <1>1, <1>2, <1>3, GotoFields
<1>5. /\ d = j.req.todir /\ Named(d) /\ <<d, f, n>> \in named
      /\ NewName(j) = <<d, f, n>> /\ NewName(j) # OldName(j) /\ Exists(j.dst)
  BY <1>1, <1>2 DEF Places, Subject, NewName, Owning
<1>6. numbered'[f] = d /\ \A g \in Fid \ {f} : numbered'[g] = numbered[g]
  BY <1>3, AloneTypes
<1>7. Visible(d, f)' /\ d # None
  BY <1>2, <1>3, <1>5, <1>6, AloneTypes DEF Visible
<1>8. Named(f)'
  BY <1>6, <1>7 DEF Named, Visible
<1>9. \A g \in Fid : Named(g) => Named(g)'
  BY <1>3, <1>6, <1>8 DEF Named, Visible
<1>10. ASSUME NEW i \in 1 .. Len(j.dst) - 1 PROVE numbered'[j.dst[i + 1]] = j.dst[i]
  <2>1. i + 1 \in 1 .. Len(j.dst)
    BY <1>1, PathFacts
  <2>2. j.dst[i + 1] \in Fid \ {f}
    BY <1>1, <1>2, <2>1, PathFacts DEF Movable
  <2> QED
    BY <1>5, <1>6, <2>2 DEF Exists
<1> HIDE DEF j
<1>11. JobAlone(job[w])'
  <2>1. Kinds(job[w])' /\ IsRename(job[w])' /\ ~IsCreate(job[w])'
    BY <1>1, <1>4 DEF Kinds, IsCreate, IsRename
  <2>2. Exists(job[w].dst)'
    BY <1>4, <1>10 DEF Exists
  <2>3. Here(job[w].dst)' = d
    BY <1>2, <1>4 DEF Here
  <2>4. Named(d)'
    BY <1>5, <1>9
  <2>5. Named(Here(job[w].dst))'
    BY <2>3, <2>4 DEF Named, Visible
  <2>6. Places(job[w])'
    BY <1>4, <1>5, <2>1, <2>2, <2>3, <2>5 DEF Places, Owning
  <2>7. NewName(job[w])' = <<d, f, n>> /\ OldName(job[w])' = OldName(j)
    BY <1>2, <1>4, <2>3 DEF NewName, OldName, Here
  <2>8. Subject(job[w])'
    BY <1>3, <1>4, <1>5, <1>6, <2>1, <2>3, <2>7 DEF Subject
  <2> QED
    BY <2>1, <2>6, <2>8 DEF JobAlone
<1>12. CacheTrue'
  <2> SUFFICES ASSUME NEW g \in Fid
               PROVE  \/ cache'[g] = None
                      \/ cache'[g] = numbered'[g] /\ Named(g)'
    BY DEF CacheTrue
  <2>1. CASE g = f
    BY <1>3, <1>5, <1>6, <1>8, <2>1, AloneTypes
  <2>2. CASE g # f
    BY <1>3, <1>6, <1>9, <2>2, AloneTypes DEF CacheTrue
  <2> QED
    BY <2>1, <2>2
<1>13. ASSUME Rooted PROVE Rooted'
  <2>1. ASSUME NEW g \in Fid, numbered'[g] # None PROVE Named(numbered[g])'
    <3>1. PICK e \in Fid : e = numbered'[g] /\ Named(e)
      BY <1>5, <1>6, <1>13, <2>1, AloneTypes DEF Rooted
    <3>2. Named(e)'
      BY <1>9, <3>1
    <3> QED
      BY <3>1, <3>2 DEF Named, Visible
  <2>2. \A g \in live' : numbered'[g] # None /\ Named(g)'
    BY <1>3, <1>6, <1>7, <1>9, <1>13, AloneTypes DEF Rooted
  <2> QED
    BY <2>1, <2>2 DEF Rooted
<1> QED
  BY <1>3, <1>11, <1>12, <1>13 DEF AloneInv, OneWorker, NeverPoisoned

LEMMA AloneDropOld ==
  ASSUME OneWorker, Orderly, NEW w \in Workers, DropOld(w)
  PROVE  AloneInv' /\ (Rooted => Rooted')
<1> DEFINE j == job[w]
<1>1. /\ j.pc = "dropOld" /\ Kinds(j) /\ Subject(j) /\ WellFormed(j)
      /\ j.req \in Requests /\ j.req.toname \in Names
  BY AloneTypes, RequestFacts DEF DropOld, WellFormed
<1>2. PICK f \in Fid : f = j.fid
  BY <1>1 DEF WellFormed
<1>3. /\ UNCHANGED <<numbered, dirs, live, cache>> /\ poisoned' = FALSE /\ Finish(w)
      /\ named \ {OldName(j)} \subseteq named'
      /\ \A v \in Workers : job[v].pc # "dropNamed"
  BY <1>1, AloneTypes DEF DropOld, memory, OneWorker, OldName
<1>4. /\ numbered[f] = Here(j.dst) /\ <<Here(j.dst), f, j.req.toname>> \in named'
  BY <1>1, <1>2, <1>3 DEF Kinds, Subject, NewName
<1>5. Named(f)'
  BY <1>1, <1>3, <1>4 DEF Named, Visible
<1>6. \A g \in Fid \ {f} : Named(g) => Named(g)'
  BY <1>2, <1>3 DEF Named, Visible, OldName
<1>7. job'[w] = Idle
  BY <1>3, AloneTypes, FinishJob
<1>8. JobAlone(job[w])'
  BY <1>7 DEF JobAlone, Kinds, Places, Subject, Idle, Owning, IsCreate,
     IsRename, Creates
<1>9. CacheTrue'
  BY <1>3, <1>5, <1>6, AloneTypes DEF CacheTrue
<1>10. ASSUME Rooted PROVE Rooted'
  <2>1. ASSUME NEW g \in Fid, numbered'[g] # None PROVE Named(numbered[g])'
    <3>1. PICK e \in Fid : e = numbered'[g] /\ Named(e)
      BY <1>3, <1>10, <2>1, AloneTypes DEF Rooted
    <3>2. Named(e)'
      BY <1>5, <1>6, <3>1
    <3> QED
      BY <3>1, <3>2 DEF Named, Visible
  <2> QED
    BY <1>3, <1>5, <1>6, <1>10, <2>1, AloneTypes DEF Rooted
<1> QED
  BY <1>3, <1>8, <1>9, <1>10 DEF AloneInv, OneWorker, NeverPoisoned

LEMMA StepKeepsAlone ==
  ASSUME OneWorker, Orderly, [Next]_vars
  PROVE  AloneInv' /\ (Rooted => Rooted')
<1>1. CASE Crash
  BY <1>1, AloneRestart DEF Crash
<1>2. ASSUME NEW w \in Workers, Overflow(w) PROVE AloneInv' /\ (Rooted => Rooted')
  BY <1>2, AloneRestart DEF Overflow
<1>3. ASSUME NEW w \in Workers, Start(w) \/ Lookups(w)
      PROVE  AloneInv' /\ (Rooted => Rooted')
  BY <1>3, AloneStart, AloneFind, AloneExtend, AloneEndings DEF Lookups
<1>4. ASSUME NEW w \in Workers, Naming(w) PROVE AloneInv' /\ (Rooted => Rooted')
  BY <1>4, AloneByName, AloneLock, AloneCheck, AloneEndings DEF Naming
<1>5. ASSUME NEW w \in Workers, Creating(w) PROVE AloneInv' /\ (Rooted => Rooted')
  BY <1>5, AloneMkNumbered, AloneMkNamed, AloneSetAttr, AloneCacheIns, AloneEndings
     DEF Creating
<1>6. ASSUME NEW w \in Workers, Deleting(w) PROVE AloneInv' /\ (Rooted => Rooted')
  BY <1>6, AloneCheckEmpty, AloneUnlink, AloneDropNamed, AloneEndings, NeverPanics DEF Deleting
<1>7. ASSUME NEW w \in Workers, Moving(w) PROVE AloneInv' /\ (Rooted => Rooted')
  BY <1>7, AloneMove, AloneDropOld, AloneEndings, NeverPanics DEF Moving
<1>8. CASE UNCHANGED vars
  <2>1. UNCHANGED <<numbered, named, dirs, live, cache, poisoned, job>>
    BY <1>8 DEF vars, disk, memory
  <2>2. ASSUME NEW w \in Workers PROVE JobAlone(job[w])'
    <3>1. PICK j : j = job[w] /\ j = job'[w]
      BY <2>1
    <3>2. Kinds(j) /\ Places(j)' /\ Subject(j)'
      BY <2>1, <3>1, SameTree, AloneTypes
    <3>3. Kinds(job[w])'
      BY <3>1, <3>2 DEF Kinds, IsCreate, IsRename
    <3>4. Places(job[w])'
      BY <3>1, <3>2 DEF Places
    <3>5. Subject(job[w])'
      BY <3>1, <3>2 DEF Subject
    <3> QED
      BY <3>3, <3>4, <3>5 DEF JobAlone
  <2>3. CacheTrue' /\ (Rooted => Rooted')
    BY <2>1, AloneTypes DEF CacheTrue, Rooted, Named, Visible
  <2> QED
    BY <2>1, <2>2, <2>3, AloneTypes DEF AloneInv, NeverPoisoned
<1> QED
  BY <1>1, <1>2, <1>3, <1>4, <1>5, <1>6, <1>7, <1>8 DEF Next

LEMMA OrderlyInductive ==
  ASSUME OneWorker
  PROVE  Spec => []Orderly
<1>1. Init => AloneInv
  BY IdleAlone DEF Init, AloneInv, CacheTrue, NeverPoisoned
<1>2. Init => Orderly
  BY <1>1, InitEstablishesIInv, InitTree DEF Orderly
<1>3. Orderly /\ [Next]_vars => Orderly'
  <2> SUFFICES ASSUME Orderly, [Next]_vars PROVE Orderly'
    OBVIOUS
  <2>1. IInv' /\ TreeInv'
    BY StepPreservesIInv, StepKeepsTree DEF Orderly
  <2> QED
    BY <2>1, StepKeepsAlone DEF Orderly
<1> QED
  BY <1>2, <1>3, PTL DEF Spec

(* README, Finding files: when a worker has done its requests, whatever    *)
(* they were and wherever the server died before, each mapping of          *)
(* fid_cache is the directory the file is in (mod.rs:244, 541, 580, 1081). *)
THEOREM CacheIsSound == ASSUME OneWorker PROVE Spec => []CacheSound
<1>1. Orderly => CacheSound
  BY AloneTypes DEF CacheSound, CacheTrue, Quiet
<1> QED
  BY <1>1, OrderlyInductive, PTL

(* The assertion of rename (mod.rs:1082) and the unwrap of remove          *)
(* (mod.rs:590) cannot fail for a worker by itself.                        *)
THEOREM AloneNeverPoisons == ASSUME OneWorker PROVE Spec => []NeverPoisoned
<1>1. Orderly => NeverPoisoned
  BY DEF Orderly, AloneInv
<1> QED
  BY <1>1, OrderlyInductive, PTL

\* Everything that is there by name is found.
LEMMA RootedMeansFindable ==
  ASSUME DeepEnough, Orderly, Rooted
  PROVE  Findable
<1> DEFINE U == {f \in Fid : numbered[f] # None /\ Named(f)}
<1>1. live \subseteq U
  BY AloneTypes DEF Rooted
<1>2. ASSUME NEW f \in U
      PROVE  /\ Visible(numbered[f], f)
             /\ numbered[f] = Root \/ numbered[f] \in U
  <2>1. Visible(numbered[f], f)
    BY Unissued DEF Named
  <2>2. numbered[f] \in Fid /\ Named(numbered[f])
    BY AloneTypes DEF Rooted
  <2>3. numbered[f] = Root \/ numbered[numbered[f]] # None
    BY DEF Orderly, TreeInv, TreeShape, Present
  <2> QED
    BY <2>1, <2>2, <2>3
<1>3. U \in SUBSET Fid
  OBVIOUS
<1> HIDE DEF U
<1>4. \A f \in U : Reachable(f)
  BY <1>2, <1>3, AllReachable DEF Orderly, TreeInv, TreeShape, DeepEnough
<1> QED
  BY <1>1, <1>4 DEF Findable

(* README, Crash Recovery: no request of a worker by itself loses a file,  *)
(* renames of directories included, whether it completes, is refused, or   *)
(* the server dies between two of its system calls.                        *)
THEOREM AloneLosesNoFile ==
  ASSUME OneWorker, AllNamed, DeepEnough
  PROVE  Spec => []Findable
<1>1. Init => Rooted
  <2> SUFFICES ASSUME Init PROVE Rooted
    OBVIOUS
  <2>1. /\ numbered = InitNumbered /\ named = InitNamed
        /\ live = {f \in Fid : InitNumbered[f] # None}
    BY DEF Init
  <2>2. \A f \in Fid : InitNumbered[f] # None => Named(f)
    BY <2>1 DEF AllNamed, Named, Visible
  <2>3. \A f \in Fid : InitNumbered[f] # None => Named(InitNumbered[f])
    <3>1. \A f \in Fid : InitNumbered[f] # None =>
             /\ InitNumbered[f] \in Fid
             /\ InitNumbered[f] = Root \/ InitNumbered[InitNumbered[f]] # None
      BY NamespaceAssumption, TreeAssumption DEF NamespaceAssumption, TreeAssumption
    <3> QED
      BY <2>2, <3>1 DEF Named
  <2> QED
    BY <2>1, <2>2, <2>3 DEF Rooted
<1>2. Orderly /\ Rooted /\ [Next]_vars => Rooted'
  BY StepKeepsAlone
<1>3. Orderly /\ Rooted => Findable
  BY RootedMeansFindable
<1> QED
  BY <1>1, <1>2, <1>3, OrderlyInductive, PTL DEF Spec

-----------------------------------------------------------------------------
(* No name stays locked.                                                   *)

\* The name was left locked by a request of the kind that does.
Kept(key) ==
    \E r \in Requests : /\ r.todir = Here(key[1]) /\ r.toname = key[2]
                        /\ LeavesLocked(r) /\ r.todir < nextFid

OwnLocks ==
    \A key \in nameLock :
        Kept(key) \/ \E w \in Workers : job[w].pc \in Owning /\ key = Key(job[w])

\* What the request of a worker is for, is still there while it has the name.
LEMMA StillThere ==
  ASSUME Orderly, NEW w \in Workers, job[w].pc \in Owning
  PROVE  /\ job[w].req \in Requests
         /\ Here(job[w].dst) = job[w].req.todir /\ job[w].req.todir < nextFid
         /\ IsCreate(job[w]) \/ IsRename(job[w])
         /\ IsDir(job[w].dst) \/ (IsRename(job[w]) /\ job[w].req.todir \notin dirs)
         /\ job[w].pc = "setAttr" => HasFile(job[w].dst, job[w].fid) /\ IsCreate(job[w])
<1> DEFINE j == job[w]
<1>1. /\ j.req \in Requests /\ Kinds(j) /\ Places(j) /\ Subject(j)
  BY AloneTypes DEF WellFormed, Owning
<1>2. Exists(j.dst) /\ Here(j.dst) = j.req.todir /\ Named(Here(j.dst))
  BY <1>1 DEF Places
<1>3. IsCreate(j) \/ IsRename(j)
  BY <1>1 DEF Kinds, Owning
<1>4. IsCreate(j) => Here(j.dst) \in dirs
  BY <1>1 DEF Places
<1>5. j.pc = "setAttr" => numbered[j.fid] = Here(j.dst) /\ IsCreate(j)
  BY <1>1 DEF Subject, Kinds
<1>6. j.req.todir < nextFid
  <2>1. j.req.todir \in Fid /\ Fid \subseteq Nat /\ nextFid \in Nat
    BY <1>1, RequestFacts, AloneTypes
  <2>2. j.req.todir = Root \/ numbered[j.req.todir] # None
    <3>1. ASSUME numbered[j.req.todir] = None, j.req.todir # Root PROVE FALSE
      <4>1. PICK n \in Names : <<None, j.req.todir, n>> \in named
        BY <1>2, <3>1 DEF Named, Visible
      <4>2. <<None, j.req.todir, n>> \in Fid \X Fid \X Names
        BY <4>1, AloneTypes
      <4> QED
        BY <4>2, AloneTypes
    <3> QED
      BY <3>1
  <2>3. j.req.todir \in Nat /\ nextFid \in Nat /\ Root < nextFid
        /\ \A f \in Fid : f >= nextFid => numbered[f] = None
    BY <2>1, Unissued
  <2>4. j.req.todir \in Fid /\ ~(j.req.todir >= nextFid)
    <3>1. Root = 1
      BY DEF Root
    <3> QED
      BY <2>1, <2>2, <2>3, <3>1
  <2> DEFINE d == j.req.todir
  <2>5. d \in Nat /\ nextFid \in Nat /\ ~(d >= nextFid)
    BY <2>3, <2>4
  <2> HIDE DEF d
  <2>6. d < nextFid
    BY ONLY <2>5
  <2> QED
    BY <2>6 DEF d
<1> QED
  BY <1>1, <1>2, <1>3, <1>4, <1>5, <1>6 DEF IsDir, HasFile

\* A step of w keeps OwnLocks if it gives back what it stops owning, or leaves
\* it locked in one of the ways that are known.
LEMMA LocksStep ==
  ASSUME OneWorker, NEW w \in Workers, nextFid \in Nat, nextFid' \in Nat,
         nextFid <= nextFid', dirs' \subseteq dirs \union {nextFid},
         \A r \in Requests : r.todir \in Nat,
         \A key \in nameLock' :
            Kept(key) \/ (job'[w].pc \in Owning /\ key = Key(job'[w]))
  PROVE  OwnLocks'
<1>1. ASSUME NEW key, Kept(key) PROVE Kept(key)'
  <2>1. PICK r \in Requests : /\ r.todir = Here(key[1]) /\ r.toname = key[2]
                              /\ LeavesLocked(r) /\ r.todir < nextFid
    BY <1>1 DEF Kept
  <2>2. r.todir # nextFid /\ r.todir < nextFid'
    BY <2>1
  <2>3. LeavesLocked(r)'
    BY <2>1, <2>2 DEF LeavesLocked
  <2> QED
    BY <2>1, <2>2, <2>3 DEF Kept, Here
<1>2. ASSUME NEW key \in nameLock', job'[w].pc \in Owning, key = Key(job'[w])
      PROVE  (job[w].pc \in Owning /\ key = Key(job[w]))'
  BY <1>2 DEF Key, Owning
<1> QED
  BY <1>1, <1>2 DEF OwnLocks, Owning, Key

\* A request that ends with its name locked is of one of the known kinds.
LEMMA FailureIsKnown ==
  ASSUME Orderly, NEW w \in Workers, CheckPanics(w) \/ MkNamedFails(w) \/ SetAttrFails(w)
  PROVE  \/ nameLock' = nameLock \ {Key(job[w])}
         \/ nameLock' = nameLock /\ Kept(Key(job[w]))
<1> DEFINE j == job[w]
<1>1. j.pc \in Owning
  BY DEF CheckPanics, MkNamedFails, SetAttrFails, Owning
<1>2. /\ j.req \in Requests /\ Here(j.dst) = j.req.todir /\ j.req.todir < nextFid
      /\ IsCreate(j) \/ IsRename(j)
      /\ IsDir(j.dst) \/ (IsRename(j) /\ j.req.todir \notin dirs)
      /\ j.pc = "setAttr" => HasFile(j.dst, j.fid) /\ IsCreate(j)
  BY <1>1, StillThere
<1>3. LeavesLocked(j.req) => Kept(Key(j))
  BY <1>2 DEF Kept, Key
<1>4. ~IsDir(j.dst) => LeavesLocked(j.req)
  BY <1>2 DEF LeavesLocked, IsRename
<1>5. CASE CheckPanics(w)
  <2>1. nameLock' = nameLock /\ (~IsDir(j.dst) \/ SearchPanics(j.dst, j.req.toname))
    BY <1>5 DEF CheckPanics, memory
  <2>2. SearchPanics(j.dst, j.req.toname) => LeavesLocked(j.req)
    <3>1. ASSUME NEW e \in named, <<j.req.toname, e[3]>> \in NoGroup
          PROVE  j.req.toname \in {g[1] : g \in NoGroup}
      BY <3>1
    <3> QED
      BY <3>1 DEF SearchPanics, LeavesLocked
  <2> QED
    BY <1>3, <1>4, <2>1, <2>2
<1>6. CASE MkNamedFails(w)
  <2>1. \/ nameLock' = nameLock /\ (IsCreate(j) \/ ~IsDir(j.dst))
        \/ nameLock' = nameLock \ {Key(j)}
    BY <1>6 DEF MkNamedFails, Unlocked
  <2>2. ~IsDir(j.dst) \/ j.req.toname \in NoFileName
    BY <1>6 DEF MkNamedFails
  <2>3. IsCreate(j) /\ j.req.toname \in NoFileName => LeavesLocked(j.req)
    BY DEF LeavesLocked, IsCreate
  <2> QED
    BY <1>3, <1>4, <2>1, <2>2, <2>3
<1>7. CASE SetAttrFails(w)
  <2>1. j.pc = "setAttr" /\ nameLock' = nameLock
        /\ (~HasFile(j.dst, j.fid) \/ j.req.refused)
    BY <1>7 DEF SetAttrFails, memory
  <2>2. IsCreate(j) /\ j.req.refused
    BY <1>2, <2>1
  <2>3. LeavesLocked(j.req)
    BY <2>2 DEF LeavesLocked, IsCreate
  <2> QED
    BY <1>3, <2>1, <2>3
<1> QED
  BY <1>5, <1>6, <1>7

LEMMA StepKeepsLocks ==
  ASSUME OneWorker, Orderly, OwnLocks, [Next]_vars, nextFid' \in Nat
  PROVE  OwnLocks'
<1>0. nextFid \in Nat /\ nextFid' \in Nat /\ \A r \in Requests : r.todir \in Nat
  BY AloneTypes, RequestFacts
<1>1. CASE Crash
  BY <1>1 DEF Crash, Restart, OwnLocks
<1>2. CASE UNCHANGED vars
  <2>1. UNCHANGED <<nameLock, job, dirs, nextFid>>
    BY <1>2 DEF vars, disk, memory
  <2> QED
    BY <2>1 DEF OwnLocks, Kept, LeavesLocked, Key, Owning, Here
<1>3. ASSUME NEW w \in Workers, Overflow(w) PROVE OwnLocks'
  BY <1>3 DEF Overflow, Restart, OwnLocks
<1>4. ASSUME NEW w \in Workers
      PROVE  /\ job[w] \in Job /\ WellFormed(job[w]) /\ job \in [Workers -> Job]
             /\ \A key \in nameLock :
                   Kept(key) \/ (job[w].pc \in Owning /\ key = Key(job[w]))
  BY <1>4, AloneTypes DEF OwnLocks, OneWorker
\* Steps of a worker that has no name locked, and locks none.
<1>5. ASSUME NEW w \in Workers,
             \/ Start(w) \/ Lookups(w) \/ ByName(w) \/ BadName(w) \/ LockRefused(w)
             \/ CacheIns(w) \/ Deleting(w) \/ DropOld(w)
      PROVE  OwnLocks'
  <2>1. job[w].pc \notin Owning /\ UNCHANGED <<nameLock, dirs, nextFid>>
    BY <1>5 DEF Start, Lookups, FindSrc, FindDst, NotFound, Extend, ExtendPanics,
       ByName, BadName, LockRefused, CacheIns, Deleting, CheckEmpty, NotEmpty, Unlink,
       UnlinkFails, DropNamed, DropNamedPanics, DropOld, Owning, disk, memory
  <2> QED
    BY <1>0, <1>4, <2>1, LocksStep
<1>6. ASSUME NEW w \in Workers, Lock(w) PROVE OwnLocks'
  <2>1. /\ job[w].pc = "lock" /\ nameLock' = nameLock \union {Key(job[w])}
        /\ Goto(w, job[w], "check") /\ UNCHANGED <<dirs, nextFid>>
        /\ "check" \in PCs \ {"idle"}
    BY <1>6 DEF Lock, disk, PCs
  <2>2. job'[w].pc = "check" /\ job'[w].dst = job[w].dst /\ job'[w].req = job[w].req
    BY <1>4, <2>1, GotoFields
  <2>3. (\A key \in nameLock : Kept(key)) /\ Key(job'[w]) = Key(job[w])
    BY <1>4, <2>1, <2>2 DEF Owning, Key
  <2> QED
    BY <1>0, <2>1, <2>2, <2>3, LocksStep DEF Owning
\* Steps from one position where it has the name to another.
<1>7. ASSUME NEW w \in Workers, Check(w) \/ MkNumbered(w) \/ MkNamed(w)
      PROVE  OwnLocks'
  <2> DEFINE j == job[w]
  <2>1. j.pc \in Owning /\ nameLock' = nameLock
    BY <1>7 DEF Check, MkNumbered, MkNamed, Owning, memory
  <2>2. nextFid <= nextFid' /\ dirs' \subseteq dirs \union {nextFid}
    BY <1>0, <1>7 DEF Check, MkNumbered, MkNamed, disk
  <2>3. PICK x \in Job, pc \in Owning :
           Goto(w, x, pc) /\ x.req = j.req /\ x.dst = j.dst
    <3>1. CASE Check(w)
      <4>1. Goto(w, j, AfterCheck(j)) /\ AfterCheck(j) \in Owning
        BY <3>1 DEF Check, AfterCheck, Owning
      <4> QED
        BY <1>4, <4>1
    <3>2. CASE MkNumbered(w)
      <4> DEFINE x == [j EXCEPT !.fid = nextFid]
      <4>1. IsDir(j.dst)
        <5>1. IsCreate(j)
          BY <3>2, AloneTypes DEF MkNumbered, Kinds
        <5> QED
          BY <2>1, <5>1, StillThere DEF IsCreate, IsRename, Creates
      <4>2. Goto(w, x, "mkNamed")
        BY <3>2, <4>1 DEF MkNumbered
      <4>3. nextFid \in Fid
        BY <3>2, NamespaceAssumption, AloneTypes
           DEF MkNumbered, NamespaceAssumption, Fid, Orderly, IInv, TypeOK
      <4>4. x \in Job /\ x.req = j.req /\ x.dst = j.dst
        BY <1>4, <4>3 DEF Job
      <4> HIDE DEF x
      <4> QED
        BY <4>2, <4>4 DEF Owning
    <3>3. CASE MkNamed(w)
      <4>1. Goto(w, j, IF IsCreate(j) THEN "setAttr" ELSE "move")
            /\ (IF IsCreate(j) THEN "setAttr" ELSE "move") \in Owning
        BY <3>3 DEF MkNamed, Owning
      <4> QED
        BY <1>4, <4>1
    <3> QED
      BY <1>7, <3>1, <3>2, <3>3
  <2>4. pc \in PCs \ {"idle"}
    BY DEF Owning, PCs
  <2>5. job'[w].pc = pc /\ job'[w].dst = j.dst /\ job'[w].req = j.req
    BY <2>3, <2>4, GotoFields
  <2>6. Key(job'[w]) = Key(j)
    BY <2>5 DEF Key
  <2> QED
    BY <1>0, <1>4, <2>1, <2>2, <2>5, <2>6, LocksStep
\* Steps that unlock it.
<1>8. ASSUME NEW w \in Workers, NameTaken(w) \/ SetAttr(w) \/ Move(w) \/ MoveFails(w)
      PROVE  OwnLocks'
  <2>1. nameLock' = nameLock \ {Key(job[w])} /\ UNCHANGED <<dirs, nextFid>>
    BY <1>8, AloneTypes DEF NameTaken, SetAttr, Move, MoveFails, Unlocked, disk
  <2> QED
    BY <1>0, <1>4, <2>1, LocksStep
\* Steps that may leave it locked.
<1>9. ASSUME NEW w \in Workers, CheckPanics(w) \/ MkNamedFails(w) \/ SetAttrFails(w)
      PROVE  OwnLocks'
  <2>1. UNCHANGED <<dirs, nextFid>>
    BY <1>9 DEF CheckPanics, MkNamedFails, SetAttrFails, disk
  <2>2. \A key \in nameLock' : Kept(key)
    BY <1>4, <1>9, FailureIsKnown
  <2> QED
    BY <1>0, <2>1, <2>2, LocksStep
<1> QED
  BY <1>1, <1>2, <1>3, <1>5, <1>6, <1>7, <1>8, <1>9, NeverPanics
     DEF Next, Naming, Creating, Moving

(* mod.rs:506, "we cannot use ? until we unlock so as not to cause         *)
(* deadlock": when a worker by itself has ended a request, in whatever     *)
(* way, the name it locked is free again, unless the search panics on that *)
(* name, the host refuses the file or its attributes, or the request was   *)
(* to rename into a file (mod.rs:255, 256, 262, 268, 365, 478, 1014).      *)
THEOREM AloneUnlocksNames ==
  ASSUME OneWorker
  PROVE  Spec => []NoLeak
<1>1. Init => OwnLocks
  BY DEF Init, OwnLocks
<1>2. Orderly /\ OwnLocks /\ [Next]_vars /\ Orderly' => OwnLocks'
  <2> SUFFICES ASSUME Orderly, OwnLocks, [Next]_vars, Orderly' PROVE OwnLocks'
    OBVIOUS
  <2>1. nextFid' \in Nat
    BY DEF Orderly, IInv, TypeOK
  <2> QED
    BY <2>1, StepKeepsLocks
<1>3. OwnLocks => NoLeak
  BY DEF OwnLocks, Kept, NoLeak, Quiet, Owning
<1> QED
  BY <1>1, <1>2, <1>3, OrderlyInductive, PTL DEF Spec
=============================================================================
