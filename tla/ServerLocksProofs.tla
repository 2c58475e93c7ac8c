-------------------------- MODULE ServerLocksProofs -------------------------
(***************************************************************************)
(* ServerLocks proved for any number of workers and requests: guards match *)
(* the position of their worker, and no workers wait for each other in a   *)
(* circle, either where a waiting writer does not keep readers out or      *)
(* where no search holds a read lock while it takes another.               *)
(***************************************************************************)
EXTENDS ServerLocks, TLAPS

USE LocksAssumption DEF LocksAssumption

(* What the tables of the handlers say of the guards before and after a    *)
(* step.                                                                   *)
StepOK(s) ==
    /\ s[3] \in Locks /\ s[1] # "idle"
    /\ s[1] \notin {"find", "descend", "extend", "extending"}
    /\ s[4] \notin {"find", "descend", "extend", "extending"}
    /\ s[2] = "take" => /\ s[3] \notin Guards(s[1])
                        /\ Guards(s[4]) = Guards(s[1]) \union {s[3]}
    /\ s[2] = "drop" => /\ s[3] \in Guards(s[1])
                        /\ Guards(s[4]) = Guards(s[1]) \ {s[3]}
    /\ s[2] = "read" => /\ Guards(s[4]) = Guards(s[1])
                        /\ s[3] = "async_bufs" /\ s[4] = "looking"
    /\ s[2] = "read" <=> s[1] = "look"
    /\ s[2] = "leave" => /\ Guards(s[4]) = Guards(s[1])
                         /\ s[3] = "async_bufs" /\ s[1] = "looking"
    /\ s[2] = "go" => Guards(s[4]) = Guards(s[1])
    /\ s[2] # "leave" => MayRead(s[1]) = {}
    /\ s[2] # "read" => MayRead(s[4]) = {}
    \* who waits has nothing, except for rename after it has failed
    /\ s[2] \in {"take", "read"} =>
          \/ Guards(s[1]) = {}
          \/ s[1] = "moveFailed" /\ s[2] = "take" /\ s[3] = "name_lock"

LEMMA TablesOK ==
  ASSUME NEW o, NEW s \in Steps(o)
  PROVE  StepOK(s) /\ o \in Ops
<1> USE DEF StepOK, Locks, Guards, MayRead, Ops
<1>1. CASE o = "create"
  <2>1. s \in CreateSteps
    BY <1>1 DEF Steps
  <2> QED
    BY <1>1, <2>1 DEF CreateSteps, CreateEnd
<1>2. CASE o = "remove"
  <2>1. s \in RemoveSteps
    BY <1>2 DEF Steps
  <2> QED
    BY <1>2, <2>1 DEF RemoveSteps
<1>3. CASE o = "rename"
  <2>1. s \in RenameSteps
    BY <1>3 DEF Steps
  <2> QED
    BY <1>3, <2>1 DEF RenameSteps
<1>4. CASE o = "write"
  <2>1. s \in WriteSteps
    BY <1>4 DEF Steps
  <2> QED
    BY <1>4, <2>1 DEF WriteSteps, Look
<1>5. CASE o = "commit"
  <2>1. s \in CommitSteps
    BY <1>5 DEF Steps
  <2> QED
    BY <1>5, <2>1 DEF CommitSteps
<1> QED
  BY <1>1, <1>2, <1>3, <1>4, <1>5 DEF Steps


LEMMA StepPCs ==
  ASSUME NEW o \in Ops, NEW s \in Steps(o)
  PROVE  s[1] \in PCs /\ s[4] \in PCs
<1>1. s \in UNION {Steps(q) : q \in Ops}
  OBVIOUS
<1> QED
  BY <1>1 DEF PCs

LEMMA SearchGuards ==
  /\ \A p \in {"idle", "find", "descend", "extend", "lockName", "delete",
               "takeOut", "look"} : Guards(p) = {}
  /\ Guards("extending") = {"fid_cache"}
  /\ MayRead("find") = {"fid_cache"} /\ MayRead("descend") = {"fid_cache"}
  /\ \A p \in {"idle", "extend", "extending", "lockName", "delete",
               "takeOut", "look"} : MayRead(p) = {}
BY DEF Guards, MayRead

LEMMA AfterFindsOK ==
  ASSUME NEW o \in Ops \union {"none"}
  PROVE  /\ AfterFinds(o) \in {"idle", "lockName", "delete", "takeOut", "look"}
         /\ AfterFinds(o) \in PCs
         /\ AfterFinds(o) = "idle" => o = "none"
<1>1. /\ "idle" \in PCs
      /\ \A q \in Ops : \A s \in Steps(q) : s[1] \in PCs
  BY StepPCs DEF PCs
<1>2. /\ <<"lockName", "take", "name_lock", "locking">> \in Steps("create")
      /\ <<"delete", "take", "fid_cache", "deleting">> \in Steps("remove")
      /\ <<"takeOut", "take", "async_bufs", "takingOut">> \in Steps("commit")
      /\ <<"look", "read", "async_bufs", "looking">> \in Steps("write")
  BY DEF Steps, CreateSteps, RemoveSteps, CommitSteps, WriteSteps, Look
<1>3. {"lockName", "delete", "takeOut", "look"} \subseteq PCs
  <2>1. /\ <<"lockName", "take", "name_lock", "locking">>[1] = "lockName"
        /\ <<"delete", "take", "fid_cache", "deleting">>[1] = "delete"
        /\ <<"takeOut", "take", "async_bufs", "takingOut">>[1] = "takeOut"
        /\ <<"look", "read", "async_bufs", "looking">>[1] = "look"
    OBVIOUS
  <2> QED
    BY <1>1, <1>2, <2>1 DEF Ops
<1> QED
  BY <1>1, <1>3 DEF AfterFinds, Ops

-----------------------------------------------------------------------------
(* What each kind of step does to the guards.                              *)

LEMMA TakeKeeps ==
  ASSUME TypeOK, GuardsMatch,
         NEW w \in Workers, NEW l \in Locks, NEW to \in PCs,
         CanTake(l), Take(w, l), pc' = [pc EXCEPT ![w] = to],
         Guards(to) = Guards(pc[w]) \union {l},
         MayRead(pc[w]) = {}, to \notin {"descend", "looking"}
  PROVE  GuardsMatch'
<1> USE DEF Take, CanTake
<1>1. \A v \in Workers \ {w} : pc'[v] = pc[v]
  BY DEF TypeOK
<1>2. pc'[w] = to
  BY DEF TypeOK
<1>3. owner'[l] = w /\ \A k \in Locks \ {l} : owner'[k] = owner[k]
  BY DEF TypeOK
<1>4. \A v \in Workers : ~ (reads[v][l] > 0)
  BY DEF Readers
<1>5. ASSUME NEW v \in Workers, NEW k \in Locks
      PROVE  /\ owner'[k] = v <=> k \in Guards(pc'[v])
             /\ reads'[v][k] > 0 => k \in MayRead(pc'[v]) /\ owner'[k] = Nobody
  <2>1. CASE v = w
    BY <1>2, <1>3, <1>4, <2>1 DEF GuardsMatch
  <2>2. CASE v # w
    BY <1>1, <1>3, <1>4, <2>2 DEF GuardsMatch
  <2> QED
    BY <2>1, <2>2
<1>6. ASSUME NEW v \in Workers
      PROVE  /\ reads'[v]["fid_cache"] <= MaxDepth
             /\ pc'[v] = "descend" => reads'[v]["fid_cache"] < MaxDepth
             /\ pc'[v] = "looking" => reads'[v]["async_bufs"] = 1
  BY <1>1, <1>2 DEF GuardsMatch
<1> QED
  BY <1>5, <1>6 DEF GuardsMatch

LEMMA DropKeeps ==
  ASSUME TypeOK, GuardsMatch,
         NEW w \in Workers, NEW l \in Locks, NEW to \in PCs,
         Drop(w, l), pc' = [pc EXCEPT ![w] = to],
         l \in Guards(pc[w]), Guards(to) = Guards(pc[w]) \ {l},
         MayRead(pc[w]) = {}, to \notin {"descend", "looking"}
  PROVE  GuardsMatch'
<1> USE DEF Drop
<1>1. \A v \in Workers \ {w} : pc'[v] = pc[v]
  BY DEF TypeOK
<1>2. pc'[w] = to
  BY DEF TypeOK
<1>3. owner'[l] = Nobody /\ \A k \in Locks \ {l} : owner'[k] = owner[k]
  BY DEF TypeOK
<1>4. owner[l] = w
  BY DEF GuardsMatch
<1>5. ASSUME NEW v \in Workers, NEW k \in Locks
      PROVE  /\ owner'[k] = v <=> k \in Guards(pc'[v])
             /\ reads'[v][k] > 0 => k \in MayRead(pc'[v]) /\ owner'[k] = Nobody
  <2>1. CASE v = w
    BY <1>2, <1>3, <1>4, <2>1 DEF GuardsMatch
  <2>2. CASE v # w
    BY <1>1, <1>3, <1>4, <2>2 DEF GuardsMatch
  <2> QED
    BY <2>1, <2>2
<1>6. ASSUME NEW v \in Workers
      PROVE  /\ reads'[v]["fid_cache"] <= MaxDepth
             /\ pc'[v] = "descend" => reads'[v]["fid_cache"] < MaxDepth
             /\ pc'[v] = "looking" => reads'[v]["async_bufs"] = 1
  BY <1>1, <1>2 DEF GuardsMatch
<1> QED
  BY <1>5, <1>6 DEF GuardsMatch

(* Any other step: w has the mutexes and write locks that it had, and what *)
(* it reads has no owner.                                                  *)
LEMMA ReadsKeep ==
  ASSUME TypeOK, GuardsMatch,
         NEW w \in Workers, NEW to \in PCs,
         UNCHANGED owner, pc' = [pc EXCEPT ![w] = to],
         Guards(to) = Guards(pc[w]),
         \A v \in Workers \ {w} : reads'[v] = reads[v],
         \A l \in Locks :
            reads'[w][l] > 0 => l \in MayRead(to) /\ owner[l] = Nobody,
         reads'[w]["fid_cache"] <= MaxDepth,
         to = "descend" => reads'[w]["fid_cache"] < MaxDepth,
         to = "looking" => reads'[w]["async_bufs"] = 1
  PROVE  GuardsMatch'
<1>1. \A v \in Workers \ {w} : pc'[v] = pc[v]
  BY DEF TypeOK
<1>2. pc'[w] = to
  BY DEF TypeOK
<1>3. ASSUME NEW v \in Workers, NEW k \in Locks
      PROVE  /\ owner'[k] = v <=> k \in Guards(pc'[v])
             /\ reads'[v][k] > 0 => k \in MayRead(pc'[v]) /\ owner'[k] = Nobody
  <2>1. CASE v = w
    BY <1>2, <2>1 DEF GuardsMatch
  <2>2. CASE v # w
    BY <1>1, <2>2 DEF GuardsMatch
  <2> QED
    BY <2>1, <2>2
<1>4. ASSUME NEW v \in Workers
      PROVE  /\ reads'[v]["fid_cache"] <= MaxDepth
             /\ pc'[v] = "descend" => reads'[v]["fid_cache"] < MaxDepth
             /\ pc'[v] = "looking" => reads'[v]["async_bufs"] = 1
  <2>1. CASE v = w
    BY <1>2, <2>1
  <2>2. CASE v # w
    BY <1>1, <2>2 DEF GuardsMatch
  <2> QED
    BY <2>1, <2>2
<1> QED
  BY <1>3, <1>4 DEF GuardsMatch

-----------------------------------------------------------------------------
(* Each action keeps the invariant.                                        *)

LEMMA InitEstablishesLocksInv == Init => LocksInv
<1> SUFFICES ASSUME Init PROVE LocksInv
  OBVIOUS
<1> USE DEF Init
<1>1. TypeOK
  <2>1. "idle" \in PCs
    BY DEF PCs
  <2> QED
    BY <2>1 DEF TypeOK
<1>2. GuardsMatch
  BY SearchGuards DEF GuardsMatch, Locks
<1>3. OpsMatch
  BY DEF OpsMatch
<1> QED
  BY <1>1, <1>2, <1>3 DEF LocksInv

(* Types, and who is idle, after a step to another position.               *)
LEMMA GotoKeeps ==
  ASSUME LocksInv, NEW w \in Workers, NEW to \in PCs, Goto(w, to),
         pc[w] # "idle",
         finds' \in [Workers -> 0 .. 2],
         \A v \in Workers \ {w} : finds'[v] = finds[v],
         to \in {"find", "descend", "extend", "extending"} => finds'[w] > 0,
         owner' \in [Locks -> Workers \union {Nobody}],
         reads' \in [Workers -> [Locks -> Nat]],
         UNCHANGED left
  PROVE  TypeOK' /\ OpsMatch' /\ pc' = [pc EXCEPT ![w] = to]
<1>1. TypeOK'
  BY DEF LocksInv, TypeOK, Goto
<1>2. ASSUME NEW v \in Workers
      PROVE  /\ pc'[v] = "idle" <=> op'[v] = "none"
             /\ pc'[v] \in {"find", "descend", "extend", "extending"} =>
                   finds'[v] > 0
  BY DEF LocksInv, TypeOK, OpsMatch, Goto
<1> QED
  BY <1>1, <1>2 DEF OpsMatch, Goto

LEMMA StartKeeps ==
  ASSUME LocksInv, NEW w \in Workers, Start(w)
  PROVE  LocksInv'
<1> USE DEF LocksInv, Start
<1>1. PICK o \in Ops :
         /\ op' = [op EXCEPT ![w] = o]
         /\ finds' = [finds EXCEPT ![w] = Finds(o)]
         /\ pc' = [pc EXCEPT ![w] = IF Finds(o) = 0 THEN AfterFinds(o) ELSE "find"]
  OBVIOUS
<1> DEFINE to == IF Finds(o) = 0 THEN AfterFinds(o) ELSE "find"
<1>2. /\ Finds(o) \in 0 .. 2
      /\ to \in {"look", "find"} /\ to \in PCs
      /\ to = "find" => Finds(o) > 0
  <2>1. "find" \in PCs
    BY DEF PCs
  <2>2. Finds(o) \in 0 .. 2 /\ (Finds(o) = 0 => o = "write")
    BY DEF Finds, Ops
  <2>3. o = "write" => AfterFinds(o) = "look"
    BY DEF AfterFinds
  <2> QED
    BY <2>1, <2>2, <2>3, AfterFindsOK
<1>3. TypeOK'
  BY <1>1, <1>2 DEF TypeOK
<1>4. OpsMatch'
  <2> SUFFICES ASSUME NEW v \in Workers
               PROVE  /\ pc'[v] = "idle" <=> op'[v] = "none"
                      /\ pc'[v] \in {"find", "descend", "extend", "extending"} =>
                            finds'[v] > 0
    BY DEF OpsMatch
  <2>1. o # "none"
    BY DEF Ops
  <2> QED
    BY <1>1, <1>2, <2>1 DEF TypeOK, OpsMatch
<1>5. GuardsMatch'
  <2>1. Guards(to) = {} /\ Guards(pc[w]) = {} /\ MayRead(pc[w]) = {}
    BY <1>2, SearchGuards
  <2>2. \A l \in Locks : ~ (reads[w][l] > 0)
    BY <2>1 DEF GuardsMatch
  <2>3. pc' = [pc EXCEPT ![w] = to] /\ to \notin {"descend", "looking"}
    BY <1>1, <1>2
  <2>4. reads[w]["fid_cache"] <= MaxDepth
    BY DEF GuardsMatch
  <2> HIDE DEF to
  <2> QED
    BY <1>2, <2>1, <2>2, <2>3, <2>4, ReadsKeep
<1> QED
  BY <1>3, <1>4, <1>5

LEMMA SearchKeeps ==
  ASSUME LocksInv, NEW w \in Workers,
         Descend(w) \/ ReadCache(w) \/ Return(w) \/ Extend(w) \/ Extended(w)
  PROVE  LocksInv'
<1> USE DEF LocksInv
<1>1. {"idle", "find", "descend", "extend", "extending"} \subseteq PCs
  BY DEF PCs
<1>2. "fid_cache" \in Locks
  BY DEF Locks
<1>3. \A l \in Locks : reads[w][l] \in Nat
  BY DEF TypeOK
<1>4. CASE Descend(w)
  <2> USE <1>4 DEF Descend
  <2>1. TypeOK' /\ OpsMatch' /\ pc' = [pc EXCEPT ![w] = "descend"]
    BY <1>1, GotoKeeps DEF TypeOK, OpsMatch
  <2>2. \A l \in Locks : reads[w][l] > 0 => l \in MayRead("descend") /\ owner[l] = Nobody
    BY SearchGuards DEF GuardsMatch
  <2>3. GuardsMatch'
    BY <1>1, <1>3, <2>1, <2>2, SearchGuards, ReadsKeep DEF GuardsMatch
  <2> QED
    BY <2>1, <2>3
<1>5. CASE ReadCache(w)
  <2> USE <1>5 DEF ReadCache, Read, CanRead
  <2>1. /\ reads' \in [Workers -> [Locks -> Nat]]
        /\ \A v \in Workers \ {w} : reads'[v] = reads[v]
        /\ reads'[w]["fid_cache"] = reads[w]["fid_cache"] + 1
        /\ \A l \in Locks \ {"fid_cache"} : reads'[w][l] = reads[w][l]
    BY <1>2, <1>3 DEF TypeOK
  <2>2. TypeOK' /\ OpsMatch' /\ pc' = [pc EXCEPT ![w] = "find"]
    BY <1>1, <2>1, GotoKeeps DEF TypeOK, OpsMatch
  <2>3. \A l \in Locks : reads'[w][l] > 0 => l \in MayRead("find") /\ owner[l] = Nobody
    BY <2>1, SearchGuards DEF GuardsMatch
  <2>4. reads'[w]["fid_cache"] <= MaxDepth
    BY <1>2, <1>3, <2>1 DEF GuardsMatch
  <2>5. GuardsMatch'
    BY <1>1, <2>1, <2>2, <2>3, <2>4, SearchGuards, ReadsKeep
  <2> QED
    BY <2>2, <2>5
<1>6. CASE Return(w)
  <2> USE <1>6 DEF Return
  <2>1. /\ reads' \in [Workers -> [Locks -> Nat]]
        /\ \A v \in Workers \ {w} : reads'[v] = reads[v]
        /\ reads'[w]["fid_cache"] = 0
        /\ \A l \in Locks \ {"fid_cache"} : reads'[w][l] = reads[w][l]
    BY <1>2, <1>3 DEF TypeOK
  <2>2. PICK to \in {"extend", "idle"} : Goto(w, to) /\ Left(w, to, finds[w])
    OBVIOUS
  <2>3. owner' = owner /\ left' = left
    OBVIOUS
  <2>4. TypeOK' /\ OpsMatch' /\ pc' = [pc EXCEPT ![w] = to]
    <3>1. finds \in [Workers -> 0 .. 2] /\ finds[w] > 0 /\ pc[w] = "find"
      BY DEF TypeOK, OpsMatch
    <3>2. /\ finds' \in [Workers -> 0 .. 2]
          /\ \A v \in Workers \ {w} : finds'[v] = finds[v]
          /\ to # "idle" => finds'[w] > 0
      BY <2>2, <3>1 DEF Left
    <3>3. owner' \in [Locks -> Workers \union {Nobody}]
      BY <2>3 DEF TypeOK
    <3>4. to \in PCs /\ to \in {"extend", "idle"} /\ Goto(w, to)
      BY <1>1, <2>2
    <3> HIDE <1>6
    <3> QED
      BY <2>1, <2>3, <3>1, <3>2, <3>3, <3>4, GotoKeeps
  <2>5. \A l \in Locks : ~ (reads'[w][l] > 0)
    BY <2>1, SearchGuards DEF GuardsMatch
  <2>6. Guards(to) = Guards(pc[w]) /\ to \notin {"descend", "looking"}
    BY <2>2, SearchGuards
  <2>7. to \in PCs
    BY <1>1, <2>2
  <2>8. GuardsMatch'
    <3>1. pc' = [pc EXCEPT ![w] = to] /\ reads'[w]["fid_cache"] <= MaxDepth
      BY <2>1, <2>4
    <3> HIDE <1>6
    <3> QED
      BY <2>1, <2>3, <2>5, <2>6, <2>7, <3>1, ReadsKeep
  <2> QED
    BY <2>4, <2>8
<1>7. CASE Extend(w)
  <2> USE <1>7 DEF Extend
  <2>1. owner' \in [Locks -> Workers \union {Nobody}] /\ reads' = reads
    BY <1>2 DEF TypeOK, Take
  <2>2. TypeOK' /\ OpsMatch' /\ pc' = [pc EXCEPT ![w] = "extending"]
    BY <1>1, <2>1, GotoKeeps DEF TypeOK, OpsMatch
  <2>3. GuardsMatch'
    <3>1. /\ pc[w] = "extend" /\ Guards("extending") = Guards(pc[w]) \union {"fid_cache"}
          /\ MayRead(pc[w]) = {} /\ "extending" \notin {"descend", "looking"}
      BY SearchGuards
    <3>2. CanTake("fid_cache") /\ Take(w, "fid_cache") /\ "extending" \in PCs
      BY <1>1
    <3> QED
      BY <1>1, <1>2, <2>2, <3>1, <3>2, TakeKeeps
  <2> QED
    BY <2>2, <2>3
<1>8. CASE Extended(w)
  <2> USE <1>8 DEF Extended
  <2> DEFINE to == IF finds[w] > 1 THEN "find" ELSE AfterFinds(op[w])
  <2>1. owner' \in [Locks -> Workers \union {Nobody}] /\ reads' = reads
    BY <1>2 DEF TypeOK, Drop
  <2>2. /\ to \in {"find", "idle", "lockName", "delete", "takeOut", "look"}
        /\ to \in PCs
        /\ to = "find" => finds[w] > 1
    BY <1>1, AfterFindsOK DEF TypeOK
  <2>3. /\ finds' \in [Workers -> 0 .. 2]
        /\ \A v \in Workers \ {w} : finds'[v] = finds[v]
        /\ to = "find" => finds'[w] > 0
    <3>1. finds \in [Workers -> 0 .. 2] /\ finds[w] > 0
      BY DEF TypeOK, OpsMatch
    <3>2. finds' = [finds EXCEPT ![w] = finds[w] - 1]
      OBVIOUS
    <3> QED
      BY <2>2, <3>1, <3>2
  <2>4. Goto(w, to) /\ Drop(w, "fid_cache") /\ left' = left
    OBVIOUS
  <2>5. pc[w] = "extending"
    OBVIOUS
  <2> HIDE <1>8 DEF to
  <2>6. TypeOK' /\ OpsMatch' /\ pc' = [pc EXCEPT ![w] = to]
    BY <2>1, <2>2, <2>3, <2>4, <2>5, GotoKeeps DEF TypeOK
  <2>7. GuardsMatch'
    BY <1>2, <2>2, <2>4, <2>5, <2>6, SearchGuards, DropKeeps
  <2> QED
    BY <2>6, <2>7
<1> QED
  BY <1>4, <1>5, <1>6, <1>7, <1>8

LEMMA RefuseKeeps ==
  ASSUME LocksInv, NEW w \in Workers, Refuse(w)
  PROVE  LocksInv'
<1> USE DEF LocksInv, Refuse
<1>1. "idle" \in PCs
  BY DEF PCs
<1>2. TypeOK' /\ OpsMatch' /\ pc' = [pc EXCEPT ![w] = "idle"]
  BY <1>1, GotoKeeps DEF TypeOK, OpsMatch
<1>3. \A l \in Locks : ~ (reads[w][l] > 0)
  BY SearchGuards DEF GuardsMatch
<1>4. reads[w]["fid_cache"] <= MaxDepth
  BY DEF GuardsMatch
<1>5. GuardsMatch'
  BY <1>1, <1>2, <1>3, <1>4, SearchGuards, ReadsKeep
<1> QED
  BY <1>2, <1>5

LEMMA HandleKeeps ==
  ASSUME LocksInv, NEW w \in Workers, Handle(w)
  PROVE  LocksInv'
<1> USE DEF LocksInv
<1>1. PICK s \in Steps(op[w]) :
         /\ s[1] = pc[w]
         /\ \/ s[2] = "take" /\ CanTake(s[3]) /\ Take(w, s[3])
            \/ s[2] = "read" /\ CanRead(s[3]) /\ Read(w, s[3])
            \/ s[2] = "drop" /\ Drop(w, s[3])
            \/ s[2] = "leave" /\ Leave(w, s[3])
            \/ s[2] = "go" /\ UNCHANGED <<owner, reads>>
         /\ Goto(w, s[4])
  BY DEF Handle
<1>2. finds' = finds /\ left' = left
  BY DEF Handle
<1> DEFINE l == s[3]  to == s[4]
<1>3. StepOK(s) /\ to \in PCs
  BY TablesOK, StepPCs
<1>4. /\ l \in Locks /\ pc[w] = s[1] /\ Goto(w, to)
      /\ to \notin {"find", "descend", "extend", "extending"}
      /\ pc[w] \notin {"idle", "find", "descend", "extend", "extending"}
  BY <1>1, <1>3 DEF StepOK
<1>5. /\ owner' \in [Locks -> Workers \union {Nobody}]
      /\ reads' \in [Workers -> [Locks -> Nat]]
      => TypeOK' /\ OpsMatch' /\ pc' = [pc EXCEPT ![w] = to]
  BY <1>2, <1>3, <1>4, GotoKeeps DEF TypeOK
<1>6. \A k \in Locks : reads[w][k] \in Nat
  BY DEF TypeOK
<1>7. CASE s[2] = "take"
  <2>1. CanTake(l) /\ Take(w, l)
    BY <1>1, <1>7
  <2>2. TypeOK' /\ OpsMatch' /\ pc' = [pc EXCEPT ![w] = to]
    BY <1>4, <1>5, <2>1 DEF TypeOK, Take
  <2>3. /\ l \notin Guards(pc[w]) /\ Guards(to) = Guards(pc[w]) \union {l}
        /\ MayRead(pc[w]) = {} /\ MayRead(to) = {}
    BY <1>1, <1>3, <1>7 DEF StepOK
  <2>4. to \notin {"descend", "looking"}
    BY <1>4, <2>3 DEF MayRead
  <2> HIDE DEF l, to
  <2>5. GuardsMatch'
    BY <1>3, <1>4, <2>1, <2>2, <2>3, <2>4, TakeKeeps
  <2> QED
    BY <2>2, <2>5
<1>8. CASE s[2] = "drop"
  <2>1. Drop(w, l)
    BY <1>1, <1>8
  <2>2. TypeOK' /\ OpsMatch' /\ pc' = [pc EXCEPT ![w] = to]
    BY <1>4, <1>5, <2>1 DEF TypeOK, Drop
  <2>3. /\ l \in Guards(pc[w]) /\ Guards(to) = Guards(pc[w]) \ {l}
        /\ MayRead(pc[w]) = {} /\ MayRead(to) = {}
    BY <1>1, <1>3, <1>8 DEF StepOK
  <2>4. to \notin {"descend", "looking"}
    BY <1>4, <2>3 DEF MayRead
  <2> HIDE DEF l, to
  <2>5. GuardsMatch'
    BY <1>3, <1>4, <2>1, <2>2, <2>3, <2>4, DropKeeps
  <2> QED
    BY <2>2, <2>5
<1>9. CASE s[2] = "go"
  <2>1. UNCHANGED <<owner, reads>>
    BY <1>1, <1>9
  <2>2. TypeOK' /\ OpsMatch' /\ pc' = [pc EXCEPT ![w] = to]
    BY <1>5, <2>1 DEF TypeOK
  <2>3. /\ Guards(to) = Guards(pc[w])
        /\ MayRead(pc[w]) = {} /\ MayRead(to) = {}
    BY <1>1, <1>3, <1>9 DEF StepOK
  <2>4. to \notin {"descend", "looking"}
    BY <1>4, <2>3 DEF MayRead
  <2>5. \A k \in Locks : ~ (reads[w][k] > 0)
    BY <2>3 DEF GuardsMatch
  <2>6. reads[w]["fid_cache"] <= MaxDepth
    BY DEF GuardsMatch
  <2> HIDE DEF l, to
  <2>7. GuardsMatch'
    BY <1>3, <2>1, <2>2, <2>3, <2>4, <2>5, <2>6, ReadsKeep
  <2> QED
    BY <2>2, <2>7
<1>10. CASE s[2] = "read"
  <2>1. /\ owner' = owner
        /\ reads' = [reads EXCEPT ![w][l] = @ + 1]
        /\ owner[l] = Nobody
    BY <1>1, <1>10 DEF Read, CanRead
  <2>2. /\ l = "async_bufs" /\ to = "looking"
        /\ Guards(to) = Guards(pc[w]) /\ MayRead(pc[w]) = {}
    BY <1>1, <1>3, <1>10 DEF StepOK
  <2>3. \A k \in Locks : reads[w][k] = 0
    BY <1>6, <2>2 DEF GuardsMatch
  <2>4. "fid_cache" \in Locks /\ "async_bufs" \in Locks
    BY DEF Locks
  <2>5. /\ reads' \in [Workers -> [Locks -> Nat]]
        /\ \A v \in Workers \ {w} : reads'[v] = reads[v]
        /\ reads'[w]["async_bufs"] = 1
        /\ \A k \in Locks \ {"async_bufs"} : reads'[w][k] = 0
    BY <2>1, <2>2, <2>3, <2>4 DEF TypeOK
  <2>6. TypeOK' /\ OpsMatch' /\ pc' = [pc EXCEPT ![w] = to]
    BY <1>5, <2>1, <2>5 DEF TypeOK
  <2>7. \A k \in Locks : reads'[w][k] > 0 => k \in MayRead(to) /\ owner[k] = Nobody
    BY <2>1, <2>2, <2>5 DEF MayRead
  <2>8. reads'[w]["fid_cache"] <= MaxDepth
    BY <2>4, <2>5
  <2> HIDE DEF l, to
  <2>9. GuardsMatch'
    BY <1>3, <2>1, <2>2, <2>5, <2>6, <2>7, <2>8, ReadsKeep
  <2> QED
    BY <2>6, <2>9
<1>11. CASE s[2] = "leave"
  <2>1. owner' = owner /\ reads' = [reads EXCEPT ![w][l] = @ - 1]
    BY <1>1, <1>11 DEF Leave
  <2>2. /\ l = "async_bufs" /\ pc[w] = "looking"
        /\ Guards(to) = Guards(pc[w]) /\ MayRead(to) = {}
    BY <1>1, <1>3, <1>11 DEF StepOK
  <2>3. /\ reads[w]["async_bufs"] = 1
        /\ \A k \in Locks \ {"async_bufs"} : reads[w][k] = 0
    BY <1>6, <2>2 DEF GuardsMatch, MayRead
  <2>4. "fid_cache" \in Locks /\ "async_bufs" \in Locks
    BY DEF Locks
  <2>5. /\ reads' \in [Workers -> [Locks -> Nat]]
        /\ \A v \in Workers \ {w} : reads'[v] = reads[v]
        /\ \A k \in Locks : reads'[w][k] = 0
    BY <2>1, <2>2, <2>3, <2>4 DEF TypeOK
  <2>6. TypeOK' /\ OpsMatch' /\ pc' = [pc EXCEPT ![w] = to]
    BY <1>5, <2>1, <2>5 DEF TypeOK
  <2>7. to \notin {"descend", "looking"}
    BY <1>4, <2>2 DEF MayRead
  <2>8. /\ \A k \in Locks : ~ (reads'[w][k] > 0)
        /\ reads'[w]["fid_cache"] <= MaxDepth
    BY <2>4, <2>5
  <2> HIDE DEF l, to
  <2>9. GuardsMatch'
    BY <1>3, <2>1, <2>2, <2>5, <2>6, <2>7, <2>8, ReadsKeep
  <2> QED
    BY <2>6, <2>9
<1> QED
  BY <1>1, <1>7, <1>8, <1>9, <1>10, <1>11

LEMMA StepPreservesLocksInv == LocksInv /\ [Next]_vars => LocksInv'
<1> SUFFICES ASSUME LocksInv, [Next]_vars PROVE LocksInv'
  OBVIOUS
<1>1. CASE UNCHANGED vars
  BY <1>1 DEF vars, LocksInv, TypeOK, GuardsMatch, OpsMatch
<1>2. CASE Next
  <2>1. PICK w \in Workers : Start(w) \/ Work(w)
    BY <1>2 DEF Next
  <2> QED
    BY <2>1, StartKeeps, SearchKeeps, HandleKeeps, RefuseKeeps DEF Work
<1> QED
  BY <1>1, <1>2

(* Every guard of fid_cache, async_bufs, name_lock, the counter and the    *)
(* buffers lives exactly as long as the handlers of mod.rs say, alone or   *)
(* beside other readers.                                                   *)
LEMMA LocksInvariant == Spec => []LocksInv
BY InitEstablishesLocksInv, StepPreservesLocksInv, PTL DEF Spec

-----------------------------------------------------------------------------
(* No circle: what those who have a lock may wait for.                     *)

LEMMA TakeOrRead ==
  ASSUME NEW w \in Workers, NEW k \in Locks, WantsToTake(w, k)
  PROVE  \A l \in Locks : ~ WantsToRead(w, l)
<1> SUFFICES ASSUME NEW l \in Locks, WantsToRead(w, l) PROVE FALSE
  OBVIOUS
<1>1. ASSUME NEW s \in Steps(op[w]), s[1] = pc[w]
      PROVE  /\ pc[w] \notin {"extend", "descend"}
             /\ s[2] = "read" <=> pc[w] = "look"
  BY <1>1, TablesOK DEF StepOK
<1>2. CASE pc[w] = "extend"
  BY <1>1, <1>2 DEF WantsToRead
<1>3. CASE \E s \in Steps(op[w]) : s[1] = pc[w] /\ s[2] = "take" /\ s[3] = k
  BY <1>1, <1>3 DEF WantsToRead
<1> QED
  BY <1>2, <1>3 DEF WantsToTake

LEMMA OwnerWaits ==
  ASSUME LocksInv, NEW v \in Workers, NEW l \in Locks, owner[l] = v
  PROVE  \A u \in Blockers(v) : l = "fid_cache" /\ owner["name_lock"] = u
<1> SUFFICES ASSUME NEW u \in Workers, NEW k \in Locks,
                    \/ /\ WantsToTake(v, k)
                       /\ owner[k] = u \/ reads[u][k] > 0
                    \/ WantsToRead(v, k)
             PROVE  l = "fid_cache" /\ owner["name_lock"] = u
  BY DEF Blockers
<1>1. l \in Guards(pc[v])
  BY DEF LocksInv, GuardsMatch
<1>2. pc[v] \notin {"extend", "descend"}
  BY <1>1, SearchGuards
<1>3. PICK s \in Steps(op[v]) :
         s[1] = pc[v] /\ s[2] \in {"take", "read"} /\ s[3] = k
  BY <1>2 DEF WantsToTake, WantsToRead
<1>4. pc[v] = "moveFailed" /\ k = "name_lock" /\ s[2] = "take"
  BY <1>1, <1>3, TablesOK DEF StepOK
<1>5. l = "fid_cache"
  BY <1>1, <1>4 DEF Guards
<1>6. ~ WantsToRead(v, k)
  BY <1>3, <1>4, TakeOrRead DEF WantsToTake
<1>7. k \notin MayRead(pc[u])
  BY <1>4 DEF MayRead
<1>8. ~ (reads[u][k] > 0)
  BY <1>7 DEF LocksInv, GuardsMatch
<1> QED
  BY <1>4, <1>5, <1>6, <1>8

LEMMA ReaderWaits ==
  ASSUME LocksInv, WriterFirst => MaxDepth <= 1,
         NEW v \in Workers, NEW l \in Locks, reads[v][l] > 0
  PROVE  \A u \in Blockers(v) : \E k \in Locks : owner[k] = u
<1> SUFFICES ASSUME NEW u \in Workers, NEW k \in Locks,
                    \/ WantsToTake(v, k)
                    \/ /\ WantsToRead(v, k)
                       /\ owner[k] = u \/ WriterFirst
             PROVE  owner[k] = u
  BY DEF Blockers
<1>1. l \in MayRead(pc[v])
  BY DEF LocksInv, GuardsMatch
<1>2. pc[v] \in {"find", "descend", "looking"}
  BY <1>1 DEF MayRead
<1>3. ASSUME NEW s \in Steps(op[v]), s[1] = pc[v]
      PROVE  s[2] \notin {"take", "read"}
  BY <1>1, <1>3, TablesOK DEF StepOK
<1>4. ~ WantsToTake(v, k) /\ pc[v] = "descend"
  BY <1>2, <1>3 DEF WantsToTake, WantsToRead
<1>5. l = "fid_cache"
  BY <1>1, <1>4 DEF MayRead
<1>6. reads[v]["fid_cache"] \in Nat /\ reads[v]["fid_cache"] < MaxDepth
  BY <1>4, <1>5 DEF LocksInv, TypeOK, GuardsMatch
<1>7. ~ WriterFirst
  BY <1>5, <1>6
<1> QED
  BY <1>4, <1>7

LEMMA InvImpliesNoCircle ==
  ASSUME LocksInv, WriterFirst => MaxDepth <= 1
  PROVE  NoCircle
<1> SUFFICES ASSUME NEW S \in SUBSET Workers, S # {},
                    \A w \in S : \E u \in S : u \in Blockers(w)
             PROVE  FALSE
  BY DEF NoCircle
<1>1. "name_lock" \in Locks
  BY DEF Locks
<1>2. \A l \in Locks : owner[l] \notin S
  <2> SUFFICES ASSUME NEW l \in Locks, owner[l] \in S PROVE FALSE
    OBVIOUS
  <2>1. PICK v \in S : v \in Blockers(owner[l])
    OBVIOUS
  <2>2. owner["name_lock"] = v
    BY <2>1, OwnerWaits
  <2>3. \A u \in Blockers(v) : "name_lock" = "fid_cache"
    BY <1>1, <2>2, OwnerWaits
  <2> QED
    BY <2>3
<1>3. ASSUME NEW v \in S, NEW l \in Locks, reads[v][l] > 0
      PROVE  FALSE
  BY <1>2, <1>3, ReaderWaits
<1>4. ASSUME NEW v \in S, NEW l \in Locks, WantsToTake(v, l)
      PROVE  FALSE
  <2>1. PICK u \in S : u \in Blockers(v)
    OBVIOUS
  <2>2. PICK k \in Locks : owner[k] = u \/ reads[u][k] > 0
    BY <1>4, <2>1, TakeOrRead DEF Blockers
  <2> QED
    BY <1>2, <1>3, <2>2
<1>5. PICK w \in S : TRUE
  OBVIOUS
<1>6. PICK v \in S : v \in Blockers(w)
  OBVIOUS
<1>7. PICK l \in Locks : owner[l] = v \/ reads[v][l] > 0 \/ v \in Waiting(l)
  BY <1>6 DEF Blockers
<1> QED
  BY <1>2, <1>3, <1>4, <1>7 DEF Waiting

(* No set of handlers is ever locked against itself: the orders of the     *)
(* comments at mod.rs:508 and 698 hold, unlock_name under fid_cache        *)
(* (mod.rs:1066) and the nested read locks of a search (mod.rs:218)        *)
(* included.  Where a writer that waits keeps readers out, this needs a    *)
(* tree so flat that no search takes a second read lock: every object is   *)
(* an entry of the root.                                                   *)
THEOREM NobodyWaitsInCircle ==
  ASSUME WriterFirst => MaxDepth <= 1
  PROVE  Spec => []NoCircle
<1>1. LocksInv => NoCircle
  BY InvImpliesNoCircle
<1> QED
  BY <1>1, LocksInvariant, PTL

=============================================================================
