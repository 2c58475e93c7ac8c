-------------------------- MODULE FidCounterProofs --------------------------
(***************************************************************************)
(* FidCounter proved for any set of workers, any initial value and any     *)
(* number of crashes: CounterInv is an invariant, every epoch is newer     *)
(* than all numbers returned before it, and the counter implements         *)
(* FreshIds.                                                               *)
(***************************************************************************)
EXTENDS FidCounter, TLAPS

LEMMA InitEstablishesCounterInv == Init => CounterInv
<1> SUFFICES ASSUME Init PROVE CounterInv
  OBVIOUS
<1> USE CounterAssumption DEF CounterAssumption, Init
<1>1. TypeOK
  <2>1. issued \in Seq(Nat)
    OBVIOUS
  <2>2. pc \in [Threads -> {"idle", "locked", "added", "flushed"}]
    OBVIOUS
  <2>3. val \in [Threads -> Nat]
    OBVIOUS
  <2> QED
    BY <2>1, <2>2, <2>3 DEF TypeOK
<1>2. Exclusive /\ InFlight
  BY DEF Exclusive, InFlight
<1>3. Durable
  BY DEF Durable
<1> QED
  BY <1>1, <1>2, <1>3 DEF CounterInv

(* Both kinds of crash leave mem at or above every number returned, since  *)
(* disk already is.                                                        *)
LEMMA RestartPreservesCounterInv ==
  ASSUME CounterInv, Restart, mem' \in {mem, disk}
  PROVE  CounterInv'
<1>1. TypeOK'
  <2>1. mem' \in Nat /\ disk' \in Nat /\ epoch' \in Nat /\ crashes' \in Nat
    BY DEF CounterInv, TypeOK, Restart
  <2>2. pc' \in [Threads -> {"idle", "locked", "added", "flushed"}]
    BY DEF Restart
  <2>3. val' \in [Threads -> Nat]
    BY DEF Restart
  <2>4. issued' \in Seq(Nat)
    BY DEF CounterInv, TypeOK, Restart
  <2> QED
    BY <2>1, <2>2, <2>3, <2>4 DEF TypeOK, Restart
<1>2. Exclusive' /\ InFlight'
  BY DEF CounterInv, TypeOK, Restart, Exclusive, InFlight
<1>3. Durable'
  BY DEF CounterInv, TypeOK, Restart, Durable
<1> QED
  BY <1>1, <1>2, <1>3 DEF CounterInv

LEMMA StepPreservesCounterInv == CounterInv /\ [Next]_vars => CounterInv'
<1> SUFFICES ASSUME CounterInv, [Next]_vars PROVE CounterInv'
  OBVIOUS
<1> USE CounterAssumption DEF CounterAssumption, CounterInv
<1>1. ASSUME NEW t \in Threads, Acquire(t) PROVE CounterInv'
  BY <1>1 DEF Acquire, MutexFree, TypeOK, Exclusive, InFlight, Durable
<1>2. ASSUME NEW t \in Threads, FetchAdd(t) PROVE CounterInv'
  <2> USE <1>2 DEF FetchAdd
  <2>1. TypeOK'
    BY DEF TypeOK
  <2>2. Exclusive'
    BY DEF TypeOK, Exclusive
  <2>3. InFlight'
    BY DEF TypeOK, Exclusive, InFlight, Durable
  <2>4. Durable'
    BY DEF TypeOK, Exclusive, Durable
  <2> QED
    BY <2>1, <2>2, <2>3, <2>4
<1>3. ASSUME NEW t \in Threads, Flush(t) PROVE CounterInv'
  <2> USE <1>3 DEF Flush
  <2>1. TypeOK' /\ Exclusive' /\ InFlight'
    BY DEF TypeOK, Exclusive, InFlight
  <2>2. Durable'
    BY DEF TypeOK, Durable
  <2> QED
    BY <2>1, <2>2
<1>4. ASSUME NEW t \in Threads, FlushFails(t) PROVE CounterInv'
  BY <1>4 DEF FlushFails, TypeOK, Exclusive, InFlight, Durable
<1>5. ASSUME NEW t \in Threads, Return(t) PROVE CounterInv'
  <2> USE <1>5 DEF Return
  <2>1. TypeOK'
    <3>1. issued' \in Seq(Nat)
      BY DEF TypeOK
    <3>2. mem' \in Nat /\ disk' \in Nat /\ epoch' \in Nat /\ crashes' \in Nat
      BY DEF TypeOK
    <3>3. up' \in BOOLEAN /\ poisoned' \in BOOLEAN
      BY DEF TypeOK
    <3>4. pc' \in [Threads -> {"idle", "locked", "added", "flushed"}]
      BY DEF TypeOK
    <3>5. lock' = NoThread /\ val' \in [Threads -> Nat]
      BY DEF TypeOK
    <3> QED
      BY <3>1, <3>2, <3>3, <3>4, <3>5 DEF TypeOK
  <2>2. Exclusive'
    BY DEF TypeOK, Exclusive
  <2>3. InFlight'
    BY DEF TypeOK, Exclusive, InFlight
  <2>4. Durable'
    BY DEF TypeOK, Exclusive, InFlight, Durable
  <2> QED
    BY <2>1, <2>2, <2>3, <2>4
<1>6. CASE WriteBack
  BY <1>6 DEF WriteBack, TypeOK, Exclusive, InFlight, Durable
<1>7. CASE Kill
  BY <1>7, RestartPreservesCounterInv DEF Kill
<1>8. CASE PowerFailure
  BY <1>8, RestartPreservesCounterInv DEF PowerFailure
<1>9. CASE UNCHANGED vars
  BY <1>9 DEF vars, TypeOK, Exclusive, InFlight, Durable
<1> QED
  BY <1>1, <1>2, <1>3, <1>4, <1>5, <1>6, <1>7, <1>8, <1>9 DEF Next

(* The inductive invariant of fetch_inc: one worker at a time between lock *)
(* and return, and no crash takes the counter back to a returned number.   *)
THEOREM CounterInvariant == Spec => []CounterInv
  BY InitEstablishesCounterInv, StepPreservesCounterInv, PTL DEF Spec

(* Only Return draws an epoch and adds to the numbers returned.            *)
LEMMA ChangeIsReturn ==
  ASSUME CounterInv, [Next]_vars,
         (~up /\ up') \/ issued' # issued
  PROVE  \E t \in Threads : Return(t)
  BY DEF Next, vars, Acquire, FetchAdd, Flush, FlushFails, WriteBack,
         Kill, PowerFailure, Restart

(* An epoch drawn by a server that starts (handler/mod.rs:92) is newer     *)
(* than every FID and epoch returned before it, over any crashes.          *)
THEOREM EpochIsNewest == Spec => EpochNewest
<1>1. CounterInv /\ [Next]_vars => [~up /\ up' => \A i \in 1 .. Len(issued) : issued[i] < epoch']_vars
  <2> SUFFICES ASSUME CounterInv, [Next]_vars, ~up, up'
               PROVE  \A i \in 1 .. Len(issued) : issued[i] < epoch'
    OBVIOUS
  <2>1. PICK t \in Threads : Return(t)
    BY ChangeIsReturn
  <2> QED
    BY <2>1 DEF CounterInv, InFlight, Return
<1> QED
  BY <1>1, CounterInvariant, PTL DEF Spec, EpochNewest

(* fetch_inc implements the abstract generator: every number it returns is *)
(* larger than all the numbers returned before.                            *)
THEOREM CounterImplementsFreshIds == Spec => Fresh!Spec
<1>1. Init => Fresh!Init
  BY DEF Init, Fresh!Init
<1>2. CounterInv /\ [Next]_vars => [Fresh!Next]_issued
  <2> SUFFICES ASSUME CounterInv, [Next]_vars, issued' # issued
               PROVE  Fresh!Next
    OBVIOUS
  <2>1. PICK t \in Threads : Return(t)
    BY ChangeIsReturn
  <2>2. Fresh!Issue(val[t])
    BY <2>1 DEF CounterInv, InFlight, Return, Fresh!Issue
  <2>3. val[t] \in Nat
    BY DEF CounterInv, TypeOK
  <2> QED
    BY <2>2, <2>3 DEF Fresh!Next
<1> QED
  BY <1>1, <1>2, CounterInvariant, PTL DEF Spec, Fresh!Spec
=============================================================================
