------------------------------ MODULE FreshIds ------------------------------
(***************************************************************************)
(* What the identifier generator of the ZippyNFS server promises: every    *)
(* number handed out is larger than all the numbers handed out before it,  *)
(* over the whole life of the data directory, crashes included.  FIDs are  *)
(* therefore never reused, and a server epoch, which is drawn from the     *)
(* same generator, is newer than any FID or epoch a client has seen.       *)
(***************************************************************************)
EXTENDS Naturals, Sequences

CONSTANT Ids        \* the numbers the generator may hand out

VARIABLE issued     \* the numbers handed out so far, in order

Init == issued = <<>>

Issue(n) ==
    /\ \A i \in 1 .. Len(issued) : issued[i] < n
    /\ issued' = Append(issued, n)

Next == \E n \in Ids : Issue(n)

Spec == Init /\ [][Next]_issued
=============================================================================
