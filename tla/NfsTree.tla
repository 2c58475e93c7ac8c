------------------------------ MODULE NfsTree -------------------------------
(***************************************************************************)
(* What clients of ZippyNFS are promised of its name space: a set of links *)
(* that create, mkdir, remove, rmdir and rename change in one step each.   *)
(* "Atomic" is meant as in the README: no state in between is observed,    *)
(* neither by concurrent operations nor after a crash.                     *)
(***************************************************************************)
CONSTANTS Files, Names, Root, Links0

VARIABLE links      \* <<d, n, f>>: file f has the name n in directory d

IsLinked(d) == d = Root \/ \E l \in links : l[3] = d

IsFree(d, n) == IsLinked(d) /\ \A l \in links : <<l[1], l[2]>> # <<d, n>>

Init == links = Links0

\* A new file gets a free name.
Create(d, n, f) ==
    /\ f # Root /\ \A l \in links : f \notin {l[1], l[3]}
    /\ IsFree(d, n)
    /\ links' = links \union {<<d, n, f>>}

\* A file, or a directory with nothing in it, loses its name.
Unlink(l) ==
    /\ \A k \in links : k[1] # l[3]
    /\ links' = links \ {l}

\* A file gets a free name and loses the old one at the same moment.
Rename(l, d, n) ==
    /\ IsFree(d, n)
    /\ d # l[3]
    /\ links' = (links \ {l}) \union {<<d, n, l[3]>>}

Next ==
    \/ \E d \in Files, n \in Names, f \in Files : Create(d, n, f)
    \/ \E l \in links : Unlink(l) \/ \E d \in Files, n \in Names : Rename(l, d, n)

Spec == Init /\ [][Next]_links
=============================================================================
