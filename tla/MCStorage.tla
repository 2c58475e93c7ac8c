------------------------------ MODULE MCStorage ------------------------------
(* Small instances of Storage.  Files 1 (A/x) and 2 (A/y) exist.           *)
EXTENDS Storage, TLC

CONSTANTS A, B, x, y

Links == {<<A, 1, x>>, <<A, 2, y>>}

Ask(op, d, n, e, m, f) ==
    [op |-> op, dir |-> d, name |-> n, todir |-> e, toname |-> m, fid |-> f]

Create(d, n) == Ask("create", d, n, d, n, 1)
Remove(d, n) == Ask("remove", d, n, d, n, 1)
Rename(d, n, e, m) == Ask("rename", d, n, e, m, 1)
Write(f) == Ask("write", A, x, A, x, f)
Read(f) == Ask("read", A, x, A, x, f)

\* Names come and go, files move on to B, the file that is written and read
\* does not move but may be removed meanwhile.
AllRequests == {Create(A, x), Create(B, y), Remove(A, x), Remove(B, y),
                Rename(A, y, B, y), Write(1), Read(1)}

Sym == Permutations(Workers)

Writes == {Write(1)}

\* A rename within a directory, and a file that is written while it moves.
SameDir == {Rename(A, y, A, x), Remove(A, x)}
WriteMoved == {Write(1), Rename(A, x, B, x)}
=============================================================================
