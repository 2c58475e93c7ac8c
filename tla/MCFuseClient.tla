---------------------------- MODULE MCFuseClient ----------------------------
(* A small tree: the root holds directory 2 (d) and files 3 (x) and 4 (y). *)
EXTENDS FuseClient

CONSTANTS d, x, y, z, p

Numbered == [f \in Fid |-> IF f \in {2, 3, 4} THEN Root ELSE None]
NamedFiles == {<<1, d, 2>>, <<1, x, 3>>, <<1, y, 4>>}

\* p is a pattern: it matches x and y, as "f.o" matches "foo" and "fno".
Patterns == {<<n, n>> : n \in Names} \union {<<p, x>>, <<p, y>>}

Bytes(f) == IF f = 3 THEN 3 ELSE 0

\* Every callback; a directory moved into itself, a file renamed in its
\* directory; reads within the file and past its end.
Callbacks ==
    {Create(2, x), Mkdir(2, y), Unlink(1, x), Unlink(1, p), Rmdir(1, d),
     Rename(1, x, 2, x), Rename(1, d, 2, d), Rename(1, y, 1, z), Lookup(1, x),
     Setattr(3), Readdir(1), Read(3, 0, 2), Read(3, 1, 4)}

Others == {Create(1, z), Unlink(1, x), Rename(2, x, 1, x)}
=============================================================================
