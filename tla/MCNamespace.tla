---------------------------- MODULE MCNamespace ----------------------------
(* Small file trees and request mixes for Namespace.                       *)
EXTENDS Namespace, TLC

WorkerSymmetry == Permutations(Workers)

Plain == {<<n, n>> : n \in Names}

Req(op, d, n, td, tn) ==
    [op |-> op, dir |-> d, name |-> n, todir |-> td, toname |-> tn,
     refused |-> FALSE]

Getattr(f)    == Req("getattr", f, "foo", f, "foo")
Lookup(d, n)  == Req("lookup", d, n, d, n)
Create(d, n)  == Req("create", d, n, d, n)
Mkdir(d, n)   == Req("mkdir", d, n, d, n)
Refused(r) == [r EXCEPT !.refused = TRUE]
Remove(d, n)  == Req("remove", d, n, d, n)
Rmdir(d, n)   == Req("rmdir", d, n, d, n)
Rename(d, n, td, tn) == Req("rename", d, n, td, tn)

(* Two directories side by side and a file in the first:                   *)
(*   1/2 "d1", 1/3 "d2", 1/2/4 "foo".                                      *)
D1 == 2
D2 == 3
File == 4

FlatNumbered == [f \in Fid |-> CASE f \in {D1, D2} -> Root
                                 [] f = File       -> D1
                                 [] OTHER          -> None]
FlatNamed == {<<Root, D1, "d1">>, <<Root, D2, "d2">>, <<D1, File, "foo">>}
FlatDirs == {Root, D1, D2}

(* A directory in a directory: 1/2 "a", 1/2/3 "b".                         *)
NestNumbered == [f \in Fid |-> CASE f = 2 -> Root
                                 [] f = 3 -> 2
                                 [] OTHER -> None]
NestNamed == {<<Root, 2, "a">>, <<2, 3, "b">>}
NestDirs == {Root, 2, 3}

(* The same with a file, 1/4 "foo", that is not on the way to the others.  *)
AsideNumbered == [NestNumbered EXCEPT ![4] = Root]
AsideNamed == NestNamed \union {<<Root, 4, "foo">>}

\* Every operation, both ways, on the flat tree; a name that matches another,
\* and the requests that fail with a name locked.
SeqRequests ==
    {Lookup(D1, "foo"), Getattr(File), Create(D1, "foo"), Create(D2, "bar"),
     Mkdir(D2, "foo"), Remove(D1, "foo"), Remove(D2, "bar"), Rmdir(D2, "foo"),
     Rename(D1, "foo", D2, "bar"), Rename(D2, "bar", D1, "foo"),
     Rename(Root, "d1", D2, "foo"), Rename(D2, "foo", Root, "d1"),
     Rename(Root, "d2", D2, "foo"), Remove(D1, "f.o"),
     Rename(Root, "d2", File, "bar"), Create(D2, "a("), Create(D1, "a|o"),
     Create(D2, "long"), Refused(Mkdir(Root, "bar"))}

\* Files move one way only, and directories stay.
OneWayRequests ==
    {Lookup(D1, "foo"), Create(D1, "foo"), Create(D2, "foo"), Remove(D1, "foo"),
     Remove(D2, "foo"), Rename(D1, "foo", D2, "foo")}

\* Directories move into each other, files are made and removed in them.
NestRequests ==
    {Getattr(4), Create(3, "foo"), Mkdir(3, "foo"), Refused(Mkdir(3, "a")),
     Remove(3, "foo"), Rmdir(2, "b"), Rename(2, "b", Root, "b"),
     Rename(Root, "b", 2, "b"), Rename(Root, "a", 3, "a")}

\* Everything but renames: what NamespaceAtomicProofs is about.
NoMoves ==
    {Getattr(3), Lookup(2, "b"), Lookup(3, "foo"), Create(3, "foo"),
     Create(2, "foo"), Create(4, "a"), Mkdir(3, "foo"), Mkdir(2, "b"),
     Refused(Mkdir(3, "a")), Remove(3, "foo"), Rmdir(2, "b"), Rmdir(3, "foo"),
     Rmdir(1, "a")}

\* A file renamed in its directory, and looked up.
SameDirRequests == {Lookup(D1, "foo"), Rename(D1, "foo", D1, "bar")}

\* A file renamed to and fro, by two clients.
ToAndFroRequests == {Rename(D1, "foo", D2, "foo"), Rename(D2, "foo", D1, "foo")}

\* The same, while a third request looks for the file.
WatchedRequests == ToAndFroRequests \union {Getattr(File)}

\* A file renamed away and back to another name, and a new one in between.
ReuseRequests == {Rename(D1, "foo", D2, "foo"), Rename(D2, "foo", D1, "bar"),
                  Create(D1, "foo")}

\* A file removed as soon as it has a name.
CreateRemoveRequests == {Create(D2, "foo"), Remove(D2, "foo")}

\* A name that is also a pattern: "f.o" matches "foo".  "a(" is none, and
\* "a|o" matches the end of "4.foo", so that no number is captured.
SeqNames == {"d1", "d2", "foo", "bar", "f.o", "a(", "a|o", "long"}
Unbalanced == {"a("}
Patterns == {e \in Plain : e[1] # "a("} \union {<<"f.o", "foo">>}
NoNumber == {<<"a|o", "foo">>, <<"a|o", "f.o">>}
TooLong == {"long"}
=============================================================================
