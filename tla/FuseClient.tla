----------------------------- MODULE FuseClient -------------------------------
(***************************************************************************)
(* The FUSE client (client/src/bin/client_fuse.rs) on the name space: one  *)
(* operation of the kernel at a time, each an RPC that do_with_retry sends *)
(* again after a transport error, though the server may have executed it;  *)
(* directories listed page by page with a position as the cookie; reads    *)
(* put together from parts.  A setattr sends the same attributes again, so *)
(* here it changes nothing.  Other clients, such as the command line       *)
(* client (client_cli.rs), send each RPC once.                             *)
(*                                                                         *)
(* The server executes requests one after the other, on its numbered and   *)
(* named files, and can crash between any two system calls of a handler;   *)
(* handlers that interleave are in Namespace.  A request that reached the  *)
(* server is executed or dropped before the client, which backs off for a  *)
(* second and more, sends it again.  Writes, flush and fsync are in        *)
(* WriteProtocol.                                                          *)
(***************************************************************************)
EXTENDS Integers, Sequences, FiniteSets

CONSTANTS
    MaxFid,         \* bound: FIDs are 1 .. MaxFid, and 1 is the root
    Names,          \* file names that the server can search for and store
    Like,           \* <<n, m>> \in Like: the pattern made of n matches m
    InitNumbered,   \* the file tree to start from: parent of each FID,
    InitNamed,      \* the named files, <<d, n, f>>,
    InitDirs,       \* the FIDs that are directories,
    FirstFree,      \* the next FID the counter returns
    Length(_),      \* Length(f): the bytes in file f
    MaxBufLen,      \* MAX_BUF_LEN, in bytes
    MaxEntries,     \* entries of a directory in MAX_BUF_LEN
    Requests,       \* what the kernel may ask of this client
    OtherRequests,  \* what other clients may ask
    ListDir,        \* the directory that is listed
    MaxTries,       \* MAX_TRIES
    MaxOps,         \* bound: operations of this client
    MaxOthers,      \* bound: requests of other clients
    MaxCrashes,     \* bound: crashes of the server
    MaxBreaks       \* bound: connections broken while the server runs

Fid == 1 .. MaxFid
Root == 1
None == 0

Creates == {"create", "mkdir"}
Deletes == {"remove", "rmdir"}
Changes == Creates \union Deletes \union {"rename"}
Ops == Changes \union {"lookup", "getattr", "setattr", "read", "readdir"}

\* (dir, name) is what is read or taken away, (todir, toname) what is put in
\* place, the same but for a rename; a read wants `count' bytes from `offset'
\* of file dir.
Request ==
    {r \in [op : Ops, dir : Fid, name : Names, todir : Fid, toname : Names,
            offset : Nat, count : Nat] :
        r.op # "rename" => r.todir = r.dir /\ r.toname = r.name}

\* The arguments of the callbacks.
Ask(op, d, n, e, m, o, c) ==
    [op |-> op, dir |-> d, name |-> n, todir |-> e, toname |-> m,
     offset |-> o, count |-> c]

OnName(op, parent, name) == Ask(op, parent, name, parent, name, 0, 0)
OnFile(op, ino) ==
    LET n == CHOOSE n \in Names : TRUE IN Ask(op, ino, n, ino, n, 0, 0)

Lookup(parent, name) == OnName("lookup", parent, name)
Mkdir(parent, name) == OnName("mkdir", parent, name)
Create(parent, name) == OnName("create", parent, name)
Unlink(parent, name) == OnName("remove", parent, name)
Rmdir(parent, name) == OnName("rmdir", parent, name)
Rename(parent, name, newparent, newname) ==
    Ask("rename", parent, name, newparent, newname, 0, 0)
Getattr(ino) == OnFile("getattr", ino)
Setattr(ino) == OnFile("setattr", ino)
Readdir(ino) == OnFile("readdir", ino)
Read(ino, offset, size) ==
    [OnFile("read", ino) EXCEPT !.offset = offset, !.count = size]

ASSUME ClientAssumption ==
    /\ Requests \union OtherRequests \subseteq Request
    /\ \A r \in OtherRequests : r.op \in Changes
    /\ \A r \in Requests : r.op = "readdir" => r.dir = ListDir
    /\ \A f \in Fid : Length(f) \in Nat
    /\ {MaxFid, FirstFree, MaxBufLen, MaxEntries, MaxTries} \subseteq Nat \ {0}
    /\ {MaxOps, MaxOthers, MaxCrashes, MaxBreaks} \subseteq Nat
    /\ Like \subseteq Names \X Names /\ ListDir \in Fid
    /\ InitNumbered \in [Fid -> Fid \union {None}]
    /\ InitNamed \subseteq Fid \X Names \X Fid
    /\ InitDirs \subseteq Fid /\ Root \in InitDirs

\* The tree to start from is one the server has left behind.
ASSUME TreeAssumption ==
    /\ InitNumbered[Root] = None
    /\ \A f \in Fid : f >= FirstFree => InitNumbered[f] = None
    /\ \A l \in InitNamed : l[3] < FirstFree
    /\ \A f \in InitDirs : f < FirstFree
    /\ \A l \in InitNamed : InitNumbered[l[3]] = l[1] =>
          /\ l[1] \in InitDirs
          /\ \/ l[1] = Root
             \/ \E k \in InitNamed : k[3] = l[1] /\ InitNumbered[l[1]] = k[1]

VARIABLES
    \* the server
    up,
    numbered,       \* numbered[f]: the directory that holds file f, or None
    named,          \* <<d, n, f>>: there is a file d/f.n
    dirs,           \* the FIDs that are directories
    nextFid,        \* what the counter holds
    \* the client
    cpc,            \* "idle", "try", "sent" or "replied"
    req,            \* the operation, or the last one
    tries,          \* attempts that failed
    answer,         \* the server's reply, when it has one on its way
    result,         \* what the kernel was told
    buf,            \* read: the bytes so far, each as its position
    cookie,         \* readdir: where the kernel goes on
    \* observations
    before,         \* the links when the operation started
    alone,          \* no other client has changed it since
    listed,         \* the entries the kernel got since cookie 0
    expected,       \* the entries there were at cookie 0
    grows,          \* since then only new files came to the directory
    ended,          \* the kernel has got an empty page
    nops, others, crashes, breaks

disk == <<numbered, named, dirs, nextFid>>
server == <<up, disk>>
client == <<cpc, req, tries, answer, result, buf, cookie>>
observed == <<before, alone, listed, expected, grows, ended>>
bounds == <<nops, others, crashes, breaks>>
vars == <<server, client, observed, bounds>>

\* What clients see: <<d, n, f>>, file f has the name n in directory d.
links == {l \in named : numbered[l[3]] = l[1]}

Entries(L) == {l \in L : l[1] = ListDir}

\* Every file listed has one name in the directory.
OneName(L) == \A l, k \in Entries(L) : l[3] = k[3] => l = k

NoAnswer == [err |-> "none"]

Init ==
    /\ up = TRUE
    /\ numbered = InitNumbered /\ named = InitNamed /\ dirs = InitDirs
    /\ nextFid = FirstFree
    /\ cpc = "idle" /\ req = [op |-> "none"] /\ tries = 0
    /\ answer = NoAnswer /\ result = NoAnswer /\ buf = <<>> /\ cookie = 0
    /\ before = links /\ alone = TRUE
    /\ listed = <<>> /\ expected = {} /\ grows = OneName(links)
    /\ ended = FALSE
    /\ nops = 0 /\ others = 0 /\ crashes = 0 /\ breaks = 0

-----------------------------------------------------------------------------
(* The server's files, and what the handlers answer.                       *)

IsLinked(d) == d = Root \/ \E l \in links : l[3] = d

\* read_dir finds nothing, left-over files included.
IsEmpty(d) == /\ \A f \in Fid : numbered[f] # d
              /\ \A l \in named : l[1] # d

\* Is directory t the file f, or somewhere below it?
Below(t, f) ==
    \A S \in SUBSET dirs :
        t \in S /\ (\A g \in S : numbered[g] # None => numbered[g] \in S) => f \in S

\* fs_find_by_name: the files that the search for a name may return.
Matches(d, n) == {l[3] : l \in {k \in links : k[1] = d /\ <<n, k[2]>> \in Like}}

ByName == Deletes \union {"lookup", "rename"}

Named(r) == IF r.op \in ByName /\ Matches(r.dir, r.name) # {}
            THEN Matches(r.dir, r.name) ELSE {None}

NameInUse_NotChecked(r) == FALSE

NameInUse(r) == Matches(r.todir, r.toname) # {}

\* The checks of the handlers, in their order, and their answers, when the
\* search has found file f.
CreateError(r) ==
    IF ~IsLinked(r.todir) THEN "STALE"
    ELSE IF r.todir \notin dirs THEN "NOTDIR"
    ELSE IF NameInUse(r) THEN "EXIST" ELSE "OK"

RemoveError(r, f) ==
    IF ~IsLinked(r.dir) THEN "STALE"
    ELSE IF r.dir \notin dirs THEN "NOTDIR"
    ELSE IF f = None THEN "NOENT"
    ELSE IF f \in dirs THEN "ISDIR" ELSE "OK"

RmdirError(r, f) ==
    IF ~IsLinked(r.dir) THEN "STALE"
    ELSE IF r.dir \notin dirs THEN "NOTDIR"
    ELSE IF f = None THEN "NOENT"
    ELSE IF f \notin dirs THEN "NOTDIR"
    ELSE IF ~IsEmpty(f) THEN "NOTEMPTY" ELSE "OK"

\* rename(2) refuses to move a directory below itself, which is no NFS error.
RenameError(r, f) ==
    IF ~IsLinked(r.dir) \/ ~IsLinked(r.todir) THEN "STALE"
    ELSE IF f = None THEN "NOENT"
    ELSE IF NameInUse(r) THEN "EXIST"
    ELSE IF r.dir # r.todir /\ Below(r.todir, f) THEN "other" ELSE "OK"

LookupError(r, f) ==
    IF ~IsLinked(r.dir) THEN "STALE"
    ELSE IF r.dir \notin dirs THEN "NOTDIR"
    ELSE IF f = None THEN "NOENT" ELSE "OK"

AttrError(r) == IF ~IsLinked(r.dir) THEN "STALE" ELSE "OK"

ReadError(r) ==
    IF ~IsLinked(r.dir) THEN "STALE"
    ELSE IF r.dir \in dirs THEN "ISDIR" ELSE "OK"

ListError(r) ==
    IF ~IsLinked(r.dir) THEN "STALE"
    ELSE IF r.dir \notin dirs THEN "NOTDIR" ELSE "OK"

Error(r, f) ==
    CASE r.op \in Creates -> CreateError(r)
      [] r.op = "remove"  -> RemoveError(r, f)
      [] r.op = "rmdir"   -> RmdirError(r, f)
      [] r.op = "rename"  -> RenameError(r, f)
      [] r.op = "lookup"  -> LookupError(r, f)
      [] r.op = "read"    -> ReadError(r)
      [] r.op = "readdir" -> ListError(r)
      [] OTHER            -> AttrError(r)

Least(a, b) == IF a <= b THEN a ELSE b

NewestFirst(S) ==
    [i \in 1 .. Cardinality(S) |->
        CHOOSE f \in {l[3] : l \in S} :
            /\ Cardinality({l \in S : l[3] > f}) < i
            /\ i <= Cardinality({l \in S : l[3] >= f})]

\* contents.sort_unstable_by: the FIDs of the entries, in order.
InOrder(S) ==
    [i \in 1 .. Cardinality(S) |->
        CHOOSE f \in {l[3] : l \in S} :
            /\ Cardinality({l \in S : l[3] < f}) < i
            /\ i <= Cardinality({l \in S : l[3] <= f})]

\* handle_readdir: the entries after the first `offset', as many as fit.
Page(offset) ==
    LET all == InOrder(Entries(links)) IN
    SubSeq(all, offset + 1, Least(Len(all), offset + MaxEntries))

Part_SameOffset(r) ==
    LET to == Least(Length(r.dir), r.offset + Least(r.count - Len(buf), MaxBufLen))
    IN [i \in 1 .. to - r.offset |-> r.offset + i]

\* handle_read: read_at into a buffer of bounded size.
Part(r) ==
    LET from == r.offset + Len(buf)
        to == Least(Length(r.dir), from + Least(r.count - Len(buf), MaxBufLen))
    IN [i \in 1 .. to - from |-> from + i]

Reply(r, f) ==
    CASE r.op = "readdir" -> [err |-> "OK", page |-> Page(cookie)]
      [] r.op = "read"    -> [err |-> "OK", part |-> Part(r)]
      [] r.op = "lookup"  -> [err |-> "OK", fid |-> f]
      [] OTHER            -> [err |-> "OK"]

-----------------------------------------------------------------------------
(* What the handlers do to the files: the states after their system calls. *)

Files(nu, na) == [numbered |-> nu, named |-> na]

CreateSteps(r) ==
    LET nu == [numbered EXCEPT ![nextFid] = r.todir] IN
    <<Files(nu, named), Files(nu, named \union {<<r.todir, r.toname, nextFid>>})>>

\* The named file that goes is the one with the name the client gave.
DeleteSteps(r, f) ==
    LET nu == [numbered EXCEPT ![f] = None] IN
    <<Files(nu, named), Files(nu, named \ {<<r.dir, r.name, f>>})>>

RenameSteps(r, f) ==
    LET na == named \union {<<r.todir, r.toname, f>>}
        nu == [numbered EXCEPT ![f] = r.todir]
    IN <<Files(numbered, na), Files(nu, na), Files(nu, na \ {<<r.dir, r.name, f>>})>>

Steps(r, f) == CASE r.op \in Creates -> CreateSteps(r)
                 [] r.op \in Deletes -> DeleteSteps(r, f)
                 [] OTHER            -> RenameSteps(r, f)

\* The handler of request r has got as far as its i-th system call.
Reached(r, f, i) ==
    /\ numbered' = Steps(r, f)[i].numbered /\ named' = Steps(r, f)[i].named
    /\ IF r.op \in Creates
       THEN /\ nextFid <= MaxFid
            /\ nextFid' = nextFid + 1
            /\ dirs' = IF r.op = "mkdir" THEN dirs \union {nextFid} ELSE dirs
       ELSE UNCHANGED <<dirs, nextFid>>

\* The old named file is not there under the name the client gave, and the
\* last remove_file fails: the search has found another name.
NoOldName(r, f) ==
    r.op \in Deletes \union {"rename"} /\ <<r.dir, r.name, f>> \notin named

\* A rename that rename(2) refuses leaves the new named file behind.
Change(r, f) ==
    CASE r.op \in Changes /\ Error(r, f) = "OK" -> Reached(r, f, Len(Steps(r, f)))
      [] r.op = "rename" /\ Error(r, f) = "other" -> Reached(r, f, 1)
      [] OTHER -> UNCHANGED disk

Answer(r, f) ==
    IF Error(r, f) # "OK" THEN [err |-> Error(r, f)]
    ELSE IF NoOldName(r, f) THEN [err |-> "other"] ELSE Reply(r, f)

\* A crash: the handler does not get to its last system call.
Cut(r) ==
    /\ r.op \in Changes
    /\ \E f \in Named(r) : /\ Error(r, f) = "OK"
                           /\ \E i \in 1 .. Len(Steps(r, f)) - 1 : Reached(r, f, i)

FidsIn(L) == {l[3] : l \in Entries(L)}

\* New files come last in a listing, since FIDs grow.
Grew ==
    LET old == FidsIn(links)
        new == FidsIn(links')
    IN /\ old \subseteq new /\ \A f \in new \ old, g \in old : g < f
       /\ OneName(links')

-----------------------------------------------------------------------------
(* The client.                                                             *)

\* A callback of FUSE.  The kernel renames between directories only; readdir
\* starts over at 0, or goes on at the cookie.
Start ==
    /\ cpc = "idle" /\ nops < MaxOps
    /\ nops' = nops + 1
    /\ req' \in Requests
    /\ req'.op = "rename" => {req'.dir, req'.todir} \subseteq dirs
    /\ cpc' = "try" /\ tries' = 0 /\ result' = NoAnswer /\ buf' = <<>>
    /\ before' = links /\ alone' = TRUE
    /\ IF req'.op = "readdir" /\ (ended \/ cookie = 0)
       THEN /\ cookie' = 0 /\ listed' = <<>> /\ ended' = FALSE
            /\ expected' = FidsIn(links) /\ grows' = OneName(links)
       ELSE UNCHANGED <<cookie, listed, ended, expected, grows>>
    /\ UNCHANGED <<server, answer, others, crashes, breaks>>

Return(res) == cpc' = "idle" /\ result' = res

CanTry_Always == TRUE

CanTry == tries < MaxTries

\* An attempt, when the server can be reached.
Send ==
    /\ cpc = "try" /\ CanTry /\ up
    /\ cpc' = "sent"
    /\ UNCHANGED <<server, req, tries, answer, result, buf, cookie, observed,
                   bounds>>

\* A transport error: back off, connect again, and try again.
Failed ==
    /\ cpc' = "try" /\ answer' = NoAnswer
    /\ tries' = Least(tries + 1, MaxTries)
    /\ UNCHANGED <<req, result, buf, cookie>>

Refused ==
    /\ cpc = "try" /\ CanTry /\ ~up
    /\ Failed
    /\ UNCHANGED <<server, observed, bounds>>

GiveUp_Silently ==
    /\ cpc = "try" /\ ~CanTry
    /\ Return([err |-> "OK"])
    /\ UNCHANGED <<server, req, tries, answer, buf, cookie, observed, bounds>>

\* Too many attempts.
GiveUp ==
    /\ cpc = "try" /\ ~CanTry
    /\ Return([err |-> "EIO"])
    /\ UNCHANGED <<server, req, tries, answer, buf, cookie, observed, bounds>>

Execute ==
    /\ cpc = "sent" /\ up
    /\ \E f \in Named(req) : Change(req, f) /\ answer' = Answer(req, f)
    /\ grows' = (grows /\ Grew)
    /\ cpc' = "replied"
    /\ UNCHANGED <<up, req, tries, result, buf, cookie, before, alone, listed,
                   expected, ended, bounds>>

\* The request is lost, or the reply to it.
Break ==
    /\ cpc \in {"sent", "replied"}
    /\ breaks < MaxBreaks
    /\ breaks' = breaks + 1
    /\ Failed
    /\ UNCHANGED <<server, observed, nops, others, crashes>>

\* The macro errors!: what the application sees of an error.
Errno == [STALE |-> "ENOENT", NOENT |-> "ENOENT", NOTEMPTY |-> "ENOTEMPTY",
          ISDIR |-> "EISDIR", NOTDIR |-> "ENOTDIR", EXIST |-> "EEXIST",
          other |-> "EAGAIN"]

ToKernel(reply) == IF reply.err = "OK" THEN reply ELSE [err |-> Errno[reply.err]]

\* Most callbacks pass the reply on.
Receive ==
    /\ cpc = "replied"
    /\ answer.err = "OK" => req.op \notin {"read", "readdir"}
    /\ Return(ToKernel(answer))
    /\ answer' = NoAnswer
    /\ UNCHANGED <<server, req, tries, buf, cookie, observed, bounds>>

\* The end of the file, or all that was asked for.
ReadOver(part) == part = <<>> \/ Len(buf) + Len(part) = req.count

\* read: part after part, each with its own do_with_retry.
ReceivePart ==
    /\ cpc = "replied" /\ answer.err = "OK" /\ req.op = "read"
    /\ buf' = buf \o answer.part
    /\ IF ReadOver(answer.part)
       THEN Return([err |-> "OK"]) /\ UNCHANGED tries
       ELSE cpc' = "try" /\ tries' = 0 /\ UNCHANGED result
    /\ answer' = NoAnswer
    /\ UNCHANGED <<server, req, cookie, observed, bounds>>

Cookie_OffByOne(k) == cookie + k - 1

\* The cookie of the k-th entry of a page.
Cookie(k) == cookie + k

\* readdir: entries go to the kernel until its buffer is full; it goes on
\* with the cookie of the last one.
ReceivePage ==
    /\ cpc = "replied" /\ answer.err = "OK" /\ req.op = "readdir"
    /\ \/ /\ answer.page = <<>>
          /\ ended' = TRUE
          /\ UNCHANGED <<listed, cookie>>
       \/ \E k \in 1 .. Len(answer.page) :
             /\ listed' = listed \o SubSeq(answer.page, 1, k)
             /\ cookie' = Cookie(k)
             /\ UNCHANGED ended
    /\ Return([err |-> "OK"])
    /\ answer' = NoAnswer
    /\ UNCHANGED <<server, req, tries, buf, before, alone, expected, grows,
                   bounds>>

-----------------------------------------------------------------------------
(* Other clients, and failures.                                            *)

Other ==
    /\ up /\ others < MaxOthers
    /\ others' = others + 1
    /\ \E r \in OtherRequests : \E f \in Named(r) :
          Error(r, f) = "OK" /\ Change(r, f)
    /\ alone' = FALSE
    /\ grows' = (grows /\ Grew)
    /\ UNCHANGED <<up, client, before, listed, expected, ended, nops, crashes,
                   breaks>>

\* Between requests, or within one of this client or of another.
Crash ==
    /\ up /\ crashes < MaxCrashes
    /\ crashes' = crashes + 1
    /\ up' = FALSE
    /\ \/ UNCHANGED <<disk, alone, others>>
       \/ cpc = "sent" /\ Cut(req) /\ UNCHANGED <<alone, others>>
       \/ /\ others < MaxOthers /\ others' = others + 1
          /\ \E r \in OtherRequests : Cut(r)
          /\ alone' = FALSE
    /\ grows' = (grows /\ Grew)
    /\ IF cpc \in {"sent", "replied"} THEN Failed ELSE UNCHANGED client
    /\ UNCHANGED <<before, listed, expected, ended, nops, breaks>>

Restart ==
    /\ ~up
    /\ up' = TRUE
    /\ UNCHANGED <<disk, client, observed, bounds>>

Receiving == Receive \/ ReceivePart \/ ReceivePage

Next ==
    \/ Start \/ Send \/ Refused \/ GiveUp \/ Execute \/ Break \/ Receiving
    \/ Other \/ Crash \/ Restart

Spec == Init /\ [][Next]_vars

(* The client is a loop, and a server that is up executes what it gets.    *)
(* Nobody need start a crashed server again.                               *)
FairSpec ==
    /\ Spec
    /\ WF_vars(Send \/ Refused \/ GiveUp \/ Receiving)
    /\ WF_vars(Execute)

-----------------------------------------------------------------------------
(* Properties.                                                             *)

\* The names of request r are not patterns that match others, and no two
\* files have the name to begin with.
Literal(n) == \A m \in Names : <<n, m>> \in Like <=> m = n

Clear(r, L) ==
    /\ Literal(r.name) /\ Literal(r.toname)
    /\ \A l, k \in L : {<<l[1], l[2]>>, <<k[1], k[2]>>} = {<<r.dir, r.name>>} => l = k

Except(f, L) == {l \in L : l[3] # f}

\* What one execution of request r makes of the links L: a new file, a file
\* gone with all its names, or one file moved to its new name.
Once(r, L, M) ==
    \/ /\ r.op \in Creates
       /\ \E f \in Fid : /\ L = Except(f, L)
                         /\ M = L \union {<<r.todir, r.toname, f>>}
    \/ /\ r.op \in Deletes
       /\ \E f \in Fid : <<r.dir, r.name, f>> \in L /\ M = Except(f, L)
    \/ /\ r.op = "rename"
       /\ \E f \in Fid : /\ <<r.dir, r.name, f>> \in L /\ Except(f, M) = Except(f, L)
                         /\ <<r.todir, r.toname, f>> \in M
                         /\ <<r.dir, r.name, f>> \notin M

\* A rename within a directory, cut off by a crash: the file has both names.
Half(r, L, M) ==
    /\ r.op = "rename" /\ r.dir = r.todir
    /\ \E f \in Fid : /\ <<r.dir, r.name, f>> \in L
                      /\ M = L \union {<<r.todir, r.toname, f>>}

\* The operation is one the properties speak of: no other client changes the
\* tree, and it is clear which file is meant.
Undisturbed == req.op # "none" /\ alone /\ Clear(req, before)

(* However often do_with_retry sends a request (client_fuse.rs:106-152),   *)
(* whatever it answers in the end, and wherever in the handler the server  *)
(* crashes, the request takes effect once or not at all; but a rename      *)
(* within a directory may leave the file with both names.                  *)
AtMostOnce ==
    Undisturbed =>
        \/ links = before
        \/ Once(req, before, links) \/ Half(req, before, links)

Truthful(res) ==
    /\ res.err = "OK" /\ req.op \in Changes => Once(req, before, links)
    /\ res.err = "OK" /\ req.op = "lookup" =>
          <<req.dir, req.name, res.fid>> \in links
    /\ res.err = "EEXIST" => \E f \in Fid : <<req.todir, req.toname, f>> \in links
    /\ res.err = "ENOENT" /\ req.op \in Deletes \union {"lookup"} =>
          \A f \in Fid : <<req.dir, req.name, f>> \notin links
    /\ res.err # "OK" /\ tries = 0 => links = before

(* What the application is told is true at that moment, after retries too: *)
(* success means the change was made or the name found, EEXIST that the    *)
(* name is there, ENOENT that it is not, and an error that came without a  *)
(* transport error that nothing was changed.                               *)
AnswerTrue == cpc = "idle" /\ Undisturbed => Truthful(result)

(* readdir and its cookies (client_fuse.rs:571-587, mod.rs:1172-1199): a   *)
(* directory that only gets new files while it is listed is listed with    *)
(* every file it had at first, and no file twice.                          *)
ListingComplete ==
    ended /\ grows =>
        /\ \A f \in expected : \E i \in DOMAIN listed : listed[i] = f
        /\ \A i, k \in DOMAIN listed : listed[i] = listed[k] => i = k

(* read returns the bytes asked for, in order, each once, up to the end of *)
(* the file (client_fuse.rs:516-542).                                      *)
ReadExact ==
    cpc = "idle" /\ req.op = "read" /\ result.err = "OK" =>
        LET to == Least(Length(req.dir), req.offset + req.count) IN
        buf = [i \in 1 .. to - req.offset |-> req.offset + i]

(* Every operation returns, with EIO at the latest, even when the server   *)
(* stays down (client_fuse.rs:112, 139-147).                               *)
OpReturns == cpc # "idle" ~> cpc = "idle"
-----------------------------------------------------------------------------
(* What holds in every state.                                              *)

\* The server's files: FIDs not given out are in use nowhere, and every
\* directory that clients see something in has a name.
TreeOK ==
    /\ numbered \in [Fid -> Fid \union {None}] /\ numbered[Root] = None
    /\ named \subseteq Fid \X Names \X Fid
    /\ nextFid \in Nat /\ dirs \subseteq Fid /\ Root \in dirs
    /\ \A f \in Fid : f >= nextFid => numbered[f] = None
    /\ \A l \in named : l[3] < nextFid
    /\ \A f \in dirs : f < nextFid
    /\ \A l \in links : l[1] \in dirs /\ IsLinked(l[1])

ClientOK ==
    /\ cpc \in {"idle", "try", "sent", "replied"} /\ tries \in 0 .. MaxTries
    /\ req \in Requests \union {[op |-> "none"]}
    /\ req.op = "none" => cpc = "idle"
    /\ alone \in BOOLEAN /\ grows \in BOOLEAN /\ cookie \in Nat
    /\ cpc = "replied" => answer.err \in DOMAIN Errno \union {"OK"}

\* An operation that has met no transport error and has no reply changed
\* nothing; and the reply on its way is as true as the one that returned.
ReplyTrue ==
    Undisturbed =>
        /\ cpc \in {"try", "sent"} /\ tries = 0 => links = before
        /\ cpc = "replied" => Truthful(ToKernel(answer))

\* A read has the first bytes, and is not over.
ReadOK ==
    req.op = "read" =>
        /\ Len(buf) \in 0 .. req.count
        /\ buf = [i \in 1 .. Len(buf) |-> req.offset + i]
        /\ Len(buf) > 0 => req.offset + Len(buf) <= Length(req.dir)
        /\ cpc = "replied" /\ answer.err = "OK" => answer.part = Part(req)

All == InOrder(Entries(links))

Covered == \A f \in expected : \E i \in 1 .. cookie : All[i] = f

\* While the directory grows, its listing is a beginning of it, the next page
\* goes on from there, and the files of the start come before any other.
ListOK ==
    grows =>
        /\ OneName(links) /\ expected \subseteq FidsIn(links)
        /\ cookie \in 0 .. Len(All) /\ listed = SubSeq(All, 1, cookie)
        /\ ended => Covered
        /\ cpc = "replied" /\ req.op = "readdir" /\ answer.err = "OK" =>
              \E to \in cookie .. Len(All) :
                  /\ answer.page = SubSeq(All, cookie + 1, to)
                  /\ to = cookie => Covered

ClientInv == TreeOK /\ ClientOK /\ ReplyTrue /\ ReadOK /\ ListOK
=============================================================================
