-------------------------- MODULE FuseClientProofs ---------------------------
(***************************************************************************)
(* FuseClient proved for any tree, any requests of the kernel and of other *)
(* clients, any relation between names and what they match, any lengths of *)
(* files, buffers and pages, and any number of retries, crashes (within a  *)
(* handler too) and broken connections: a request that no other client     *)
(* disturbs and whose names are clear takes effect at most once, or half   *)
(* when it renames within a directory, and what the kernel is told of it   *)
(* is true; a read is exact, and a growing directory is listed completely. *)
(***************************************************************************)
EXTENDS FuseClient, FiniteNumbers

USE DEF Fid

-----------------------------------------------------------------------------
(* Directories in order.                                                   *)

LEMMA FidsAreFinite ==
  ASSUME NEW S \in SUBSET Fid
  PROVE  IsFiniteSet(S) /\ Cardinality(S) \in Nat /\ \A f \in S : f \in Nat
<1>1. MaxFid \in Nat
  BY ClientAssumption DEF ClientAssumption
<1>2. IsFiniteSet(Fid)
  BY <1>1, FS_Interval
<1>3. IsFiniteSet(S)
  BY <1>2, FS_Subset
<1>4. \A f \in S : f \in Nat
  BY <1>1
<1> QED
  BY <1>3, <1>4, FS_CardinalityType

LEMMA Ranks ==
  ASSUME NEW S \in SUBSET Fid
  PROVE  /\ \A f \in S : Rank(S, f) \in 1 .. Cardinality(S)
         /\ \A f, g \in S : Rank(S, f) = Rank(S, g) => f = g
         /\ \A i \in 1 .. Cardinality(S) : \E f \in S : Rank(S, f) = i
<1>1. MaxFid \in Nat
  BY ClientAssumption DEF ClientAssumption
<1> QED
  BY <1>1, RankType, RankIsInjective, RankIsSurjective

FidsOf(S) == {l[3] : l \in S}

\* No file is listed twice.
Single(S) == \A l, k \in S : l[3] = k[3] => l = k

(* Entries that name different files are as many as the files.             *)
LEMMA AsManyFiles ==
  ASSUME NEW S, FidsOf(S) \subseteq Fid, Single(S)
  PROVE  Cardinality(S) = Cardinality(FidsOf(S))
<1> DEFINE F == FidsOf(S)
           h == [f \in F |-> CHOOSE l \in S : l[3] = f]
<1>1. \A f \in F : h[f] \in S /\ h[f][3] = f
  BY DEF FidsOf
<1>2. \A l \in S : l[3] \in F /\ h[l[3]] = l
  BY <1>1 DEF FidsOf, Single
<1> HIDE DEF F
<1>3. h \in Bijection(F, S)
  <2>1. h \in [F -> S]
    BY <1>1
  <2>2. \A f, g \in F : h[f] = h[g] => f = g
    BY <1>1
  <2>3. \A l \in S : \E f \in F : h[f] = l
    BY <1>2
  <2> HIDE DEF h
  <2> QED
    BY <2>1, <2>2, <2>3 DEF Bijection, Injection, Surjection, IsInjective
<1>4. ExistsBijection(F, S)
  BY <1>3 DEF ExistsBijection
<1>5. IsFiniteSet(F)
  BY FidsAreFinite DEF F
<1> QED
  BY <1>4, <1>5, FS_Bijection DEF F

(* A file has its place in the listing by its rank.                        *)
LEMMA PlaceIsRank ==
  ASSUME NEW S, FidsOf(S) \subseteq Fid, Single(S), NEW f \in FidsOf(S), NEW i \in Nat
  PROVE  /\ Cardinality({l \in S : l[3] < f}) < i
         /\ i <= Cardinality({l \in S : l[3] <= f})
         <=> Rank(FidsOf(S), f) = i
<1> DEFINE F == FidsOf(S)
           A == {l \in S : l[3] < f}  B == {l \in S : l[3] <= f}
           C == {g \in F : g < f}     D == {g \in F : g <= f}
<1>1. FidsOf(A) = C /\ FidsOf(B) = D
  BY DEF FidsOf
<1>2. F \subseteq Fid /\ f \in F
  OBVIOUS
<1>3. Single(A) /\ Single(B)
  BY DEF Single
<1>4. C \subseteq Fid /\ D \subseteq Fid
  BY <1>2
<1> HIDE DEF A, B, C, D
<1>5. Cardinality(A) = Cardinality(C) /\ Cardinality(B) = Cardinality(D)
  BY <1>1, <1>3, <1>4, AsManyFiles
<1>6. \A g \in F : g \in Nat
  BY <1>2, FidsAreFinite
<1>7. D = C \union {f} /\ f \notin C
  BY <1>2, <1>6 DEF C, D
<1>8. IsFiniteSet(C) /\ Cardinality(C) \in Nat
  BY <1>4, FidsAreFinite
<1>9. Cardinality(D) = Cardinality(C) + 1
  BY <1>7, <1>8, FS_AddElement
<1>10. Rank(F, f) = Cardinality(D)
  BY DEF Rank, D
<1> HIDE DEF F
<1>11. Cardinality(A) < i /\ i <= Cardinality(B) <=> Rank(F, f) = i
  BY <1>5, <1>8, <1>9, <1>10
<1> QED
  BY <1>11 DEF A, B, F

(* contents.sort_unstable_by (mod.rs): every file once, at its rank.       *)
LEMMA InOrderFacts ==
  ASSUME NEW S, FidsOf(S) \subseteq Fid, Single(S)
  PROVE  /\ InOrder(S) \in Seq(FidsOf(S))
         /\ Len(InOrder(S)) = Cardinality(FidsOf(S))
         /\ \A i \in 1 .. Cardinality(FidsOf(S)) :
               InOrder(S)[i] \in FidsOf(S) /\ Rank(FidsOf(S), InOrder(S)[i]) = i
         /\ \A f \in FidsOf(S) : InOrder(S)[Rank(FidsOf(S), f)] = f
<1> DEFINE F == FidsOf(S)
<1>1. Cardinality(F) \in Nat /\ Cardinality(S) = Cardinality(F)
  BY FidsAreFinite, AsManyFiles
<1>2. ASSUME NEW i \in 1 .. Cardinality(F)
      PROVE  InOrder(S)[i] \in F /\ Rank(F, InOrder(S)[i]) = i
  <2> DEFINE P(f) == /\ Cardinality({l \in S : l[3] < f}) < i
                     /\ i <= Cardinality({l \in S : l[3] <= f})
  <2>1. \A f \in F : P(f) <=> Rank(F, f) = i
    BY <1>1, PlaceIsRank
  <2>2. \E f \in F : Rank(F, f) = i
    BY Ranks
  <2>3. InOrder(S)[i] = CHOOSE f \in F : P(f)
    BY <1>1 DEF InOrder, FidsOf
  <2> HIDE DEF P, F
  <2> QED
    BY <2>1, <2>2, <2>3
<1>3. InOrder(S) = [i \in 1 .. Cardinality(F) |-> InOrder(S)[i]]
  <2> DEFINE e(i) == CHOOSE f \in {l[3] : l \in S} :
                        /\ Cardinality({l \in S : l[3] < f}) < i
                        /\ i <= Cardinality({l \in S : l[3] <= f})
  <2>1. InOrder(S) = [i \in 1 .. Cardinality(S) |-> e(i)]
    BY Zenon DEF InOrder
  <2> HIDE DEF F, e
  <2> QED
    BY <1>1, <2>1
<1> HIDE DEF F
<1>4. InOrder(S) \in [1 .. Cardinality(F) -> F]
  BY <1>2, <1>3
<1>5. InOrder(S) \in Seq(F) /\ Len(InOrder(S)) = Cardinality(F)
  BY <1>1, <1>4
<1>6. ASSUME NEW f \in F PROVE InOrder(S)[Rank(F, f)] = f
  <2>1. Rank(F, f) \in 1 .. Cardinality(F)
    BY Ranks DEF F
  <2>2. InOrder(S)[Rank(F, f)] \in F
        /\ Rank(F, InOrder(S)[Rank(F, f)]) = Rank(F, f)
    BY <1>2, <2>1
  <2> QED
    BY <2>2, Ranks DEF F
<1> QED
  BY <1>2, <1>5, <1>6 DEF F

(* New files that come last leave the places of the others alone.          *)
LEMMA InOrderGrows ==
  ASSUME NEW S, FidsOf(S) \subseteq Fid, Single(S),
         NEW T, FidsOf(T) \subseteq Fid, Single(T),
         FidsOf(S) \subseteq FidsOf(T),
         \A f \in FidsOf(T) \ FidsOf(S), g \in FidsOf(S) : g < f
  PROVE  /\ Len(InOrder(S)) <= Len(InOrder(T))
         /\ \A i \in 1 .. Len(InOrder(S)) : InOrder(T)[i] = InOrder(S)[i]
<1> DEFINE F == FidsOf(S)  G == FidsOf(T)
<1>1. F \subseteq G /\ F \subseteq Fid /\ G \subseteq Fid
      /\ \A f \in G \ F, g \in F : g < f
  OBVIOUS
<1>2. /\ Len(InOrder(S)) = Cardinality(F) /\ Len(InOrder(T)) = Cardinality(G)
      /\ \A i \in 1 .. Cardinality(F) : /\ InOrder(S)[i] \in F
                                        /\ Rank(F, InOrder(S)[i]) = i
      /\ \A f \in G : InOrder(T)[Rank(G, f)] = f
  BY InOrderFacts
<1> HIDE DEF F, G
<1>3. Cardinality(F) <= Cardinality(G) /\ Cardinality(G) \in Nat
  BY <1>1, FidsAreFinite, FS_Subset
<1>4. ASSUME NEW f \in F PROVE Rank(F, f) = Rank(G, f)
  <2>1. \A g \in G : g \in Nat
    BY <1>1, FidsAreFinite
  <2>2. ASSUME NEW g \in G PROVE g <= f => g \in F
    <3>1. g \notin F => f < g
      BY <1>1
    <3>2. f \in Nat
      BY <1>1, <2>1
    <3> QED
      BY <2>1, <3>1, <3>2
  <2>3. {g \in F : g <= f} = {g \in G : g <= f}
    BY <1>1, <2>2
  <2> QED
    BY <2>3 DEF Rank
<1>5. ASSUME NEW i \in 1 .. Cardinality(F) PROVE InOrder(T)[i] = InOrder(S)[i]
  <2>1. InOrder(S)[i] \in F /\ Rank(F, InOrder(S)[i]) = i
    BY <1>2
  <2>2. Rank(G, InOrder(S)[i]) = i
    BY <1>4, <2>1
  <2> QED
    BY <1>1, <1>2, <2>1, <2>2
<1> QED
  BY <1>2, <1>3, <1>5

-----------------------------------------------------------------------------
(* The server's files.                                                     *)

LEMMA RequestFacts ==
  ASSUME NEW r \in Request
  PROVE  /\ r.op \in Ops /\ r.dir \in Fid /\ r.name \in Names
         /\ r.todir \in Fid /\ r.toname \in Names
         /\ r.offset \in Nat /\ r.count \in Nat
         /\ r.op # "rename" => r.todir = r.dir /\ r.toname = r.name
BY DEF Request

LEMMA LinkFacts ==
  ASSUME TreeOK, NEW l \in links
  PROVE  /\ l \in named /\ numbered[l[3]] = l[1]
         /\ l = <<l[1], l[2], l[3]>> /\ l[3] # Root
         /\ l[1] \in dirs /\ l[1] \in Fid /\ l[2] \in Names /\ l[3] \in Fid
         /\ l[3] < nextFid /\ IsLinked(l[1])
<1>1. l \in named /\ numbered[l[3]] = l[1] /\ named \subseteq Fid \X Names \X Fid
  BY DEF TreeOK, links
<1>2. l[1] \in Fid /\ None \notin Fid
  BY <1>1 DEF None
<1> QED
  BY <1>1, <1>2 DEF TreeOK

(* What the search for a name finds is a file with a name that matches.    *)
LEMMA FoundFacts ==
  ASSUME TreeOK, NEW r, NEW f \in Named(r)
  PROVE  /\ f = None <=> r.op \notin ByName \/ Matches(r.dir, r.name) = {}
         /\ f # None => /\ f \in Fid /\ f # Root /\ numbered[f] = r.dir
                        /\ \E m : /\ <<r.name, m>> \in Like
                                  /\ <<r.dir, m, f>> \in links
<1>1. None \notin Fid
  BY DEF None
<1>2. ASSUME NEW g \in Matches(r.dir, r.name)
      PROVE  /\ g \in Fid /\ g # Root /\ numbered[g] = r.dir
             /\ \E m : <<r.name, m>> \in Like /\ <<r.dir, m, g>> \in links
  <2>1. PICK l \in links : l[1] = r.dir /\ <<r.name, l[2]>> \in Like /\ l[3] = g
    BY DEF Matches
  <2> QED
    BY <2>1, LinkFacts
<1> QED
  BY <1>1, <1>2 DEF Named

(* A literal name is found if and only if it is there.                     *)
LEMMA FoundLiteral ==
  ASSUME TreeOK, NEW d, NEW n \in Names, Literal(n), NEW f
  PROVE  f \in Matches(d, n) <=> <<d, n, f>> \in links
<1>1. \A m \in Names : <<n, m>> \in Like <=> m = n
  BY DEF Literal
<1>2. ASSUME f \in Matches(d, n) PROVE <<d, n, f>> \in links
  <2>1. PICK l \in links : l[1] = d /\ <<n, l[2]>> \in Like /\ l[3] = f
    BY <1>2 DEF Matches
  <2> QED
    BY <1>1, <2>1, LinkFacts
<1>3. ASSUME <<d, n, f>> \in links PROVE f \in Matches(d, n)
  BY <1>1, <1>3 DEF Matches
<1> QED
  BY <1>2, <1>3

(* A request that passes the checks can be executed.                       *)
LEMMA NoErrorMeans ==
  ASSUME NEW r \in Request, NEW f, Error(r, f) = "OK"
  PROVE  /\ r.op \in Creates => /\ IsLinked(r.todir) /\ r.todir \in dirs
                                /\ Matches(r.todir, r.toname) = {}
         /\ r.op \in Deletes => f # None
         /\ r.op = "remove" => f \notin dirs
         /\ r.op = "rmdir" => IsEmpty(f)
         /\ r.op = "rename" => /\ IsLinked(r.todir) /\ f # None
                               /\ Matches(r.todir, r.toname) = {}
                               /\ r.dir # r.todir => ~Below(r.todir, f)
         /\ r.op = "lookup" => f # None
<1>1. CASE r.op \in Creates
  BY <1>1 DEF Error, CreateError, NameInUse, Creates, Deletes
<1>2. CASE r.op = "remove"
  BY <1>2 DEF Error, RemoveError, Creates, Deletes
<1>3. CASE r.op = "rmdir"
  BY <1>3 DEF Error, RmdirError, Creates, Deletes
<1>4. CASE r.op = "rename"
  BY <1>4 DEF Error, RenameError, NameInUse, Creates, Deletes
<1>5. CASE r.op = "lookup"
  BY <1>5 DEF Error, LookupError, Creates, Deletes
<1>6. CASE r.op \notin Creates \union {"remove", "rmdir", "rename", "lookup"}
  BY <1>6 DEF Deletes
<1> QED
  BY <1>1, <1>2, <1>3, <1>4, <1>5, <1>6

(* One that does not is answered with the reason.                          *)
LEMMA ErrorMeans ==
  ASSUME NEW r, NEW f
  PROVE  /\ Error(r, f) \in DOMAIN Errno \union {"OK"}
         /\ Error(r, f) = "EXIST" => Matches(r.todir, r.toname) # {}
         /\ Error(r, f) = "NOENT" => f = None
         /\ Error(r, f) = "STALE" => ~IsLinked(r.dir) \/ ~IsLinked(r.todir)
         /\ Error(r, f) = "other" => /\ r.op = "rename" /\ r.dir # r.todir
                                     /\ f # None
<1>1. DOMAIN Errno = {"STALE", "NOENT", "NOTEMPTY", "ISDIR", "NOTDIR", "EXIST",
                      "other"}
  BY DEF Errno
<1>2. \/ r.op \in Creates /\ Error(r, f) = CreateError(r)
      \/ r.op = "remove" /\ Error(r, f) = RemoveError(r, f)
      \/ r.op = "rmdir" /\ Error(r, f) = RmdirError(r, f)
      \/ r.op = "rename" /\ Error(r, f) = RenameError(r, f)
      \/ r.op = "lookup" /\ Error(r, f) = LookupError(r, f)
      \/ Error(r, f) = ReadError(r)
      \/ Error(r, f) = ListError(r)
      \/ Error(r, f) = AttrError(r)
  BY DEF Error
<1>3. CASE Error(r, f) = CreateError(r)
  BY <1>1, <1>3 DEF CreateError, NameInUse
<1>4. CASE Error(r, f) = RemoveError(r, f)
  BY <1>1, <1>4 DEF RemoveError
<1>5. CASE Error(r, f) = RmdirError(r, f)
  BY <1>1, <1>5 DEF RmdirError
<1>6. CASE r.op = "rename" /\ Error(r, f) = RenameError(r, f)
  BY <1>1, <1>6 DEF RenameError, NameInUse
<1>7. CASE Error(r, f) = LookupError(r, f)
  BY <1>1, <1>7 DEF LookupError
<1>8. CASE \/ Error(r, f) = ReadError(r) \/ Error(r, f) = ListError(r)
           \/ Error(r, f) = AttrError(r)
  BY <1>1, <1>8 DEF ReadError, ListError, AttrError
<1> QED
  BY <1>2, <1>3, <1>4, <1>5, <1>6, <1>7, <1>8

LEMMA FilesFacts ==
  ASSUME NEW nu, NEW na
  PROVE  Files(nu, na).numbered = nu /\ Files(nu, na).named = na
BY DEF Files

LEMMA TupleFacts ==
  ASSUME NEW a, NEW b, NEW c
  PROVE  /\ Len(<<a, b>>) = 2 /\ Len(<<a, b, c>>) = 3
         /\ <<a, b>>[1] = a /\ <<a, b>>[2] = b
         /\ <<a, b, c>>[1] = a /\ <<a, b, c>>[2] = b /\ <<a, b, c>>[3] = c
OBVIOUS

(* How many system calls a handler makes that change files, and what they  *)
(* leave.                                                                  *)
LEMMA CreateStepFacts ==
  ASSUME NEW r, r.op \in Creates, NEW f
  PROVE  LET nu == [numbered EXCEPT ![nextFid] = r.todir]
             new == <<r.todir, r.toname, nextFid>>
         IN /\ Len(Steps(r, f)) = 2
            /\ \A i \in 1 .. 2 :
                  /\ Steps(r, f)[i].numbered = nu
                  /\ Steps(r, f)[i].named = IF i = 1 THEN named
                                            ELSE named \union {new}
<1> DEFINE nu == [numbered EXCEPT ![nextFid] = r.todir]
           na == named \union {<<r.todir, r.toname, nextFid>>}
<1>1. Steps(r, f) = <<Files(nu, named), Files(nu, na)>>
  BY DEF Steps, Creates, Deletes, CreateSteps
<1> HIDE DEF nu, na
<1>2. /\ Len(Steps(r, f)) = 2 /\ Steps(r, f)[1] = Files(nu, named)
      /\ Steps(r, f)[2] = Files(nu, na)
  BY <1>1, TupleFacts
<1>3. \A i \in 1 .. 2 : /\ Steps(r, f)[i].numbered = nu
                       /\ Steps(r, f)[i].named = IF i = 1 THEN named ELSE na
  BY <1>2, FilesFacts
<1> QED
  BY <1>2, <1>3 DEF nu, na

LEMMA DeleteStepFacts ==
  ASSUME NEW r, r.op \in Deletes, NEW f
  PROVE  /\ Len(Steps(r, f)) = 2
         /\ \A i \in 1 .. 2 :
               /\ Steps(r, f)[i].numbered = [numbered EXCEPT ![f] = None]
               /\ Steps(r, f)[i].named = IF i = 1 THEN named
                                         ELSE named \ {<<r.dir, r.name, f>>}
<1> DEFINE nu == [numbered EXCEPT ![f] = None]
           na == named \ {<<r.dir, r.name, f>>}
<1>1. Steps(r, f) = <<Files(nu, named), Files(nu, na)>>
  BY DEF Steps, Creates, Deletes, DeleteSteps
<1> HIDE DEF nu, na
<1>2. /\ Len(Steps(r, f)) = 2 /\ Steps(r, f)[1] = Files(nu, named)
      /\ Steps(r, f)[2] = Files(nu, na)
  BY <1>1, TupleFacts
<1>3. \A i \in 1 .. 2 : /\ Steps(r, f)[i].numbered = nu
                       /\ Steps(r, f)[i].named = IF i = 1 THEN named ELSE na
  BY <1>2, FilesFacts
<1> QED
  BY <1>2, <1>3 DEF nu, na

LEMMA RenameStepFacts ==
  ASSUME NEW r, r.op = "rename", NEW f
  PROVE  /\ Len(Steps(r, f)) = 3
         /\ \A i \in 1 .. 3 :
               /\ Steps(r, f)[i].numbered =
                     IF i = 1 THEN numbered ELSE [numbered EXCEPT ![f] = r.todir]
               /\ Steps(r, f)[i].named =
                     IF i = 3 THEN (named \union {<<r.todir, r.toname, f>>})
                                      \ {<<r.dir, r.name, f>>}
                              ELSE named \union {<<r.todir, r.toname, f>>}
<1> DEFINE nu == [numbered EXCEPT ![f] = r.todir]
           na == named \union {<<r.todir, r.toname, f>>}
           ne == na \ {<<r.dir, r.name, f>>}
<1>1. Steps(r, f) = <<Files(numbered, na), Files(nu, na), Files(nu, ne)>>
  BY DEF Steps, Creates, Deletes, RenameSteps
<1> HIDE DEF nu, na, ne
<1>2. /\ Len(Steps(r, f)) = 3 /\ Steps(r, f)[1] = Files(numbered, na)
      /\ Steps(r, f)[2] = Files(nu, na) /\ Steps(r, f)[3] = Files(nu, ne)
  BY <1>1, TupleFacts
<1>3. \A i \in 1 .. 3 : /\ Steps(r, f)[i].numbered = IF i = 1 THEN numbered ELSE nu
                       /\ Steps(r, f)[i].named = IF i = 3 THEN ne ELSE na
  BY <1>2, FilesFacts
<1> QED
  BY <1>2, <1>3 DEF nu, na, ne

(* The first call of a create makes a file without a name, the second one  *)
(* gives it the name.                                                      *)
LEMMA CreateReached ==
  ASSUME TreeOK, NEW r \in Request, r.op \in Creates, NEW f, Error(r, f) = "OK",
         NEW i \in 1 .. 2, Reached(r, f, i)
  PROVE  /\ TreeOK'
         /\ i = 1 => links' = links
         /\ i = 2 => Once(r, links, links')
<1> DEFINE g == nextFid  new == <<r.todir, r.toname, g>>
<1>1. /\ numbered' = [numbered EXCEPT ![g] = r.todir]
      /\ named' = IF i = 1 THEN named ELSE named \union {new}
      /\ g <= MaxFid /\ nextFid' = g + 1 /\ dirs' \in {dirs, dirs \union {g}}
  <2>1. /\ Steps(r, f)[i].numbered = [numbered EXCEPT ![g] = r.todir]
        /\ Steps(r, f)[i].named = IF i = 1 THEN named ELSE named \union {new}
    BY CreateStepFacts
  <2> HIDE DEF g, new
  <2> QED
    BY <2>1 DEF Reached, g
<1>2. r.todir \in Fid /\ r.toname \in Names
  BY RequestFacts
<1>3. g \in Fid /\ g # Root
  <2>1. MaxFid \in Nat /\ g \in Nat /\ Root < g
    BY ClientAssumption DEF ClientAssumption, TreeOK
  <2> QED
    BY <1>1, <2>1 DEF Root
<1>4. \A l \in named : l[3] # g /\ l[3] \in Nat
  BY FidsAreFinite DEF TreeOK
<1>5. /\ numbered' \in [Fid -> Fid \union {None}] /\ numbered'[g] = r.todir
      /\ \A h \in Fid \ {g} : numbered'[h] = numbered[h]
  BY <1>1, <1>2, <1>3 DEF TreeOK
<1>6. links' = IF i = 1 THEN links ELSE links \union {new}
  <2>1. \A l \in named : numbered'[l[3]] = numbered[l[3]]
    BY <1>4, <1>5 DEF TreeOK
  <2>2. new[3] = g /\ new[1] = r.todir
    OBVIOUS
  <2> HIDE DEF new, g
  <2> QED
    BY <1>1, <1>5, <2>1, <2>2 DEF links
<1>7. IsLinked(r.todir) /\ r.todir \in dirs
  BY NoErrorMeans
<1>8. TreeOK'
  <2>1. named' \subseteq Fid \X Names \X Fid
    BY <1>1, <1>2, <1>3 DEF TreeOK
  <2>2. g \in Nat /\ g < g + 1
    BY <1>3, FidsAreFinite
  <2>3. \A h \in Fid : h \in Nat
    BY FidsAreFinite
  <2>4. \A h \in Fid : h < g => h < g + 1 /\ h # g
    BY <2>2, <2>3
  <2>5. \A h \in Fid : h >= g + 1 => h >= g /\ h # g
    BY <2>2, <2>3
  <2>6. \A l \in links' : IsLinked(l[1])'
    <3>1. \A d : IsLinked(d) => IsLinked(d)'
      BY <1>6 DEF IsLinked
    <3> QED
      BY <1>6, <1>7, <3>1 DEF TreeOK
  <2>7. \A l \in links' : l[1] \in dirs'
    BY <1>1, <1>6, <1>7 DEF TreeOK
  <2>8. \A l \in named' : l[3] < nextFid'
    BY <1>1, <2>2, <2>4 DEF TreeOK
  <2>9. \A h \in dirs' : h < nextFid'
    BY <1>1, <2>2, <2>4 DEF TreeOK
  <2>10. \A h \in Fid : h >= nextFid' => numbered'[h] = None
    BY <1>1, <1>5, <2>5 DEF TreeOK
  <2>11. numbered'[Root] = None /\ nextFid' \in Nat /\ dirs' \subseteq Fid
         /\ Root \in dirs'
    <3>1. Root \in Fid
      BY DEF TreeOK
    <3> QED
      BY <1>1, <1>3, <1>5, <2>2, <3>1 DEF TreeOK
  <2> QED
    BY <1>5, <2>1, <2>6, <2>7, <2>8, <2>9, <2>10, <2>11 DEF TreeOK
<1>9. links = Except(g, links)
  BY <1>4 DEF Except, links
<1> QED
  BY <1>3, <1>6, <1>8, <1>9 DEF Once

(* The first call of a delete already takes the file away.                 *)
LEMMA DeleteReached ==
  ASSUME TreeOK, NEW r \in Request, r.op \in Deletes,
         NEW f \in Named(r), Error(r, f) = "OK",
         NEW i \in 1 .. 2, Reached(r, f, i)
  PROVE  TreeOK' /\ links' = Except(f, links)
<1> DEFINE old == <<r.dir, r.name, f>>
<1>1. /\ numbered' = [numbered EXCEPT ![f] = None]
      /\ named' = IF i = 1 THEN named ELSE named \ {old}
      /\ UNCHANGED <<dirs, nextFid>>
  <2>1. /\ Steps(r, f)[i].numbered = [numbered EXCEPT ![f] = None]
        /\ Steps(r, f)[i].named = IF i = 1 THEN named ELSE named \ {old}
    <3>1. \A k \in 1 .. 2 :
             /\ Steps(r, f)[k].numbered = [numbered EXCEPT ![f] = None]
             /\ Steps(r, f)[k].named = IF k = 1 THEN named
                                       ELSE named \ {<<r.dir, r.name, f>>}
      BY DeleteStepFacts
    <3> QED
      BY <3>1
  <2>2. r.op \notin Creates
    BY DEF Creates, Deletes
  <2> QED
    BY <2>1, <2>2 DEF Reached
<1>2. f \in Fid /\ f # Root
  BY NoErrorMeans, FoundFacts
<1>3. /\ numbered' \in [Fid -> Fid \union {None}] /\ numbered'[f] = None
      /\ \A h \in Fid \ {f} : numbered'[h] = numbered[h]
  BY <1>1, <1>2 DEF TreeOK
<1>4. links' = Except(f, links)
  <2>1. None \notin Fid
    BY DEF None
  <2>2. named' \subseteq named /\ named \subseteq Fid \X Names \X Fid
    BY <1>1 DEF TreeOK
  <2>3. old[3] = f
    OBVIOUS
  <2> HIDE DEF old
  <2>4. \A l \in named : l[3] # f => l \in named' /\ numbered'[l[3]] = numbered[l[3]]
    BY <1>1, <1>3, <2>2, <2>3
  <2>5. \A l \in named : l[1] # None /\ (l[3] = f => numbered'[l[3]] # l[1])
    BY <1>3, <2>1, <2>2
  <2> QED
    BY <2>2, <2>4, <2>5 DEF links, Except
<1>5. \A l \in links : l[1] # f
  <2>1. CASE r.op = "remove"
    BY <2>1, NoErrorMeans, LinkFacts
  <2>2. CASE r.op = "rmdir"
    BY <2>2, NoErrorMeans, LinkFacts DEF IsEmpty
  <2> QED
    BY <2>1, <2>2 DEF Deletes
<1>6. TreeOK'
  <2>1. \A l \in links' : IsLinked(l[1])'
    <3> SUFFICES ASSUME NEW l \in links' PROVE IsLinked(l[1])'
      OBVIOUS
    <3>1. l \in links /\ l[1] # f /\ IsLinked(l[1])
      BY <1>4, <1>5, LinkFacts DEF Except
    <3> QED
      BY <1>4, <3>1 DEF IsLinked, Except
  <2>2. named' \subseteq named /\ links' \subseteq links
    BY <1>1, <1>4 DEF Except
  <2>3. numbered'[Root] = None
    BY <1>2, <1>3 DEF TreeOK
  <2>4. \A h \in Fid : h >= nextFid' => numbered'[h] = None
    BY <1>1, <1>3 DEF TreeOK
  <2>5. \A l \in links' : l[1] \in dirs'
    BY <1>1, <2>2 DEF TreeOK
  <2> QED
    BY <1>1, <1>3, <2>1, <2>2, <2>3, <2>4, <2>5 DEF TreeOK
<1> QED
  BY <1>4, <1>6

(* A rename gives the file its new name, moves it, and takes the old name  *)
(* away; within a directory it has both names in between.                  *)
LEMMA RenameReached ==
  ASSUME TreeOK, NEW r \in Request, r.op = "rename",
         NEW f \in Named(r), f # None, NEW i \in 1 .. 3, Reached(r, f, i),
         \/ Error(r, f) = "OK"
         \/ r.dir # r.todir /\ i = 1
  PROVE  /\ TreeOK'
         /\ r.dir # r.todir /\ i = 1 => links' = links
         /\ r.dir = r.todir /\ i < 3 =>
               links' = links \union {<<r.todir, r.toname, f>>}
         /\ (r.dir # r.todir /\ i > 1) \/ i = 3 =>
               /\ Except(f, links') = Except(f, links)
               /\ <<r.todir, r.toname, f>> \in links'
               /\ Error(r, f) = "OK" => <<r.dir, r.name, f>> \notin links'
<1> DEFINE new == <<r.todir, r.toname, f>>  old == <<r.dir, r.name, f>>
           na == named \union {new}
           nu == [numbered EXCEPT ![f] = r.todir]
<1>1. /\ numbered' = IF i = 1 THEN numbered ELSE nu
      /\ named' = IF i = 3 THEN na \ {old} ELSE na
      /\ UNCHANGED <<dirs, nextFid>>
  <2>1. /\ Steps(r, f)[i].numbered = IF i = 1 THEN numbered ELSE nu
        /\ Steps(r, f)[i].named = IF i = 3 THEN na \ {old} ELSE na
    <3>1. \A k \in 1 .. 3 :
             /\ Steps(r, f)[k].numbered =
                   IF k = 1 THEN numbered ELSE [numbered EXCEPT ![f] = r.todir]
             /\ Steps(r, f)[k].named =
                   IF k = 3 THEN (named \union {<<r.todir, r.toname, f>>})
                                    \ {<<r.dir, r.name, f>>}
                            ELSE named \union {<<r.todir, r.toname, f>>}
      BY ONLY RenameStepFacts, r.op = "rename"
    <3>2. i \in 1 .. 3
      OBVIOUS
    <3> QED
      BY ONLY <3>1, <3>2
  <2>2. r.op \notin Creates
    BY DEF Creates
  <2> QED
    BY <2>1, <2>2 DEF Reached
<1>2. /\ f \in Fid /\ f # Root /\ numbered[f] = r.dir
      /\ \E l \in links : l[3] = f
  BY FoundFacts
<1>3. r.todir \in Fid /\ r.toname \in Names /\ r.dir \in Fid
  BY RequestFacts
<1>4. /\ numbered' \in [Fid -> Fid \union {None}]
      /\ \A h \in Fid \ {f} : numbered'[h] = numbered[h]
      /\ numbered'[f] = IF i = 1 THEN r.dir ELSE r.todir
  <2>1. /\ nu \in [Fid -> Fid \union {None}] /\ nu[f] = r.todir
        /\ \A h \in Fid \ {f} : nu[h] = numbered[h]
    BY <1>2, <1>3 DEF TreeOK
  <2> HIDE DEF nu
  <2> QED
    BY <1>1, <1>2, <2>1 DEF TreeOK
<1>5. /\ new[1] = r.todir /\ new[2] = r.toname /\ new[3] = f
      /\ old[1] = r.dir /\ old[2] = r.name /\ old[3] = f
  OBVIOUS
<1>6. named \subseteq Fid \X Names \X Fid /\ named' \subseteq Fid \X Names \X Fid
  BY <1>1, <1>2, <1>3 DEF TreeOK
<1> HIDE DEF new, old
<1>7. Except(f, links') = Except(f, links)
  <2>1. \A l \in named \union named' : l[3] # f =>
           /\ l \in named <=> l \in named'
           /\ numbered'[l[3]] = numbered[l[3]]
    BY <1>1, <1>4, <1>5, <1>6
  <2> QED
    BY <1>6, <2>1 DEF links, Except
<1>8. r.dir # r.todir /\ i = 1 => links' = links
  BY <1>1, <1>2, <1>5 DEF links
<1>9. r.dir = r.todir /\ i < 3 => links' = links \union {new}
  <2>1. r.dir = r.todir => numbered'[f] = r.dir
    BY <1>4
  <2>2. r.dir = r.todir => \A h \in Fid : numbered'[h] = numbered[h]
    BY <1>2, <1>4, <2>1
  <2> QED
    BY <1>1, <1>2, <1>3, <1>5, <1>6, <2>2 DEF links
<1>10. Error(r, f) = "OK" =>
          /\ IsLinked(r.todir) /\ Matches(r.todir, r.toname) = {}
          /\ r.dir # r.todir => ~Below(r.todir, f)
  BY NoErrorMeans
<1>11. Error(r, f) = "OK" => new # old
  <2>1. ASSUME Error(r, f) = "OK", new = old PROVE FALSE
    <3>1. r.dir = r.todir /\ r.name = r.toname
      BY <1>5, <2>1
    <3>2. Matches(r.dir, r.name) # {}
      BY FoundFacts
    <3> QED
      BY <1>10, <2>1, <3>1, <3>2
  <2> QED
    BY <2>1
<1>12. (r.dir # r.todir /\ i > 1) \/ i = 3 => i > 1 /\ numbered'[f] = r.todir
  BY <1>4
<1>13. ASSUME (r.dir # r.todir /\ i > 1) \/ i = 3
       PROVE  Error(r, f) = "OK" /\ new \in links' /\ old \notin links'
  <2>1. Error(r, f) = "OK" /\ numbered'[f] = r.todir
    BY <1>12, <1>13
  <2>2. new \in named'
    BY <1>1, <1>11, <2>1
  <2>3. new \in links'
    BY <1>5, <2>1, <2>2 DEF links
  <2>4. old \notin links'
    <3>1. CASE i = 3
      BY <1>1, <3>1 DEF links
    <3>2. CASE r.dir # r.todir
      BY <1>5, <2>1, <3>2 DEF links
    <3> QED
      BY <1>13, <3>1, <3>2
  <2> QED
    BY <2>1, <2>3, <2>4
<1>14. \A l \in links' : l[1] \in dirs' /\ IsLinked(l[1])'
  <2>1. CASE r.dir # r.todir /\ i = 1
    BY <1>1, <1>8, <2>1 DEF TreeOK, IsLinked
  <2>2. CASE Error(r, f) = "OK"
    <3>1. r.todir \in dirs
      <4>1. CASE r.dir = r.todir
        BY <1>2, <4>1, LinkFacts
      <4>2. CASE r.dir # r.todir
        BY <1>10, <2>2, <4>2 DEF Below
      <4> QED
        BY <4>1, <4>2
    <3>2. \E l \in links' : l[3] = f
      <4>1. CASE (r.dir # r.todir /\ i > 1) \/ i = 3
        BY <1>5, <1>13, <4>1
      <4>2. CASE r.dir = r.todir /\ i < 3
        BY <1>5, <1>9, <4>2
      <4>3. CASE r.dir # r.todir /\ i = 1
        BY <1>2, <1>8, <4>3
      <4> QED
        BY <4>1, <4>2, <4>3
    <3>3. \A d : IsLinked(d) => IsLinked(d)'
      <4> SUFFICES ASSUME NEW d, IsLinked(d) PROVE IsLinked(d)'
        OBVIOUS
      <4>1. CASE d = Root
        BY <4>1 DEF IsLinked
      <4>2. CASE d = f
        BY <3>2, <4>2 DEF IsLinked
      <4>3. CASE d # Root /\ d # f
        <5>1. PICK l \in links : l[3] = d
          BY <4>3 DEF IsLinked
        <5>2. l \in links'
          BY <1>7, <4>3, <5>1 DEF Except
        <5> QED
          BY <5>1, <5>2 DEF IsLinked
      <4> QED
        BY <4>1, <4>2, <4>3
    <3>4. ASSUME NEW l \in links'
          PROVE  l[1] \in dirs /\ IsLinked(l[1])
      <4>1. CASE l[3] # f
        <5>1. l \in links
          BY <1>7, <4>1 DEF Except
        <5> QED
          BY <5>1 DEF TreeOK
      <4>2. CASE l[3] = f
        <5>1. l[1] = r.todir \/ l[1] = r.dir
          BY <1>4, <4>2 DEF links
        <5>2. r.dir \in dirs /\ IsLinked(r.dir)
          BY <1>2, LinkFacts
        <5> QED
          BY <1>10, <2>2, <3>1, <5>1, <5>2
      <4> QED
        BY <4>1, <4>2
    <3> QED
      BY <1>1, <3>3, <3>4
  <2> QED
    BY <2>1, <2>2
<1>15. TreeOK'
  <2>1. numbered'[Root] = None
    BY <1>2, <1>4 DEF TreeOK
  <2>2. f < nextFid /\ nextFid \in Nat
    BY <1>2, LinkFacts DEF TreeOK
  <2>3. \A h \in Fid : h >= nextFid' => numbered'[h] = None
    <3>1. ~(f >= nextFid)
      BY <1>2, <2>2, FidsAreFinite
    <3> QED
      BY <1>1, <1>4, <3>1 DEF TreeOK
  <2>4. \A l \in named' : l[3] < nextFid'
    BY <1>1, <1>5, <2>2 DEF TreeOK
  <2>5. dirs' = dirs /\ nextFid' = nextFid
    BY <1>1
  <2> QED
    BY <1>4, <1>6, <1>14, <2>1, <2>3, <2>4, <2>5 DEF TreeOK
<1> QED
  BY <1>7, <1>8, <1>9, <1>13, <1>15 DEF new, old

LEMMA StepCounts ==
  ASSUME NEW r
  PROVE  /\ r.op \in Creates => \A f : Len(Steps(r, f)) = 2
         /\ r.op \in Deletes => \A f : Len(Steps(r, f)) = 2
         /\ r.op = "rename" => \A f : Len(Steps(r, f)) = 3
<1>1. ASSUME NEW f, r.op \in Creates PROVE Len(Steps(r, f)) = 2
  BY ONLY <1>1, CreateStepFacts
<1>2. ASSUME NEW f, r.op \in Deletes PROVE Len(Steps(r, f)) = 2
  BY ONLY <1>2, DeleteStepFacts
<1>3. ASSUME NEW f, r.op = "rename" PROVE Len(Steps(r, f)) = 3
  BY ONLY <1>3, RenameStepFacts
<1> QED
  BY <1>1, <1>2, <1>3

LEMMA ChangeMeans ==
  ASSUME NEW r, NEW f, Change(r, f)
  PROVE  /\ r.op \in Changes /\ Error(r, f) = "OK" => Reached(r, f, Len(Steps(r, f)))
         /\ r.op = "rename" /\ Error(r, f) = "other" => Reached(r, f, 1)
         /\ \/ r.op \in Changes /\ Error(r, f) = "OK"
            \/ r.op = "rename" /\ Error(r, f) = "other"
            \/ UNCHANGED disk
BY DEF Change

(* With a literal name, the file found has just that name.                 *)
LEMMA ClearFinds ==
  ASSUME TreeOK, NEW r \in Request, Literal(r.name), NEW f \in Named(r), f # None
  PROVE  <<r.dir, r.name, f>> \in links
<1>1. f \in Matches(r.dir, r.name)
  BY DEF Named
<1> QED
  BY <1>1, FoundLiteral, RequestFacts

(* A handler keeps the tree in shape, and does what the request asks for   *)
(* when the file found has the name that was given.                        *)
LEMMA ChangeKeeps ==
  ASSUME TreeOK, NEW r \in Request, NEW f \in Named(r), Change(r, f)
  PROVE  /\ TreeOK'
         /\ r.op \notin Changes \/ Error(r, f) # "OK" => links' = links
         /\ /\ r.op \in Changes /\ Error(r, f) = "OK"
            /\ f # None => <<r.dir, r.name, f>> \in links
            => Once(r, links, links')
<1>1. CASE r.op \in Creates /\ Error(r, f) = "OK"
  <2>1. Reached(r, f, 2)
    BY <1>1, StepCounts, ChangeMeans DEF Changes
  <2> QED
    BY <1>1, <2>1, CreateReached DEF Changes
<1>2. CASE r.op \in Deletes /\ Error(r, f) = "OK"
  <2>1. Reached(r, f, 2)
    BY <1>2, StepCounts, ChangeMeans DEF Changes
  <2>2. TreeOK' /\ links' = Except(f, links)
    BY <1>2, <2>1, DeleteReached
  <2>3. f # None /\ f \in Fid
    BY <1>2, NoErrorMeans, FoundFacts
  <2> QED
    BY <1>2, <2>2, <2>3 DEF Once, Changes
<1>3. CASE r.op = "rename" /\ Error(r, f) = "OK"
  <2>1. Reached(r, f, 3)
    BY <1>3, StepCounts, ChangeMeans DEF Changes
  <2>2. f # None /\ f \in Fid
    BY <1>3, NoErrorMeans, FoundFacts
  <2>3. /\ TreeOK' /\ Except(f, links') = Except(f, links)
        /\ <<r.todir, r.toname, f>> \in links' /\ <<r.dir, r.name, f>> \notin links'
    BY <1>3, <2>1, <2>2, RenameReached
  <2> QED
    BY <1>3, <2>2, <2>3 DEF Once, Changes
<1>4. CASE r.op = "rename" /\ Error(r, f) = "other"
  <2>1. Reached(r, f, 1)
    BY <1>4, ChangeMeans
  <2>2. f # None /\ r.dir # r.todir
    BY <1>4, ErrorMeans
  <2>3. 1 \in 1 .. 3
    OBVIOUS
  <2>4. TreeOK' /\ links' = links
    BY <1>4, <2>1, <2>2, <2>3, RenameReached
  <2> QED
    BY <1>4, <2>4
<1>5. CASE /\ ~(r.op \in Changes /\ Error(r, f) = "OK")
           /\ ~(r.op = "rename" /\ Error(r, f) = "other")
  <2>1. UNCHANGED disk
    BY <1>5, ChangeMeans
  <2>2. UNCHANGED <<numbered, named, dirs, nextFid>> /\ links' = links
    BY <2>1 DEF disk, links
  <2>3. TreeOK'
    BY <2>2 DEF TreeOK, IsLinked
  <2> QED
    BY <1>5, <2>2, <2>3
<1> QED
  BY <1>1, <1>2, <1>3, <1>4, <1>5 DEF Changes

(* A handler that a crash cuts off has changed nothing that clients see,   *)
(* everything, or has given a file a second name.                          *)
LEMMA CutKeeps ==
  ASSUME TreeOK, NEW r \in Request, Cut(r)
  PROVE  /\ TreeOK' /\ r.op \in Changes
         /\ \E f \in Named(r) :
               /\ Error(r, f) = "OK"
               /\ (f # None => <<r.dir, r.name, f>> \in links) =>
                     \/ links' = links
                     \/ Once(r, links, links') \/ Half(r, links, links')
<1>1. PICK f \in Named(r) :
         /\ Error(r, f) = "OK"
         /\ \E i \in 1 .. Len(Steps(r, f)) - 1 : Reached(r, f, i)
  BY DEF Cut
<1>2. r.op \in Changes
  BY DEF Cut
<1>3. CASE r.op \in Creates
  <2>1. Reached(r, f, 1)
    <3>1. PICK i \in 1 .. Len(Steps(r, f)) - 1 : Reached(r, f, i)
      BY <1>1
    <3>2. Len(Steps(r, f)) - 1 = 1
      BY <1>3, StepCounts
    <3>3. i = 1
      BY <3>1, <3>2
    <3> QED
      BY <3>1, <3>3
  <2>2. TreeOK' /\ links' = links
    BY <1>1, <1>3, <2>1, CreateReached
  <2> QED
    BY <1>1, <1>2, <2>2
<1>4. CASE r.op \in Deletes
  <2>1. Reached(r, f, 1)
    <3>1. PICK i \in 1 .. Len(Steps(r, f)) - 1 : Reached(r, f, i)
      BY <1>1
    <3>2. Len(Steps(r, f)) - 1 = 1
      BY <1>4, StepCounts
    <3>3. i = 1
      BY <3>1, <3>2
    <3> QED
      BY <3>1, <3>3
  <2>2. TreeOK' /\ links' = Except(f, links)
    BY <1>1, <1>4, <2>1, DeleteReached
  <2>3. f # None /\ f \in Fid
    BY <1>1, <1>4, NoErrorMeans, FoundFacts
  <2>4. (f # None => <<r.dir, r.name, f>> \in links) => Once(r, links, links')
    BY <1>4, <2>2, <2>3 DEF Once
  <2> QED
    BY <1>1, <1>2, <2>2, <2>4
<1>5. CASE r.op = "rename"
  <2>1. PICK i \in 1 .. 2 : Reached(r, f, i)
    <3>1. Len(Steps(r, f)) - 1 = 2
      BY <1>5, StepCounts
    <3> QED
      BY <1>1, <3>1
  <2>2. f # None /\ f \in Fid
    BY <1>1, <1>5, NoErrorMeans, FoundFacts
  <2>3. /\ TreeOK'
        /\ r.dir # r.todir /\ i = 1 => links' = links
        /\ r.dir = r.todir => links' = links \union {<<r.todir, r.toname, f>>}
        /\ r.dir # r.todir /\ i > 1 =>
              /\ Except(f, links') = Except(f, links)
              /\ <<r.todir, r.toname, f>> \in links'
              /\ <<r.dir, r.name, f>> \notin links'
    <3>1. i \in 1 .. 3 /\ i < 3
      BY <2>1
    <3> QED
      BY <1>1, <1>5, <2>1, <2>2, <3>1, RenameReached
  <2>4. (f # None => <<r.dir, r.name, f>> \in links) =>
           \/ links' = links \/ Once(r, links, links') \/ Half(r, links, links')
    <3>1. i = 1 \/ i > 1
      BY <2>1
    <3> QED
      BY <1>5, <2>2, <2>3, <3>1 DEF Once, Half
  <2> QED
    BY <1>1, <1>2, <2>3, <2>4
<1> QED
  BY <1>2, <1>3, <1>4, <1>5 DEF Changes

(* What was executed once, or half, does not pass the checks again.        *)
LEMMA OnceIsEnough ==
  ASSUME TreeOK, NEW r \in Request, NEW L, Clear(r, L),
         Once(r, L, links) \/ Half(r, L, links),
         NEW f \in Named(r)
  PROVE  Error(r, f) # "OK"
<1>1. r.name \in Names /\ r.toname \in Names
  BY RequestFacts
<1>2. Literal(r.name) /\ Literal(r.toname)
  BY DEF Clear
<1>3. CASE r.op \in Creates \union {"rename"}
  <2>1. \E g : <<r.todir, r.toname, g>> \in links
    BY <1>3 DEF Once, Half, Creates, Deletes
  <2>2. Matches(r.todir, r.toname) # {}
    BY <1>1, <1>2, <2>1, FoundLiteral
  <2> QED
    BY <1>3, <2>2, NoErrorMeans
<1>4. CASE r.op \in Deletes
  <2>1. PICK g \in Fid : <<r.dir, r.name, g>> \in L /\ links = Except(g, L)
    BY <1>4 DEF Once, Half, Creates, Deletes
  <2>2. r.todir = r.dir /\ r.toname = r.name
    BY <1>4, RequestFacts DEF Deletes
  <2>3. ASSUME NEW h, <<r.dir, r.name, h>> \in links PROVE FALSE
    <3> DEFINE a == <<r.dir, r.name, g>>  b == <<r.dir, r.name, h>>
    <3>1. a \in L /\ b \in L /\ b[3] # g
      BY <2>1, <2>3 DEF Except
    <3>2. a[1] = r.dir /\ a[2] = r.name /\ b[1] = r.dir /\ b[2] = r.name
          /\ a[3] = g /\ b[3] = h
      OBVIOUS
    <3> HIDE DEF a, b
    <3>3. {<<a[1], a[2]>>, <<b[1], b[2]>>} = {<<r.dir, r.name>>}
      BY <3>2
    <3>4. a = b
      BY <3>1, <3>3 DEF Clear
    <3> QED
      BY <3>1, <3>2, <3>4
  <2>4. Matches(r.dir, r.name) = {}
    BY <1>1, <1>2, <2>3, FoundLiteral
  <2>5. f = None
    BY <2>4, FoundFacts
  <2> QED
    BY <1>4, <2>5, NoErrorMeans
<1> QED
  BY <1>3, <1>4 DEF Once, Half

-----------------------------------------------------------------------------
(* The client.                                                             *)

Inv == ClientInv /\ AtMostOnce /\ AnswerTrue /\ ReadExact

LEMMA Bounds ==
  /\ MaxTries \in Nat /\ MaxTries > 0 /\ MaxBufLen \in Nat /\ MaxBufLen > 0
  /\ MaxEntries \in Nat /\ MaxEntries > 0
  /\ Requests \subseteq Request /\ OtherRequests \subseteq Request
  /\ \A f \in Fid : Length(f) \in Nat
BY ClientAssumption DEF ClientAssumption

LEMMA RequestsAreReal ==
  ASSUME ClientOK, req.op # "none"
  PROVE  req \in Request /\ req \in Requests
BY Bounds DEF ClientOK

LEMMA KernelFacts ==
  ASSUME NEW a, a.err \in DOMAIN Errno \union {"OK"}
  PROVE  /\ a.err = "OK" => ToKernel(a) = a
         /\ a.err # "OK" => /\ ToKernel(a).err # "OK"
                            /\ ToKernel(a).err = "EEXIST" => a.err = "EXIST"
                            /\ ToKernel(a).err = "ENOENT" =>
                                  a.err \in {"STALE", "NOENT"}
BY DEF ToKernel, Errno

LEMMA ReplyFacts ==
  ASSUME NEW r, NEW f
  PROVE  /\ Reply(r, f).err = "OK"
         /\ r.op = "readdir" => Reply(r, f).page = Page(cookie)
         /\ r.op = "read" => Reply(r, f).part = Part(r)
         /\ r.op = "lookup" => Reply(r, f).fid = f
<1>1. CASE r.op = "readdir"
  <2>1. Reply(r, f) = [err |-> "OK", page |-> Page(cookie)]
    BY <1>1, Zenon DEF Reply
  <2> QED
    BY <1>1, <2>1
<1>2. CASE r.op = "read"
  <2>1. Reply(r, f) = [err |-> "OK", part |-> Part(r)]
    BY <1>2, Zenon DEF Reply
  <2> QED
    BY <1>2, <2>1
<1>3. CASE r.op = "lookup"
  <2>1. Reply(r, f) = [err |-> "OK", fid |-> f]
    BY <1>3, Zenon DEF Reply
  <2> QED
    BY <1>3, <2>1
<1>4. CASE r.op \notin {"readdir", "read", "lookup"}
  <2>1. Reply(r, f) = [err |-> "OK"]
    BY <1>4, Zenon DEF Reply
  <2> QED
    BY <1>4, <2>1
<1> QED
  BY <1>1, <1>2, <1>3, <1>4

LEMMA ReadFrame ==
  ASSUME ReadOK, UNCHANGED <<req, buf>>,
         cpc' = "replied" => cpc = "replied" /\ answer' = answer
  PROVE  ReadOK'
BY DEF ReadOK, Part

LEMMA ListFrame ==
  ASSUME ListOK, UNCHANGED <<links, cookie, listed, expected, grows, ended>>,
         cpc' = "replied" => cpc = "replied" /\ UNCHANGED <<req, answer>>
  PROVE  ListOK'
<1>1. All' = All /\ FidsIn(links)' = FidsIn(links)
  BY DEF All
<1>2. Covered' = Covered
  BY <1>1 DEF Covered
<1>3. OneName(links)' = OneName(links)
  OBVIOUS
<1> QED
  BY <1>1, <1>2, <1>3 DEF ListOK

LEMMA Listable ==
  ASSUME TreeOK, OneName(links)
  PROVE  /\ Single(Entries(links)) /\ FidsOf(Entries(links)) = FidsIn(links)
         /\ FidsIn(links) \subseteq Fid
<1>1. FidsIn(links) \subseteq Fid
  BY LinkFacts DEF FidsIn, Entries
<1> QED
  BY <1>1 DEF Single, OneName, FidsOf, FidsIn

LEMMA AllFacts ==
  ASSUME TreeOK, OneName(links)
  PROVE  /\ All \in Seq(FidsIn(links)) /\ Len(All) \in Nat
         /\ \A f \in FidsIn(links) : \E i \in 1 .. Len(All) : All[i] = f
         /\ \A i, k \in 1 .. Len(All) : All[i] = All[k] => i = k
<1> DEFINE F == FidsIn(links)
<1>1. F \subseteq Fid /\ FidsOf(Entries(links)) = F /\ Single(Entries(links))
  BY Listable
<1> HIDE DEF Fid, F
<1>2. /\ All \in Seq(F) /\ Len(All) = Cardinality(F)
      /\ \A i \in 1 .. Len(All) : Rank(F, All[i]) = i
      /\ \A f \in F : All[Rank(F, f)] = f
  BY <1>1, InOrderFacts DEF All
<1>3. \A f \in F : Rank(F, f) \in 1 .. Len(All)
  BY <1>1, <1>2, Ranks
<1>4. Len(All) \in Nat
  BY <1>1, <1>2, FidsAreFinite
<1> QED
  BY <1>2, <1>3, <1>4 DEF F

LEMMA Growth ==
  ASSUME TreeOK, TreeOK', OneName(links), Grew
  PROVE  /\ OneName(links)' /\ FidsIn(links) \subseteq FidsIn(links)'
         /\ Len(All) \in Nat /\ Len(All') \in Nat /\ Len(All) <= Len(All')
         /\ \A i \in 1 .. Len(All) : All'[i] = All[i]
<1> DEFINE S == Entries(links)  T == Entries(links')
<1>1. OneName(links') /\ OneName(links)' /\ FidsIn(links)' = FidsIn(links')
  BY DEF Grew, OneName, FidsIn, Entries
<1>2. Single(S) /\ FidsOf(S) = FidsIn(links) /\ FidsIn(links) \subseteq Fid
  BY Listable
<1>3. Single(T) /\ FidsOf(T) = FidsIn(links')
  BY <1>1 DEF Single, OneName, FidsOf, FidsIn
<1>4. FidsIn(links') \subseteq Fid
  <2>1. links' \subseteq Fid \X Names \X Fid
    BY DEF TreeOK, links
  <2> QED
    BY <2>1 DEF FidsIn, Entries
<1>5. /\ FidsOf(S) \subseteq FidsOf(T)
      /\ \A f \in FidsOf(T) \ FidsOf(S), g \in FidsOf(S) : g < f
  BY <1>2, <1>3 DEF Grew
<1>6. All = InOrder(S) /\ All' = InOrder(T)
  BY DEF All, InOrder, Entries
<1> HIDE DEF S, T, Fid
<1>7. /\ Len(InOrder(S)) <= Len(InOrder(T))
      /\ \A i \in 1 .. Len(InOrder(S)) : InOrder(T)[i] = InOrder(S)[i]
  BY <1>2, <1>3, <1>4, <1>5, InOrderGrows
<1>8. Len(InOrder(S)) \in Nat /\ Len(InOrder(T)) \in Nat
  BY <1>2, <1>3, <1>4, InOrderFacts, FidsAreFinite
<1> QED
  BY <1>1, <1>2, <1>3, <1>5, <1>6, <1>7, <1>8

(* A listing of a directory that grows stays a beginning of it.            *)
LEMMA ListGrows ==
  ASSUME TreeOK, TreeOK', ListOK,
         UNCHANGED <<cookie, listed, expected, ended>>,
         grows' = (grows /\ Grew),
         \/ cpc' = "replied" => cpc = "replied" /\ UNCHANGED <<req, answer>>
         \/ req'.op # "readdir"
  PROVE  ListOK'
<1> SUFFICES ASSUME grows, Grew, grows'
             PROVE  ListOK'
  BY DEF ListOK
<1>1. /\ OneName(links) /\ expected \subseteq FidsIn(links)
      /\ cookie \in 0 .. Len(All) /\ listed = SubSeq(All, 1, cookie)
      /\ ended => Covered
      /\ cpc = "replied" /\ req.op = "readdir" /\ answer.err = "OK" =>
            \E to \in cookie .. Len(All) :
               /\ answer.page = SubSeq(All, cookie + 1, to)
               /\ to = cookie => Covered
  BY DEF ListOK
<1>2. /\ OneName(links)' /\ FidsIn(links) \subseteq FidsIn(links)'
      /\ Len(All) \in Nat /\ Len(All') \in Nat /\ Len(All) <= Len(All')
      /\ \A i \in 1 .. Len(All) : All'[i] = All[i]
  BY <1>1, Growth
<1>3. ASSUME NEW a \in Nat, a > 0, NEW b \in 0 .. Len(All)
      PROVE  SubSeq(All', a, b) = SubSeq(All, a, b)
  BY <1>2, <1>3, Z3
<1>4. Covered => Covered'
  BY <1>1, <1>2 DEF Covered
<1>5. cookie \in 0 .. Len(All') /\ cookie + 1 > 0 /\ cookie + 1 \in Nat
  BY <1>1, <1>2
<1>6. listed = SubSeq(All', 1, cookie)
  <2>1. 1 \in Nat /\ 1 > 0 /\ cookie \in 0 .. Len(All)
    BY <1>1
  <2>2. SubSeq(All', 1, cookie) = SubSeq(All, 1, cookie)
    BY ONLY <1>3, <2>1
  <2> QED
    BY <1>1, <2>2
<1>7. \A to \in cookie .. Len(All) :
         /\ to \in cookie .. Len(All') /\ to \in 0 .. Len(All)
         /\ SubSeq(All', cookie + 1, to) = SubSeq(All, cookie + 1, to)
  BY <1>1, <1>2, <1>3, <1>5
<1>8. expected \subseteq FidsIn(links)'
  BY <1>1, <1>2
<1> QED
  BY <1>1, <1>2, <1>4, <1>5, <1>6, <1>7, <1>8 DEF ListOK

LEMMA TreeFrame ==
  ASSUME TreeOK, UNCHANGED <<numbered, named, dirs, nextFid>>
  PROVE  TreeOK'
<1>1. links' = links
  BY DEF links
<1> QED
  BY <1>1 DEF TreeOK, IsLinked

LEMMA InitInv == Init => Inv
<1> SUFFICES ASSUME Init PROVE Inv
  OBVIOUS
<1>1. /\ numbered = InitNumbered /\ named = InitNamed
      /\ dirs = InitDirs /\ nextFid = FirstFree
      /\ cpc = "idle" /\ req = [op |-> "none"] /\ tries = 0
      /\ cookie = 0 /\ listed = <<>> /\ expected = {}
      /\ alone = TRUE /\ grows = OneName(links) /\ ended = FALSE
  BY DEF Init
<1>2. TreeOK
  <2>1. /\ InitNumbered \in [Fid -> Fid \union {None}]
        /\ InitNamed \subseteq Fid \X Names \X Fid
        /\ FirstFree \in Nat /\ InitDirs \subseteq Fid /\ Root \in InitDirs
    BY ClientAssumption DEF ClientAssumption
  <2>2. \A l \in links : l[1] \in dirs /\ IsLinked(l[1])
    BY <1>1, TreeAssumption DEF TreeAssumption, links, IsLinked
  <2> QED
    BY <1>1, <2>1, <2>2, TreeAssumption DEF TreeOK, TreeAssumption
<1>3. ClientOK
  BY <1>1, Bounds DEF ClientOK, OneName
<1>4. ReplyTrue /\ ReadOK /\ AtMostOnce /\ AnswerTrue /\ ReadExact
  BY <1>1 DEF ReplyTrue, ReadOK, AtMostOnce, AnswerTrue, ReadExact, Undisturbed
<1>5. ListOK
  <2> SUFFICES ASSUME grows PROVE ListOK
    BY DEF ListOK
  <2>1. OneName(links)
    BY <1>1
  <2>2. Len(All) \in Nat /\ SubSeq(All, 1, 0) = <<>>
    BY <1>2, <2>1, AllFacts
  <2> QED
    BY <1>1, <2>1, <2>2 DEF ListOK
<1> QED
  BY <1>2, <1>3, <1>4, <1>5 DEF Inv, ClientInv

LEMMA StartKeeps == ASSUME Inv, Start PROVE Inv'
<1>1. /\ req' \in Requests /\ cpc' = "try" /\ tries' = 0 /\ buf' = <<>>
      /\ before' = links /\ alone' = TRUE
      /\ UNCHANGED <<links, numbered, named, dirs, nextFid, answer>>
      /\ \/ UNCHANGED <<cookie, listed, ended, expected, grows>>
         \/ /\ cookie' = 0 /\ listed' = <<>> /\ ended' = FALSE
            /\ expected' = FidsIn(links) /\ grows' = OneName(links)
  BY DEF Start, server, disk, links
<1>2. req' \in Request /\ req'.op # "none" /\ req'.count \in Nat
  BY <1>1, Bounds, RequestFacts DEF Ops, Changes, Creates, Deletes
<1>3. TreeOK'
  BY <1>1, TreeFrame DEF Inv, ClientInv
<1>4. ClientOK'
  <2>1. ClientOK
    BY DEF Inv, ClientInv
  <2>2. cookie' \in Nat /\ 0 \in 0 .. MaxTries
    BY <1>1, <2>1, Bounds DEF ClientOK
  <2>3. grows' \in BOOLEAN
    <3>1. grows' = grows \/ grows' = OneName(links)
      BY <1>1
    <3>2. OneName(links) \in BOOLEAN
      BY DEF OneName
    <3> QED
      BY <2>1, <3>1, <3>2, Zenon DEF ClientOK
  <2> QED
    BY <1>1, <1>2, <2>2, <2>3 DEF ClientOK
<1>5. ReplyTrue' /\ AtMostOnce' /\ AnswerTrue' /\ ReadExact'
  BY <1>1 DEF ReplyTrue, AtMostOnce, AnswerTrue, ReadExact, Undisturbed
<1>6. ReadOK'
  BY <1>1, <1>2 DEF ReadOK
<1>7. ListOK'
  <2>1. CASE UNCHANGED <<cookie, listed, ended, expected, grows>>
    BY <1>1, <2>1, ListFrame DEF Inv, ClientInv
  <2>2. CASE /\ cookie' = 0 /\ listed' = <<>> /\ ended' = FALSE
             /\ expected' = FidsIn(links) /\ grows' = OneName(links)
    <3> SUFFICES ASSUME grows' PROVE ListOK'
      BY DEF ListOK
    <3>1. OneName(links) /\ OneName(links)'
      BY <1>1, <2>2
    <3>2. /\ All' = All /\ FidsIn(links)' = FidsIn(links)
          /\ Len(All) \in Nat /\ SubSeq(All, 1, 0) = <<>>
      BY <1>1, <3>1, AllFacts DEF All, Inv, ClientInv
    <3> QED
      BY <1>1, <2>2, <3>1, <3>2 DEF ListOK
  <2> QED
    BY <1>1, <2>1, <2>2
<1> QED
  BY <1>3, <1>4, <1>5, <1>6, <1>7 DEF Inv, ClientInv

LEMMA SendKeeps == ASSUME Inv, Send PROVE Inv'
<1>1. /\ cpc = "try" /\ cpc' = "sent"
      /\ UNCHANGED <<links, numbered, named, dirs, nextFid, req, tries, answer,
                     result, buf, cookie, before, alone, listed, expected, grows, ended>>
  BY DEF Send, server, observed, disk, links
<1>2. TreeOK' /\ ReadOK' /\ ListOK'
  BY <1>1, TreeFrame, ReadFrame, ListFrame DEF Inv, ClientInv
<1>3. ClientOK'
  BY <1>1 DEF ClientOK, Inv, ClientInv
<1>4. ReplyTrue' /\ AtMostOnce' /\ AnswerTrue' /\ ReadExact'
  BY <1>1
  DEF ReplyTrue, AtMostOnce, AnswerTrue, ReadExact, Undisturbed, Inv, ClientInv
<1> QED
  BY <1>2, <1>3, <1>4 DEF Inv, ClientInv

(* A transport error, of whatever cause.                                   *)
LEMMA FailedKeeps ==
  ASSUME Inv, cpc \in {"try", "sent", "replied"}, Failed,
         UNCHANGED <<links, numbered, named, dirs, nextFid, before, alone, listed,
                     expected, grows, ended>>
  PROVE  Inv'
<1>1. /\ cpc' = "try" /\ tries' = Least(tries + 1, MaxTries)
      /\ UNCHANGED <<req, result, buf, cookie>>
  BY DEF Failed
<1>2. tries' \in 0 .. MaxTries /\ tries' # 0
  BY <1>1, Bounds DEF Least, ClientOK, Inv, ClientInv
<1>3. TreeOK' /\ ReadOK' /\ ListOK'
  BY <1>1, TreeFrame, ReadFrame, ListFrame DEF Inv, ClientInv
<1>4. ClientOK'
  BY <1>1, <1>2 DEF ClientOK, Inv, ClientInv
<1>5. ReplyTrue' /\ AtMostOnce' /\ AnswerTrue' /\ ReadExact'
  BY <1>1, <1>2
  DEF ReplyTrue, AtMostOnce, AnswerTrue, ReadExact, Undisturbed, Inv, ClientInv
<1> QED
  BY <1>3, <1>4, <1>5 DEF Inv, ClientInv

LEMMA GiveUpKeeps == ASSUME Inv, GiveUp PROVE Inv'
<1>1. /\ cpc = "try" /\ ~ (tries < MaxTries) /\ cpc' = "idle"
      /\ result' = [err |-> "EIO"]
      /\ UNCHANGED <<links, numbered, named, dirs, nextFid, req, tries, answer,
                     buf, cookie, before, alone, listed, expected, grows, ended>>
  BY DEF GiveUp, CanTry, Return, server, observed, disk, links
<1>2. tries # 0
  BY <1>1, Bounds
<1>3. TreeOK' /\ ReadOK' /\ ListOK'
  BY <1>1, TreeFrame, ReadFrame, ListFrame DEF Inv, ClientInv
<1>4. ClientOK'
  BY <1>1 DEF ClientOK, Inv, ClientInv
<1>5. ReplyTrue' /\ AtMostOnce' /\ ReadExact'
  BY <1>1
  DEF ReplyTrue, AtMostOnce, ReadExact, Undisturbed, Inv, ClientInv
<1>6. AnswerTrue'
  BY <1>1, <1>2 DEF AnswerTrue, Truthful
<1> QED
  BY <1>3, <1>4, <1>5, <1>6 DEF Inv, ClientInv

(* The server executes a request that the client may have sent before.     *)
LEMMA ExecuteKeeps == ASSUME Inv, Execute PROVE Inv'
<1>1. /\ cpc = "sent" /\ cpc' = "replied" /\ grows' = (grows /\ Grew)
      /\ UNCHANGED <<req, tries, result, buf, cookie, before, alone, listed,
                     expected, ended>>
  BY DEF Execute
<1>2. /\ TreeOK /\ ClientOK /\ ReplyTrue /\ ReadOK /\ ListOK /\ AtMostOnce
      /\ req.op # "none" /\ req \in Request
  BY <1>1, RequestsAreReal DEF Inv, ClientInv, ClientOK
<1>3. PICK f \in Named(req) : Change(req, f) /\ answer' = Answer(req, f)
  BY DEF Execute
<1>4. /\ TreeOK'
      /\ req.op \notin Changes \/ Error(req, f) # "OK" => links' = links
      /\ /\ req.op \in Changes /\ Error(req, f) = "OK"
         /\ f # None => <<req.dir, req.name, f>> \in links
         => Once(req, links, links')
  BY <1>2, <1>3, ChangeKeeps
<1>5. /\ Error(req, f) # "OK" => answer' = [err |-> Error(req, f)]
      /\ Error(req, f) = "OK" /\ NoOldName(req, f) =>
            answer' = [err |-> "other"] /\ req.op \in Changes
      /\ Error(req, f) = "OK" /\ ~NoOldName(req, f) => answer' = Reply(req, f)
  BY <1>3 DEF Answer, NoOldName, Changes
<1>6. /\ answer'.err \in DOMAIN Errno \union {"OK"}
      /\ answer'.err = "OK" => Error(req, f) = "OK" /\ answer' = Reply(req, f)
  <2>1. CASE Error(req, f) # "OK"
    <3>1. answer'.err = Error(req, f)
      BY <1>5, <2>1
    <3> QED
      BY <2>1, <3>1, ErrorMeans
  <2>2. CASE Error(req, f) = "OK" /\ NoOldName(req, f)
    <3>1. answer'.err = "other"
      BY <1>5, <2>2
    <3> QED
      BY <3>1 DEF Errno
  <2>3. CASE Error(req, f) = "OK" /\ ~NoOldName(req, f)
    BY <1>5, <2>3, ReplyFacts
  <2> QED
    BY <2>1, <2>2, <2>3
<1>7. ClientOK'
  BY <1>1, <1>2, <1>6 DEF ClientOK, Grew, OneName
<1>8. ASSUME Undisturbed
      PROVE  /\ f # None => <<req.dir, req.name, f>> \in links
             /\ ~NoOldName(req, f) \/ Error(req, f) # "OK"
             /\ Error(req, f) = "OK" => links = before
  <2>1. Clear(req, before) /\ Literal(req.name)
    BY <1>8 DEF Undisturbed, Clear
  <2>2. f # None => <<req.dir, req.name, f>> \in links
    BY <1>2, <2>1, ClearFinds
  <2>3. Error(req, f) = "OK" => links = before
    BY <1>2, <1>8, <2>1, OnceIsEnough DEF AtMostOnce
  <2>4. Error(req, f) = "OK" /\ req.op \in Deletes \union {"rename"} => f # None
    BY <1>2, NoErrorMeans
  <2>5. ~NoOldName(req, f) \/ Error(req, f) # "OK"
    BY <2>2, <2>4 DEF NoOldName, links
  <2> QED
    BY <2>2, <2>3, <2>5
<1>9. Undisturbed' = Undisturbed
  BY <1>1 DEF Undisturbed
<1>10. AtMostOnce'
  <2> SUFFICES ASSUME Undisturbed
               PROVE  \/ links' = before
                      \/ Once(req, before, links') \/ Half(req, before, links')
    BY <1>1, <1>9 DEF AtMostOnce
  <2>1. CASE req.op \in Changes /\ Error(req, f) = "OK"
    BY <1>4, <1>8, <2>1
  <2>2. CASE req.op \notin Changes \/ Error(req, f) # "OK"
    BY <1>2, <1>4, <2>2 DEF AtMostOnce
  <2> QED
    BY <2>1, <2>2
<1>11. AnswerTrue' /\ ReadExact'
  BY <1>1 DEF AnswerTrue, ReadExact
<1>12. ReplyTrue'
  <2> DEFINE res == ToKernel(answer')
  <2> SUFFICES ASSUME Undisturbed
               PROVE  /\ res.err = "OK" /\ req.op \in Changes =>
                            Once(req, before, links')
                      /\ res.err = "OK" /\ req.op = "lookup" =>
                            <<req.dir, req.name, res.fid>> \in links'
                      /\ res.err = "EEXIST" =>
                            \E g \in Fid : <<req.todir, req.toname, g>> \in links'
                      /\ res.err = "ENOENT" /\ req.op \in Deletes \union {"lookup"} =>
                            \A g \in Fid : <<req.dir, req.name, g>> \notin links'
                      /\ res.err # "OK" /\ tries = 0 => links' = before
    BY <1>1, <1>9 DEF ReplyTrue, Truthful, ToKernel
  <2>1. /\ f # None => <<req.dir, req.name, f>> \in links
        /\ Error(req, f) = "OK" => /\ links = before /\ ~NoOldName(req, f)
                                   /\ answer' = Reply(req, f)
    BY <1>5, <1>8
  <2>2. req.name \in Names /\ req.toname \in Names
        /\ Literal(req.name) /\ Literal(req.toname)
    BY <1>2, RequestFacts DEF Undisturbed, Clear
  <2>3. CASE Error(req, f) = "OK"
    <3>1. answer'.err = "OK" /\ res = answer'
      BY <1>6, <2>1, <2>3, ReplyFacts, KernelFacts
    <3>2. req.op \in Changes => Once(req, before, links')
      BY <1>4, <2>1, <2>3
    <3>3. ASSUME req.op = "lookup"
          PROVE  <<req.dir, req.name, answer'.fid>> \in links'
      <4>1. links' = links
        BY <1>4, <3>3 DEF Changes, Creates, Deletes
      <4>2. f # None
        BY <1>2, <2>3, <3>3, NoErrorMeans
      <4>3. answer'.fid = f
        BY <2>1, <2>3, <3>3, ReplyFacts
      <4> QED
        BY <2>1, <4>1, <4>2, <4>3
    <3> HIDE DEF res
    <3> QED
      BY <3>1, <3>2, <3>3
  <2>4. CASE Error(req, f) # "OK"
    <3>1. answer'.err = Error(req, f) /\ links' = links
      BY <1>4, <1>5, <2>4
    <3>2. /\ res.err # "OK"
          /\ res.err = "EEXIST" => Error(req, f) = "EXIST"
          /\ res.err = "ENOENT" => Error(req, f) \in {"STALE", "NOENT"}
      BY <1>6, <2>4, <3>1, KernelFacts
    <3> HIDE DEF res
    <3>3. ASSUME res.err = "EEXIST"
          PROVE  \E g \in Fid : <<req.todir, req.toname, g>> \in links
      <4>1. PICK g : g \in Matches(req.todir, req.toname)
        BY <3>2, <3>3, ErrorMeans
      <4>2. <<req.todir, req.toname, g>> \in links
        BY <1>2, <2>2, <4>1, FoundLiteral
      <4>3. g \in Fid
        BY <1>2, <4>2, LinkFacts
      <4> QED
        BY <4>2, <4>3
    <3>4. ASSUME res.err = "ENOENT", req.op \in Deletes \union {"lookup"}
          PROVE  \A g \in Fid : <<req.dir, req.name, g>> \notin links
      <4>1. CASE Error(req, f) = "NOENT"
        <5>1. f = None
          BY <4>1, ErrorMeans
        <5>2. Matches(req.dir, req.name) = {}
          BY <1>2, <3>4, <5>1, FoundFacts DEF ByName
        <5> QED
          BY <1>2, <2>2, <5>2, FoundLiteral
      <4>2. CASE Error(req, f) = "STALE"
        <5>1. req.todir = req.dir
          BY <1>2, <3>4, RequestFacts DEF Deletes
        <5>2. ~IsLinked(req.dir)
          BY <4>2, <5>1, ErrorMeans
        <5>3. ASSUME NEW g, <<req.dir, req.name, g>> \in links PROVE FALSE
          BY <1>2, <5>2, <5>3, LinkFacts
        <5> QED
          BY <5>3
      <4> QED
        BY <3>2, <3>4, <4>1, <4>2
    <3>5. tries = 0 => links = before
      BY <1>1, <1>2 DEF ReplyTrue
    <3> QED
      BY <3>1, <3>2, <3>3, <3>4, <3>5
  <2> QED
    BY <2>3, <2>4
<1>13. ReadOK'
  <2>1. answer'.err = "OK" /\ req.op = "read" => answer'.part = Part(req)
    BY <1>6, ReplyFacts
  <2> QED
    BY <1>1, <1>2, <2>1 DEF ReadOK, Part
<1>14. ListOK'
  <2>1. CASE req.op = "readdir"
    <3> SUFFICES ASSUME grows PROVE ListOK'
      BY <1>1 DEF ListOK
    <3>1. links' = links /\ OneName(links)
      BY <1>2, <1>4, <2>1 DEF Changes, Creates, Deletes, ListOK
    <3>2. All' = All /\ FidsIn(links)' = FidsIn(links) /\ OneName(links)'
      BY <3>1 DEF All
    <3>3. Covered' = Covered
      BY <1>1, <3>2 DEF Covered
    <3> DEFINE to == Least(Len(All), cookie + MaxEntries)
    <3>4. answer'.err = "OK" => answer'.page = SubSeq(All, cookie + 1, to)
      BY <1>6, <2>1, ReplyFacts DEF Page, All
    <3>5. Len(All) \in Nat /\ cookie \in 0 .. Len(All)
      BY <1>2, <3>1, AllFacts DEF ListOK
    <3>6. to \in cookie .. Len(All) /\ (to = cookie => cookie = Len(All))
      BY <3>5, Bounds DEF Least
    <3>7. cookie = Len(All) => Covered
      BY <1>2, <3>1, AllFacts DEF ListOK, Covered
    <3> HIDE DEF to
    <3> QED
      BY <1>1, <1>2, <3>2, <3>3, <3>4, <3>5, <3>6, <3>7 DEF ListOK
  <2>2. CASE req.op # "readdir"
    BY <1>1, <1>2, <1>4, <2>2, ListGrows
  <2> QED
    BY <2>1, <2>2
<1> QED
  BY <1>4, <1>7, <1>10, <1>11, <1>12, <1>13, <1>14 DEF Inv, ClientInv

LEMMA ReceiveKeeps == ASSUME Inv, Receive PROVE Inv'
<1>1. /\ cpc = "replied" /\ cpc' = "idle" /\ result' = ToKernel(answer)
      /\ answer.err = "OK" => req.op \notin {"read", "readdir"}
      /\ UNCHANGED <<links, numbered, named, dirs, nextFid, req, tries, buf, cookie,
                     before, alone, listed, expected, grows, ended>>
  BY DEF Receive, Return, server, observed, disk, links
<1>2. TreeOK' /\ ReadOK' /\ ListOK'
  BY <1>1, TreeFrame, ReadFrame, ListFrame DEF Inv, ClientInv
<1>3. ClientOK'
  BY <1>1 DEF ClientOK, Inv, ClientInv
<1>4. ReplyTrue' /\ AtMostOnce'
  BY <1>1 DEF ReplyTrue, AtMostOnce, Undisturbed, Inv, ClientInv
<1>5. AnswerTrue'
  <2>1. Undisturbed' = Undisturbed
    BY <1>1 DEF Undisturbed
  <2>2. Undisturbed => Truthful(ToKernel(answer))
    BY <1>1 DEF ReplyTrue, Inv, ClientInv
  <2> QED
    BY <1>1, <2>1, <2>2 DEF AnswerTrue, Truthful
<1>6. ReadExact'
  <2>1. answer.err \in DOMAIN Errno \union {"OK"}
    BY <1>1 DEF ClientOK, Inv, ClientInv
  <2>2. answer.err # "OK" => ToKernel(answer).err # "OK"
    BY <2>1, KernelFacts
  <2> QED
    BY <1>1, <2>2 DEF ReadExact
<1> QED
  BY <1>2, <1>3, <1>4, <1>5, <1>6 DEF Inv, ClientInv

(* handle_read, as long as the read has the first bytes.                   *)
LEMMA PartFacts ==
  ASSUME NEW r \in Request, Len(buf) \in 0 .. r.count
  PROVE  \E k \in Nat :
            /\ Part(r) = [i \in 1 .. k |-> r.offset + Len(buf) + i]
            /\ Len(buf) + k <= r.count
            /\ k > 0 => r.offset + Len(buf) + k <= Length(r.dir)
            /\ k = 0 => \/ Len(buf) = r.count
                        \/ Length(r.dir) <= r.offset + Len(buf)
<1> DEFINE n == Len(buf)  from == r.offset + n
           most == Least(r.count - n, MaxBufLen)
           to == Least(Length(r.dir), from + most)
           k == IF to > from THEN to - from ELSE 0
<1>1. /\ n \in Nat /\ r.offset \in Nat /\ r.count \in Nat /\ n <= r.count
      /\ Length(r.dir) \in Nat /\ MaxBufLen \in Nat /\ MaxBufLen > 0
  BY RequestFacts, Bounds
<1> HIDE DEF n
<1>2. /\ most \in Nat /\ most <= r.count - n /\ (most = 0 => n = r.count)
  BY <1>1 DEF Least
<1> HIDE DEF most
<1>3. /\ to \in Nat /\ to <= Length(r.dir) /\ to <= from + most
      /\ to = Length(r.dir) \/ to = from + most
  BY <1>1, <1>2 DEF Least
<1>4. Part(r) = [i \in 1 .. to - from |-> from + i]
  BY DEF Part, n, most
<1> HIDE DEF to
<1>5. from \in Nat /\ k \in Nat
  BY <1>1, <1>3
<1>6. CASE to > from
  <2>1. k = to - from /\ k > 0
    BY <1>3, <1>5, <1>6
  <2> HIDE DEF k
  <2>2. from + k = to
    <3> HIDE DEF from
    <3> QED
      BY <1>3, <1>5, <2>1
  <2>3. k <= most
    <3> HIDE DEF from
    <3> QED
      BY <1>2, <1>3, <1>5, <2>2
  <2>4. n + k <= r.count
    BY <1>1, <1>2, <1>5, <2>3
  <2>5. Part(r) = [i \in 1 .. k |-> from + i]
    BY <1>4, <2>1
  <2> k \in Nat
    BY <1>5
  <2> WITNESS k \in Nat
  <2> QED
    BY <1>3, <2>1, <2>2, <2>4, <2>5 DEF n, from
<1>7. CASE ~(to > from)
  <2>1. k = 0 /\ 1 .. to - from = 1 .. 0
    BY <1>3, <1>5, <1>7
  <2> HIDE DEF k
  <2>2. n = r.count \/ Length(r.dir) <= from
    BY <1>1, <1>2, <1>3, <1>5, <1>7
  <2>3. n + k <= r.count
    BY <1>1, <2>1
  <2>4. Part(r) = [i \in 1 .. k |-> from + i]
    BY <1>4, <2>1
  <2> k \in Nat
    BY <1>5
  <2> WITNESS k \in Nat
  <2> QED
    BY <2>1, <2>2, <2>3, <2>4 DEF n, from
<1> QED
  BY <1>6, <1>7

LEMMA ReceivePartKeeps == ASSUME Inv, ReceivePart PROVE Inv'
<1>1. /\ cpc = "replied" /\ answer.err = "OK" /\ req.op = "read"
      /\ buf' = buf \o answer.part
      /\ \/ /\ ReadOver(answer.part) /\ cpc' = "idle"
            /\ result' = [err |-> "OK"] /\ tries' = tries
         \/ ~ReadOver(answer.part) /\ cpc' = "try" /\ tries' = 0
      /\ UNCHANGED <<links, numbered, named, dirs, nextFid, req, cookie, before,
                     alone, listed, expected, grows, ended>>
  BY DEF ReceivePart, Return, server, observed, disk, links
<1>2. /\ TreeOK /\ ClientOK /\ ReadOK /\ ListOK /\ AtMostOnce
      /\ req.op # "none" /\ req \in Request
      /\ req.op \notin Changes /\ req.op # "lookup"
  BY <1>1, RequestsAreReal DEF Inv, ClientInv, Changes, Creates, Deletes
<1>3. TreeOK' /\ ListOK'
  BY <1>1, <1>2, TreeFrame, ListFrame
<1>4. ClientOK'
  BY <1>1, <1>2, Bounds DEF ClientOK
<1>5. AtMostOnce' /\ (Undisturbed => links = before)
  BY <1>1, <1>2 DEF AtMostOnce, Undisturbed, Once, Half, Changes
<1>6. ReplyTrue' /\ AnswerTrue'
  <2>1. Undisturbed' = Undisturbed
    BY <1>1 DEF Undisturbed
  <2> QED
    BY <1>1, <1>2, <1>5, <2>1 DEF ReplyTrue, AnswerTrue, Truthful
<1> DEFINE n == Len(buf)  c == req.count  o == req.offset  end == Length(req.dir)
<1>7. /\ n \in 0 .. c /\ buf = [i \in 1 .. n |-> o + i]
      /\ n > 0 => o + n <= end
      /\ answer.part = Part(req)
      /\ n \in Nat /\ c \in Nat /\ o \in Nat /\ end \in Nat
  BY <1>1, <1>2, RequestFacts, Bounds DEF ReadOK
<1>8. PICK k \in Nat :
         /\ answer.part = [i \in 1 .. k |-> o + n + i]
         /\ n + k <= c
         /\ k > 0 => o + n + k <= end
         /\ k = 0 => n = c \/ end <= o + n
  BY <1>2, <1>7, PartFacts
<1> HIDE DEF n, c, o, end
<1>9. /\ Len(answer.part) = k
      /\ answer.part = <<>> <=> k = 0
      /\ Len(buf') = n + k
      /\ buf' = [i \in 1 .. n + k |-> o + i]
  <2> DEFINE p == [i \in 1 .. k |-> o + n + i]  b == [i \in 1 .. n |-> o + i]
  <2>1. p \in Seq(Nat) /\ Len(p) = k /\ b \in Seq(Nat) /\ Len(b) = n
    BY <1>7
  <2>2. b \o p = [i \in 1 .. n + k |-> IF i <= n THEN b[i] ELSE p[i - n]]
    BY <1>7, <2>1
  <2>3. ASSUME NEW i \in 1 .. n + k
        PROVE  (IF i <= n THEN b[i] ELSE p[i - n]) = o + i
    BY <1>7
  <2>4. b \o p = [i \in 1 .. n + k |-> o + i] /\ Len(b \o p) = n + k
    <3>1. Len(b \o p) = n + k
      BY <1>7, <2>1
    <3> HIDE DEF b, p
    <3> QED
      BY <2>2, <2>3, <3>1
  <2>5. p = <<>> <=> k = 0
    BY <2>1
  <2> HIDE DEF b, p
  <2>6. buf' = b \o p /\ answer.part = p
    BY <1>1, <1>7, <1>8 DEF b, p
  <2> QED
    BY <2>1, <2>4, <2>5, <2>6
<1>10. ReadOK'
  <2>1. n + k > 0 => o + (n + k) <= end
    BY <1>7, <1>8
  <2>2. n + k \in 0 .. c
    BY <1>7, <1>8
  <2>3. UNCHANGED <<c, o, end>> /\ cpc' # "replied"
    BY <1>1 DEF c, o, end
  <2> QED
    BY <1>9, <2>1, <2>2, <2>3 DEF ReadOK, c, o, end
<1>11. ReadExact'
  <2> SUFFICES ASSUME cpc' = "idle"
               PROVE  buf' = [i \in 1 .. Least(end, o + c) - o |-> o + i]
    BY <1>1 DEF ReadExact, c, o, end
  <2>1. k = 0 \/ n + k = c
    BY <1>1, <1>9 DEF ReadOver, n, c
  <2>2. 1 .. Least(end, o + c) - o = 1 .. n + k
    <3> DEFINE t == Least(end, o + c) - o
    <3>1. t = n + k \/ (t <= 0 /\ n + k = 0)
      BY <1>7, <1>8, <2>1 DEF Least
    <3>2. t \in Int
      BY <1>7 DEF Least
    <3> HIDE DEF t
    <3>3. 1 .. t = 1 .. n + k
      BY <3>1, <3>2
    <3> QED
      BY <3>3 DEF t
  <2> QED
    BY <1>9, <2>2
<1> QED
  BY <1>3, <1>4, <1>5, <1>6, <1>10, <1>11 DEF Inv, ClientInv

LEMMA SubSeqsJoin ==
  ASSUME NEW S, NEW s \in Seq(S), NEW a \in Nat, NEW k \in Nat, a + k <= Len(s)
  PROVE  SubSeq(s, 1, a) \o SubSeq(s, a + 1, a + k) = SubSeq(s, 1, a + k)
<1> DEFINE p == SubSeq(s, 1, a)  q == SubSeq(s, a + 1, a + k)
           t == SubSeq(s, 1, a + k)
<1>1. Len(s) \in Nat
  OBVIOUS
<1>2. p \in Seq(S) /\ Len(p) = a /\ \A i \in 1 .. a : p[i] = s[i]
  BY <1>1, Z3
<1>3. q \in Seq(S) /\ Len(q) = k /\ \A i \in 1 .. k : q[i] = s[a + i]
  BY <1>1, Z3
<1>4. t \in Seq(S) /\ Len(t) = a + k /\ \A i \in 1 .. a + k : t[i] = s[i]
  BY <1>1, Z3
<1> HIDE DEF p, q, t
<1>5. p \o q \in Seq(S) /\ Len(p \o q) = a + k
  <2>1. p \in Seq(S) /\ q \in Seq(S) /\ Len(p) = a /\ Len(q) = k
    BY <1>2, <1>3
  <2>2. p \o q \in Seq(S)
    BY <2>1
  <2>3. Len(p \o q) = Len(p) + Len(q)
    BY <2>1
  <2> QED
    BY <2>1, <2>2, <2>3
<1>6. ASSUME NEW i \in 1 .. a + k PROVE (p \o q)[i] = t[i]
  <2>1. CASE i <= a
    BY <1>2, <1>3, <1>4, <2>1
  <2>2. CASE i > a
    <3>1. i - a \in 1 .. k /\ a + (i - a) = i
      BY <2>2
    <3>2. (p \o q)[i] = q[i - a]
      BY <1>2, <1>3, <2>2, <3>1
    <3> QED
      BY <1>3, <1>4, <3>1, <3>2
  <2>3. i <= a \/ i > a
    OBVIOUS
  <2> QED
    BY <2>1, <2>2, <2>3
<1>7. p \o q = t
  BY <1>4, <1>5, <1>6
<1> QED
  BY <1>7 DEF p, q, t

LEMMA ReceivePageKeeps == ASSUME Inv, ReceivePage PROVE Inv'
<1>1. /\ cpc = "replied" /\ cpc' = "idle" /\ answer.err = "OK"
      /\ req.op = "readdir" /\ result' = [err |-> "OK"]
      /\ UNCHANGED <<links, numbered, named, dirs, nextFid, req, tries, buf,
                     before, alone, expected, grows>>
      /\ \/ answer.page = <<>> /\ ended' = TRUE /\ UNCHANGED <<listed, cookie>>
         \/ \E k \in 1 .. Len(answer.page) :
               /\ listed' = listed \o SubSeq(answer.page, 1, k)
               /\ cookie' = cookie + k
               /\ ended' = ended
  BY DEF ReceivePage, Return, Cookie, server, disk, links
<1>2. TreeOK /\ ClientOK /\ ListOK
  BY DEF Inv, ClientInv
<1>3. TreeOK' /\ ReadOK'
  BY <1>1, TreeFrame, ReadFrame DEF Inv, ClientInv
<1>4. ReplyTrue' /\ AtMostOnce' /\ ReadExact'
  BY <1>1
  DEF ReplyTrue, AtMostOnce, ReadExact, Undisturbed, Inv, ClientInv
<1>5. AnswerTrue'
  BY <1>1 DEF AnswerTrue, Truthful, Changes, Creates, Deletes
<1>6. SUFFICES ListOK' /\ cookie' \in Nat
  BY <1>1, <1>2, <1>3, <1>4, <1>5, <1>6 DEF Inv, ClientInv, ClientOK
<1>7. All' = All /\ FidsIn(links)' = FidsIn(links)
      /\ OneName(links)' = OneName(links)
  BY <1>1 DEF All
<1>8. cookie \in Nat
  BY <1>2 DEF ClientOK
<1>9. grows => Len(All) \in Nat /\ All \in Seq(FidsIn(links))
  BY <1>2, AllFacts DEF ListOK
<1>10. CASE answer.page = <<>> /\ ended' = TRUE /\ UNCHANGED <<listed, cookie>>
  <2>1. Covered' = Covered
    BY <1>1, <1>7, <1>10 DEF Covered
  <2>2. ASSUME grows PROVE Covered
    <3>1. PICK to \in cookie .. Len(All) :
             /\ answer.page = SubSeq(All, cookie + 1, to)
             /\ to = cookie => Covered
      BY <1>1, <1>2, <2>2 DEF ListOK
    <3>2. Len(SubSeq(All, cookie + 1, to)) = to - cookie
      BY <1>2, <1>8, <1>9, <2>2, <3>1
    <3>3. to = cookie
      BY <1>8, <1>10, <3>1, <3>2
    <3> QED
      BY <3>1, <3>3
  <2> QED
    BY <1>1, <1>2, <1>7, <1>8, <1>10, <1>9, <2>1, <2>2 DEF ListOK
<1>11. CASE \E k \in 1 .. Len(answer.page) :
               /\ listed' = listed \o SubSeq(answer.page, 1, k)
               /\ cookie' = cookie + k
               /\ ended' = ended
  <2>1. PICK k \in 1 .. Len(answer.page) :
               /\ listed' = listed \o SubSeq(answer.page, 1, k)
               /\ cookie' = cookie + k
               /\ ended' = ended
    BY <1>11
  <2>2. cookie' \in Nat
    BY <1>8, <2>1
  <2>3. ASSUME grows PROVE ListOK'
    <3>1. PICK to \in cookie .. Len(All) :
             answer.page = SubSeq(All, cookie + 1, to)
      BY <1>1, <1>2, <2>3 DEF ListOK
    <3>2. /\ cookie <= Len(All) /\ to <= Len(All) /\ to \in Nat /\ cookie <= to
          /\ listed = SubSeq(All, 1, cookie)
          /\ expected \subseteq FidsIn(links)
          /\ ended => Covered
      BY <1>2, <1>8, <1>9, <2>3, <3>1 DEF ListOK
    <3>3. k \in 1 .. to - cookie /\ k \in Nat
      <4>1. Len(SubSeq(All, cookie + 1, to)) = to - cookie
        BY <1>2, <1>8, <1>9, <2>2, <3>1
      <4> QED
        BY <1>8, <2>1, <3>1, <3>2, <4>1
    <3>4. All \in Seq(FidsIn(links)) /\ Len(All) \in Nat
      BY <1>9, <2>3
    <3>5. SubSeq(answer.page, 1, k) = SubSeq(All, cookie + 1, cookie + k)
      BY <1>8, <3>1, <3>2, <3>3, <3>4, Z3
    <3>6. listed' = SubSeq(All, 1, cookie + k)
      <4>1. listed' = SubSeq(All, 1, cookie) \o SubSeq(All, cookie + 1, cookie + k)
        BY <2>1, <3>2, <3>5
      <4>2. cookie + k <= Len(All) /\ k > 0
        BY <1>8, <3>2, <3>3, <3>4
      <4> QED
        BY <1>8, <3>3, <3>4, <4>1, <4>2, SubSeqsJoin
    <3>7. cookie' \in 0 .. Len(All)
      BY <1>8, <2>1, <3>2, <3>3, <3>4
    <3>8. Covered => Covered'
      <4>1. \A i \in 1 .. cookie : i \in 1 .. cookie'
        BY <1>8, <2>1, <3>3
      <4> QED
        BY <1>1, <1>7, <4>1 DEF Covered
    <3> QED
      BY <1>1, <1>2, <1>7, <2>1, <2>3, <3>2, <3>6, <3>7, <3>8 DEF ListOK
  <2>4. CASE ~grows
    BY <1>1, <2>2, <2>4 DEF ListOK
  <2> QED
    BY <2>2, <2>3, <2>4
<1> QED
  BY <1>1, <1>10, <1>11

(* Another client's request.                                               *)
LEMMA OtherKeeps == ASSUME Inv, Other PROVE Inv'
<1>1. PICK r \in OtherRequests : \E f \in Named(r) : Change(r, f)
  BY DEF Other
<1>2. /\ alone' = FALSE /\ grows' = (grows /\ Grew)
      /\ UNCHANGED <<cpc, req, tries, answer, result, buf, cookie, before, listed,
                     expected, ended>>
  BY DEF Other, client
<1>3. TreeOK'
  BY <1>1, ChangeKeeps, Bounds DEF Inv, ClientInv
<1>4. ClientOK'
  BY <1>2 DEF ClientOK, Grew, OneName, Inv, ClientInv
<1>5. ReplyTrue' /\ AtMostOnce' /\ AnswerTrue' /\ ReadExact'
  BY <1>2 DEF ReplyTrue, AtMostOnce, AnswerTrue, ReadExact, Undisturbed, Inv
<1>6. ReadOK'
  BY <1>2, ReadFrame DEF Inv, ClientInv
<1>7. ListOK'
  BY <1>2, <1>3, ListGrows DEF Inv, ClientInv
<1> QED
  BY <1>3, <1>4, <1>5, <1>6, <1>7 DEF Inv, ClientInv

(* A step that neither the client nor the tree notices.                    *)
LEMMA StandsStill ==
  ASSUME Inv, UNCHANGED <<links, numbered, named, dirs, nextFid, client, before,
                          alone, listed, expected, grows, ended>>
  PROVE  Inv'
<1>1. UNCHANGED <<links, numbered, named, dirs, nextFid, cpc, req, tries, answer,
                  result, buf, cookie, before, alone, listed, expected, grows,
                  ended>>
  BY DEF client
<1>2. TreeOK' /\ ReadOK' /\ ListOK'
  BY <1>1, TreeFrame, ReadFrame, ListFrame DEF Inv, ClientInv
<1>3. ClientOK'
  BY <1>1 DEF ClientOK, Inv, ClientInv
<1>4. Truthful(result)' = Truthful(result)
  BY <1>1 DEF Truthful
<1>5. Truthful(ToKernel(answer))' = Truthful(ToKernel(answer))
  BY <1>1 DEF Truthful, ToKernel
<1>6. ReplyTrue' /\ AtMostOnce' /\ AnswerTrue' /\ ReadExact'
  BY <1>1, <1>4, <1>5
  DEF ReplyTrue, AtMostOnce, AnswerTrue, ReadExact, Undisturbed, Inv, ClientInv
<1> QED
  BY <1>2, <1>3, <1>6 DEF Inv, ClientInv

(* A crash that finds the tree as it is between two requests.              *)
LEMMA QuietCrashKeeps ==
  ASSUME Inv, Crash, UNCHANGED <<disk, alone>>
  PROVE  Inv'
<1>1. UNCHANGED <<links, numbered, named, dirs, nextFid, before, alone, listed,
                  expected, ended>>
  BY DEF Crash, disk, links
<1>2. grows' = grows
  <2>1. grows' = (grows /\ Grew) /\ grows \in BOOLEAN
    BY DEF Crash, ClientOK, Inv, ClientInv
  <2>2. grows => Grew
    BY <1>1 DEF ListOK, Grew, Inv, ClientInv, OneName
  <2> QED
    BY <2>1, <2>2
<1>3. CASE cpc \in {"sent", "replied"}
  BY <1>1, <1>2, <1>3, FailedKeeps DEF Crash
<1>4. CASE cpc \notin {"sent", "replied"}
  BY <1>1, <1>2, <1>4, StandsStill DEF Crash
<1> QED
  BY <1>3, <1>4

(* The handler of this client's own request is cut off.                    *)
LEMMA OwnCrashKeeps ==
  ASSUME Inv, Crash, cpc = "sent", Cut(req), alone' = alone
  PROVE  Inv'
<1>1. /\ cpc' = "try" /\ tries' = Least(tries + 1, MaxTries)
      /\ grows' = (grows /\ Grew)
      /\ UNCHANGED <<req, result, buf, cookie, before, alone, listed, expected,
                     ended>>
  BY DEF Crash, Failed
<1>2. TreeOK /\ ClientOK /\ ReadOK /\ ListOK /\ req \in Request
  BY RequestsAreReal DEF Inv, ClientInv, ClientOK
<1>3. tries' \in 0 .. MaxTries /\ tries' # 0
  BY <1>1, <1>2, Bounds DEF Least, ClientOK
<1>4. PICK f \in Named(req) :
         /\ TreeOK' /\ Error(req, f) = "OK"
         /\ (f # None => <<req.dir, req.name, f>> \in links) =>
               \/ links' = links
               \/ Once(req, links, links') \/ Half(req, links, links')
  BY <1>2, CutKeeps
<1>5. ClientOK'
  BY <1>1, <1>2, <1>3 DEF ClientOK, Grew, OneName
<1>6. ReadOK' /\ ListOK'
  BY <1>1, <1>2, <1>4, ReadFrame, ListGrows
<1>7. AtMostOnce'
  <2> SUFFICES ASSUME Undisturbed
               PROVE  \/ links' = before
                      \/ Once(req, before, links') \/ Half(req, before, links')
    BY <1>1 DEF AtMostOnce, Undisturbed
  <2>1. Clear(req, before) /\ Literal(req.name)
    BY DEF Undisturbed, Clear
  <2>2. links = before
    BY <1>2, <1>4, <2>1, OnceIsEnough DEF AtMostOnce, Inv
  <2>3. f # None => <<req.dir, req.name, f>> \in links
    BY <1>2, <2>1, ClearFinds
  <2> QED
    BY <1>4, <2>2, <2>3
<1>8. ReplyTrue' /\ AnswerTrue' /\ ReadExact'
  BY <1>1, <1>3 DEF ReplyTrue, AnswerTrue, ReadExact
<1> QED
  BY <1>4, <1>5, <1>6, <1>7, <1>8 DEF Inv, ClientInv

(* The handler of another client's request is cut off.                     *)
LEMMA OtherCrashKeeps ==
  ASSUME Inv, Crash, alone' = FALSE, NEW r \in OtherRequests, Cut(r)
  PROVE  Inv'
<1>1. /\ grows' = (grows /\ Grew)
      /\ UNCHANGED <<req, result, buf, cookie, before, listed, expected, ended>>
      /\ \/ cpc' = "try" /\ tries' = Least(tries + 1, MaxTries) /\ cpc # "idle"
         \/ UNCHANGED <<cpc, tries, answer>>
  BY DEF Crash, Failed, client
<1>2. TreeOK /\ ClientOK /\ ReadOK /\ ListOK
  BY DEF Inv, ClientInv
<1>3. TreeOK'
  BY <1>2, Bounds, CutKeeps
<1>4. tries' \in 0 .. MaxTries
  BY <1>1, <1>2, Bounds DEF Least, ClientOK
<1>5. ClientOK'
  BY <1>1, <1>2, <1>4 DEF ClientOK, Grew, OneName
<1>6. ReadOK' /\ ListOK'
  BY <1>1, <1>2, <1>3, ReadFrame, ListGrows
<1>7. ReplyTrue' /\ AtMostOnce' /\ AnswerTrue' /\ ReadExact'
  BY <1>1 DEF ReplyTrue, AtMostOnce, AnswerTrue, ReadExact, Undisturbed, Inv
<1> QED
  BY <1>3, <1>5, <1>6, <1>7 DEF Inv, ClientInv

LEMMA StepKeeps == ASSUME Inv, [Next]_vars PROVE Inv'
<1>1. CASE Start
  BY <1>1, StartKeeps
<1>2. CASE Send
  BY <1>2, SendKeeps
<1>3. CASE Refused \/ Break
  <2>1. /\ cpc \in {"try", "sent", "replied"} /\ Failed
        /\ UNCHANGED <<links, numbered, named, dirs, nextFid, before, alone,
                       listed, expected, grows, ended>>
    BY <1>3 DEF Refused, Break, server, disk, links, observed
  <2> QED
    BY <2>1, FailedKeeps
<1>4. CASE GiveUp
  BY <1>4, GiveUpKeeps
<1>5. CASE Execute
  BY <1>5, ExecuteKeeps
<1>6. CASE Receiving
  BY <1>6, ReceiveKeeps, ReceivePartKeeps, ReceivePageKeeps DEF Receiving
<1>7. CASE Other
  BY <1>7, OtherKeeps
<1>8. CASE Crash
  <2>1. \/ UNCHANGED <<disk, alone>>
        \/ cpc = "sent" /\ Cut(req) /\ alone' = alone
        \/ alone' = FALSE /\ \E r \in OtherRequests : Cut(r)
    BY <1>8 DEF Crash
  <2> QED
    BY <1>8, <2>1, QuietCrashKeeps, OwnCrashKeeps, OtherCrashKeeps
<1>9. CASE Restart
  BY <1>9, StandsStill DEF Restart, disk, links, observed
<1>10. CASE UNCHANGED vars
  BY <1>10, StandsStill DEF vars, server, disk, links, observed
<1> QED
  BY <1>1, <1>2, <1>3, <1>4, <1>5, <1>6, <1>7, <1>8, <1>9, <1>10 DEF Next

LEMMA AlwaysInv == Spec => []Inv
<1>1. Inv /\ [Next]_vars => Inv'
  BY StepKeeps
<1> QED
  BY <1>1, InitInv, PTL DEF Spec

-----------------------------------------------------------------------------
(* What the client and the application can rely on.                        *)

(* What the others rest on: FIDs not given out are in use nowhere and what *)
(* clients see has a path, a handler cut off at any system call included;  *)
(* the reply on its way to an undisturbed request is true; a read has its  *)
(* first bytes; the listing of a growing directory is a beginning of it.   *)
THEOREM ClientInvariant == Spec => []ClientInv
<1>1. Inv => ClientInv
  BY DEF Inv
<1> QED
  BY <1>1, AlwaysInv, PTL

(* do_with_retry (client_fuse.rs:106-152) may send a request any number of *)
(* times, and the server may crash within any of them: a request whose     *)
(* names are clear and that no other client disturbs changes the tree once *)
(* or not at all, or leaves a file renamed in its directory both names.    *)
THEOREM TakesEffectOnce == Spec => []AtMostOnce
<1>1. Inv => AtMostOnce
  BY DEF Inv
<1> QED
  BY <1>1, AlwaysInv, PTL

(* Success and errors mean what they say for such a request, after retries *)
(* and crashes too.                                                        *)
THEOREM AnswersAreTrue == Spec => []AnswerTrue
<1>1. Inv => AnswerTrue
  BY DEF Inv
<1> QED
  BY <1>1, AlwaysInv, PTL

(* A read returns the bytes asked for up to the end of the file, whatever  *)
(* the size of the buffer of one call (client_fuse.rs:516-542).            *)
THEOREM ReadsAreExact == Spec => []ReadExact
<1>1. Inv => ReadExact
  BY DEF Inv
<1> QED
  BY <1>1, AlwaysInv, PTL

(* A directory that grows while it is listed is listed with every file it  *)
(* had, each once, whatever fits into a page (mod.rs:1172-1199).           *)
THEOREM ListingsAreComplete == Spec => []ListingComplete
<1>1. ASSUME Inv PROVE ListingComplete
  <2> SUFFICES ASSUME ended, grows
               PROVE  /\ \A f \in expected : \E i \in DOMAIN listed : listed[i] = f
                      /\ \A i, k \in DOMAIN listed : listed[i] = listed[k] => i = k
    BY DEF ListingComplete
  <2>1. /\ TreeOK /\ OneName(links) /\ Covered /\ cookie \in 0 .. Len(All)
        /\ listed = SubSeq(All, 1, cookie)
    BY <1>1 DEF Inv, ClientInv, ListOK
  <2>2. /\ All \in Seq(FidsIn(links)) /\ Len(All) \in Nat
        /\ \A i, k \in 1 .. Len(All) : All[i] = All[k] => i = k
    BY <2>1, AllFacts
  <2>3. /\ DOMAIN listed = 1 .. cookie
        /\ \A i \in 1 .. cookie : listed[i] = All[i]
    BY <2>1, <2>2, Z3
  <2>4. \A i \in 1 .. cookie : i \in 1 .. Len(All)
    BY <2>1, <2>2
  <2>5. \A f \in expected : \E i \in DOMAIN listed : listed[i] = f
    BY <2>1, <2>3 DEF Covered
  <2>6. ASSUME NEW i \in 1 .. cookie, NEW k \in 1 .. cookie, listed[i] = listed[k]
        PROVE  i = k
    BY <2>2, <2>3, <2>4, <2>6
  <2> QED
    BY <2>3, <2>5, <2>6
<1>2. Inv => ListingComplete
  BY <1>1
<1> QED
  BY <1>2, AlwaysInv, PTL
=============================================================================
