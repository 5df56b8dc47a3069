--------------------------- MODULE Normalize_proofs ---------------------------
(***************************************************************************)
(* What holds of Normalize over any tar, read in any order: what is kept   *)
(* is the tree the tar means, and what is refused has a fault.  And of     *)
(* Untar beside it: the two read one tree out of an archive both accept.   *)
(***************************************************************************)
EXTENDS Untar, Paths_proofs, FiniteSetTheorems

Path == Seq(Name)
Clean == Seq(Name \ IgnoredNames)

-----------------------------------------------------------------------------
(* What is defined by a recursion over numbers exists: the values a        *)
(* function leads through, one after the other.                            *)

LeadsOn(c, X, x, step, n) ==
    /\ c \in [0 .. n -> X]
    /\ c[0] = x /\ \A i \in 1 .. n : c[i] = step[c[i - 1]]

LEMMA Iterates ==
    ASSUME NEW X, NEW x \in X, NEW step \in [X -> X], NEW n \in Nat
    PROVE  \E c : LeadsOn(c, X, x, step, n)
<1> DEFINE Has(m) == \E c \in [0 .. m -> X] : c[0] = x /\ \A i \in 1 .. m : c[i] = step[c[i - 1]]
           Lacking == {m \in Nat : ~Has(m)}
<1> SUFFICES ASSUME Lacking # {} PROVE FALSE
  BY DEF Lacking, LeadsOn
<1>1. PICK m \in Lacking : \A h \in Lacking : m <= h
  <2>1. Lacking \in SUBSET Nat
    BY DEF Lacking
  <2> HIDE DEF Lacking
  <2> QED BY <2>1, LeastMember
<1>2. Has(0)
  <2>1. [i \in 0 .. 0 |-> x] \in [0 .. 0 -> X] /\ [i \in 0 .. 0 |-> x][0] = x
    OBVIOUS
  <2>2. ~\E i \in 1 .. 0 : TRUE
    OBVIOUS
  <2>3. \A i \in 1 .. 0 : [h \in 0 .. 0 |-> x][i] = step[[h \in 0 .. 0 |-> x][i - 1]]
    BY <2>2
  <2> QED BY <2>1, <2>3
<1>3. m \in Nat /\ m # 0
  BY <1>1, <1>2
<1>4. m - 1 \in Nat /\ Has(m - 1)
  BY <1>1, <1>3
<1>5. PICK c \in [0 .. m - 1 -> X] : c[0] = x /\ \A i \in 1 .. m - 1 : c[i] = step[c[i - 1]]
  BY <1>4
<1> DEFINE d == [i \in 0 .. m |-> IF i = m THEN step[c[m - 1]] ELSE c[i]]
<1>6. d \in [0 .. m -> X]
  <2>1. c[m - 1] \in X
    BY <1>3, <1>5
  <2>2. \A i \in 0 .. m : i # m => i \in 0 .. m - 1
    BY <1>3
  <2> QED BY <1>5, <2>1, <2>2
<1>7. d[0] = x
  BY <1>3, <1>5
<1>8. ASSUME NEW i \in 1 .. m PROVE d[i] = step[d[i - 1]]
  <2>1. i - 1 \in 0 .. m /\ i - 1 # m /\ d[i - 1] = c[i - 1]
    BY <1>3
  <2>2. CASE i = m
    BY <1>3, <2>1, <2>2
  <2>3. CASE i # m
    <3>1. i \in 1 .. m - 1 /\ d[i] = c[i]
      BY <1>3, <2>3
    <3> QED BY <1>5, <2>1, <3>1
  <2> QED BY <2>2, <2>3
<1>9. Has(m)
  <2> HIDE DEF d
  <2> QED BY <1>6, <1>7, <1>8
<1> QED BY <1>1, <1>9

-----------------------------------------------------------------------------
(* Following links, one after the other.                                   *)

OnPaths(to) == \A l \in DOMAIN to : l \in Path \ {<<>>} /\ to[l] \in Path

LEMMA FirstFollowed ==
    ASSUME NEW to, OnPaths(to), NEW p \in Path, LinkedAt(p, to) # {}
    PROVE  \E l \in DOMAIN to, x \in Path : p = l \o x /\ FollowFirst(p, to) = to[l] \o x
<1>1. Len(p) \in Nat /\ DOMAIN p = 1 .. Len(p)
  BY LenProperties DEF Path
<1>2. LinkedAt(p, to) \in SUBSET Nat
  BY <1>1 DEF LinkedAt
<1>3. \E j \in LinkedAt(p, to) : \A h \in LinkedAt(p, to) : j <= h
  BY <1>2, LeastMember
<1> DEFINE i == CHOOSE j \in LinkedAt(p, to) : \A h \in LinkedAt(p, to) : j <= h
<1>4. i \in LinkedAt(p, to) /\ FollowFirst(p, to) = to[SubSeq(p, 1, i)] \o SubSeq(p, i + 1, Len(p))
  BY <1>3 DEF FollowFirst
<1> HIDE DEF i
<1>5. i \in 1 .. Len(p) /\ SubSeq(p, 1, i) \in DOMAIN to
  BY <1>1, <1>4 DEF LinkedAt
<1>6. SubSeq(p, i + 1, Len(p)) \in Path
  <2>1. i + 1 \in Int /\ Len(p) \in Int /\ \A h \in i + 1 .. Len(p) : p[h] \in Name
    BY <1>1, <1>5 DEF Path
  <2> QED BY <2>1, SubSeqProperties DEF Path
<1>7. SubSeq(p, 1, Len(p)) = SubSeq(p, 1, i) \o SubSeq(p, i + 1, Len(p)) /\ SubSeq(p, 1, Len(p)) = p
  <2>1. 1 \in 1 .. Len(p) + 1 /\ i \in 1 - 1 .. Len(p) /\ Len(p) \in i .. Len(p)
    BY <1>1, <1>5
  <2>2. p \in Seq(Name)
    BY DEF Path
  <2>3. SubSeq(p, 1, i) \o SubSeq(p, i + 1, Len(p)) = SubSeq(p, 1, Len(p))
    BY <2>1, <2>2, ConcatAdjacentSubSeq, Zenon
  <2> QED BY <2>2, <2>3, SubSeqFull
<1> QED BY <1>4, <1>5, <1>6, <1>7

(* The paths met on the way, and the last of them.                         *)
Way(c, p, to, limit) ==
    /\ c \in [0 .. limit -> Path]
    /\ c[0] = p
    /\ \A i \in 1 .. limit :
         c[i] = IF LinkedAt(c[i - 1], to) = {} THEN c[i - 1] ELSE FollowFirst(c[i - 1], to)
    /\ Followed(p, to, limit) = IF LinkedAt(c[limit], to) = {} THEN c[limit] ELSE Loops

LEMMA FollowedIs ==
    ASSUME NEW to, OnPaths(to), NEW p \in Path, NEW limit \in Nat
    PROVE  \E c : Way(c, p, to, limit)
<1> DEFINE Turn(q) == IF LinkedAt(q, to) = {} THEN q ELSE FollowFirst(q, to)
           step == [q \in Path |-> Turn(q)]
<1>1. ASSUME NEW q \in Path PROVE Turn(q) \in Path
  <2>1. CASE LinkedAt(q, to) = {}
    BY <2>1
  <2>2. CASE LinkedAt(q, to) # {}
    <3>1. PICK l \in DOMAIN to, x \in Path : FollowFirst(q, to) = to[l] \o x
      BY <2>2, FirstFollowed
    <3>2. to[l] \in Path
      BY DEF OnPaths
    <3>3. to[l] \o x \in Path
      BY <3>2, ConcatProperties DEF Path
    <3> QED BY <2>2, <3>1, <3>3
  <2> QED BY <2>1, <2>2
<1>2. step \in [Path -> Path]
  BY <1>1
<1>3. PICK c \in [0 .. limit -> Path] : c[0] = p /\ \A i \in 1 .. limit : c[i] = step[c[i - 1]]
  <2> HIDE DEF step
  <2>1. \E c : LeadsOn(c, Path, p, step, limit)
    BY <1>2, Iterates
  <2> QED BY <2>1 DEF LeadsOn
<1>4. ASSUME NEW i \in 1 .. limit PROVE c[i - 1] \in Path /\ c[i] = Turn(c[i - 1])
  <2>1. i - 1 \in 0 .. limit
    OBVIOUS
  <2>2. c[i - 1] \in Path
    BY <2>1
  <2> QED BY <1>3, <2>2
<1> DEFINE F(g) == [depth \in 0 .. limit |->
                      IF depth = 0 THEN p
                      ELSE IF LinkedAt(g[depth - 1], to) = {} THEN g[depth - 1]
                      ELSE FollowFirst(g[depth - 1], to)]
           at == CHOOSE g : g = F(g)
<1>5. Followed(p, to, limit) = IF LinkedAt(at[limit], to) = {} THEN at[limit] ELSE Loops
  BY DEF Followed
<1>6. c = F(c)
  <2>1. \A i \in 0 .. limit : c[i] = F(c)[i]
    <3> TAKE i \in 0 .. limit
    <3>1. CASE i = 0
      BY <1>3, <3>1
    <3>2. CASE i # 0
      <4>1. i \in 1 .. limit
        BY <3>2
      <4> QED BY <1>4, <3>2, <4>1
    <3> QED BY <3>1, <3>2
  <2>2. DOMAIN c = 0 .. limit /\ DOMAIN F(c) = 0 .. limit /\ F(c) = [i \in 0 .. limit |-> F(c)[i]]
    OBVIOUS
  <2> QED BY <2>1, <2>2
<1>7. ASSUME NEW g, g = F(g) PROVE g = c
  <2> DEFINE Apart == {i \in 0 .. limit : g[i] # c[i]}
  <2>1. ASSUME Apart # {} PROVE FALSE
    <3>1. PICK i \in Apart : \A h \in Apart : i <= h
      <4>1. Apart \in SUBSET Nat
        BY DEF Apart
      <4> HIDE DEF Apart
      <4> QED BY <2>1, <4>1, LeastMember
    <3>2. i \in 0 .. limit /\ g[i] # c[i] /\ g[i] = F(g)[i] /\ c[i] = F(c)[i]
      BY <1>6, <1>7, <3>1
    <3>3. CASE i = 0
      BY <3>2, <3>3
    <3>4. CASE i # 0
      <4>1. i - 1 \in 0 .. limit /\ ~(i <= i - 1)
        BY <3>2, <3>4
      <4>2. g[i - 1] = c[i - 1]
        BY <3>1, <4>1
      <4> QED BY <3>2, <3>4, <4>2
    <3> QED BY <3>3, <3>4
  <2>2. \A i \in 0 .. limit : g[i] = c[i]
    BY <2>1
  <2>3. g = [i \in 0 .. limit |-> g[i]]
    <3>1. g = [depth \in 0 .. limit |-> F(g)[depth]] /\ \A i \in 0 .. limit : F(g)[i] = g[i]
      BY <1>7
    <3> QED BY <3>1
  <2>4. c = [i \in 0 .. limit |-> c[i]]
    OBVIOUS
  <2> QED BY <2>2, <2>3, <2>4
<1>8. at = c
  <2> HIDE DEF F
  <2> QED BY <1>6, <1>7
<1> QED
  <2> HIDE DEF at, F
  <2>1. \A i \in 1 .. limit :
          c[i] = IF LinkedAt(c[i - 1], to) = {} THEN c[i - 1] ELSE FollowFirst(c[i - 1], to)
    BY <1>4
  <2>2. Way(c, p, to, limit)
    BY <1>3, <1>5, <1>8, <2>1 DEF Way
  <2> QED BY <2>2

LEMMA InsideItself == \A p \in Path : Inside(p, p)
BY LenProperties, SubSeqFull DEF Inside, IsPathPrefix, Path

LEMMA LoopsIsNoPath == Loops \notin Path
<1> SUFFICES ASSUME Loops \in Seq(Name) PROVE FALSE
  BY DEF Path
<1>1. Len(Loops) = 1 /\ Loops[1] = BadName
  BY DEF Loops
<1>2. Loops[1] \in Name
  BY <1>1, ElementOfSeq
<1> QED BY <1>1, <1>2, NamesAssumption

-----------------------------------------------------------------------------
(* Paths, concatenated and taken apart.                                    *)

LEMMA PathCat ==
    ASSUME NEW p \in Path, NEW q \in Path
    PROVE  /\ p \o q \in Path
           /\ Len(p) \in Nat /\ Len(q) \in Nat /\ Len(p \o q) = Len(p) + Len(q)
           /\ Inside(p, p \o q) /\ Rel(p, p \o q) = q
           /\ q # <<>> => StrictlyInside(p, p \o q)
<1>1. p \in Seq(Name) /\ q \in Seq(Name)
  BY DEF Path
<1>2. p \o q \in Path /\ Len(p \o q) = Len(p) + Len(q)
  BY <1>1, ConcatProperties DEF Path
<1>3. Inside(p, p \o q) /\ Rel(p, p \o q) = q
  BY <1>1, RelOfConcat
<1>4. q # <<>> => p \o q # p
  BY <1>1, ConcatEqualIffEmpty
<1>5. Len(p) \in Nat /\ Len(q) \in Nat
  BY <1>1, LenProperties
<1> QED BY <1>2, <1>3, <1>4, <1>5 DEF StrictlyInside

LEMMA PathAssoc ==
    ASSUME NEW p \in Path, NEW q \in Path, NEW x \in Path
    PROVE  (p \o q) \o x = p \o (q \o x)
BY ConcatAssociative DEF Path

LEMMA PathSplit ==
    ASSUME NEW p \in Path, NEW q \in Path, Inside(p, q)
    PROVE  /\ Rel(p, q) \in Path /\ q = p \o Rel(p, q)
           /\ p # q => Rel(p, q) # <<>>
<1>1. Rel(p, q) \in Path /\ q = p \o Rel(p, q)
  BY InsideSplits DEF Path
<1>2. p \o <<>> = p
  BY ConcatEmptySeq DEF Path
<1> QED BY <1>1, <1>2

LEMMA PathEmpty == <<>> \in Path /\ \A p \in Path : p \o <<>> = p /\ <<>> \o p = p
<1>1. <<>> \in Path
  BY EmptySeq DEF Path
<1>2. ASSUME NEW p \in Path PROVE p \o <<>> = p /\ <<>> \o p = p
  BY ConcatEmptySeq DEF Path
<1> QED BY <1>1, <1>2

LEMMA PathCancel ==
    ASSUME NEW p \in Path, NEW q \in Path, NEW x \in Path, p \o q = p \o x
    PROVE  q = x
<1>1. Rel(p, p \o q) = q /\ Rel(p, p \o x) = x
  BY PathCat
<1> QED BY <1>1

LEMMA PathChain ==
    ASSUME NEW p \in Path, NEW q \in Path, NEW x \in Path, Inside(p, x), Inside(q, x)
    PROVE  Inside(p, q) \/ Inside(q, p)
BY InsideIsAChain DEF Path

LEMMA PathPart ==
    ASSUME NEW p \in Path, NEW m \in Nat, NEW n \in Int, n <= Len(p)
    PROVE  SubSeq(p, m + 1, n) \in Path
<1>1. Len(p) \in Nat /\ \A i \in 1 .. Len(p) : p[i] \in Name
  BY DEF Path
<1>2. m + 1 \in Int /\ n \in Int /\ \A i \in m + 1 .. n : p[i] \in Name
  BY <1>1
<1> QED BY <1>2, SubSeqProperties DEF Path

-----------------------------------------------------------------------------
(* What a tar's entries mean.                                              *)

At(p, e) == [path |-> p, from |-> e]
Universe == [path : Path, from : KeptFiles]

LEMMA KeptEntry ==
    ASSUME tar \in Tars, NEW e \in Kept
    PROVE  /\ e \in tar /\ IsEntry(e) /\ e.down \in Path
           /\ e.path \in Path /\ e.path \in Clean /\ e.path # <<>>
           /\ PointsTo(e) \in Path
<1>1. e \in tar /\ e.path # BadName /\ ~Dropped(e)
  BY DEF Kept
<1>2. IsEntry(e) /\ e.down \in Seq(Name) /\ e.path \in Seq(Name)
  BY <1>1, TarsAssumption
<1>3. e.path # <<>> /\ ~IsIgnored(e.path)
  BY <1>1 DEF Dropped
<1>4. Len(e.path) \in Nat /\ DOMAIN e.path = 1 .. Len(e.path)
  BY <1>2, LenProperties
<1>5. \A i \in 1 .. Len(e.path) : e.path[i] \in Name \ IgnoredNames
  BY <1>2, <1>3, <1>4 DEF IsIgnored
<1>6. SubSeq(e.path, 1, Len(e.path)) \in Clean
  <2>1. 1 \in Int /\ Len(e.path) \in Int
    BY <1>4
  <2> QED BY <1>5, <2>1, SubSeqProperties DEF Clean
<1>7. e.path \in Clean
  BY <1>2, <1>6, SubSeqFull
<1>8. e.path \in Path /\ e.down \in Path
  BY <1>2 DEF Path
<1>9. Parent(e.path) \in Path
  <2>1. Len(e.path) - 1 \in Int /\ Len(e.path) - 1 <= Len(e.path) /\ 0 \in Nat
    BY <1>4
  <2>2. SubSeq(e.path, 0 + 1, Len(e.path) - 1) \in Path
    BY <1>8, <2>1, PathPart
  <2> QED BY <2>2 DEF Parent
<1>10. PointsTo(e) \in Path
  <2> DEFINE d == Parent(e.path)
  <2>1. Len(d) \in Nat /\ e.up \in Nat
    BY <1>2, <1>9, LenProperties DEF Path, IsEntry
  <2>2. Len(d) - e.up \in Int /\ Len(d) - e.up <= Len(d) /\ 0 \in Nat
    BY <2>1
  <2>3. SubSeq(d, 0 + 1, Len(d) - e.up) \in Path
    <3> HIDE DEF d
    <3> QED BY <1>9, <2>2, PathPart DEF d
  <2>4. SubSeq(d, 0 + 1, Len(d) - e.up) \o e.down \in Path
    BY <1>8, <2>3, PathCat
  <2> QED BY <2>4 DEF PointsTo, JoinSource
<1> QED BY <1>1, <1>2, <1>3, <1>7, <1>8, <1>10

LEMMA InUniverse ==
    ASSUME NEW f \in Universe
    PROVE  f.path \in Path /\ f.from \in KeptFiles /\ f = At(f.path, f.from)
           /\ \A p : [f EXCEPT !.path = p] = At(p, f.from)
BY DEF Universe, At

LEMMA AtInUniverse ==
    ASSUME NEW p \in Path, NEW e \in KeptFiles
    PROVE  At(p, e) \in Universe /\ At(p, e).path = p /\ At(p, e).from = e
BY DEF Universe, At

LEMMA StartInUniverse ==
    ASSUME tar \in Tars
    PROVE  Start \subseteq Universe /\ \A f \in Start : f = AsFile(f.from) /\ f.path = f.from.path
<1> SUFFICES ASSUME NEW e \in KeptFiles
             PROVE  /\ AsFile(e) \in Universe
                    /\ AsFile(e).from = e /\ AsFile(e).path = e.path
  BY DEF Start
<1>1. e.path \in Path
  BY KeptEntry DEF KeptFiles
<1> QED BY <1>1 DEF AsFile, Universe

(* A set of files that holds what is in the tar and what links add to it.  *)
Closed(S) ==
    /\ S \subseteq Universe
    /\ Start \subseteq S
    /\ Linked(S) \subseteq S
Least == {f \in Universe : \A S \in SUBSET Universe : Closed(S) => f \in S}

LEMMA LinkedIs ==
    ASSUME tar \in Tars, NEW S, S \subseteq Universe
    PROVE  /\ \A f \in Linked(S) : \E l \in KeptLinks, x \in Path :
                /\ At(PointsTo(l) \o x, f.from) \in S
                /\ f = At(l.path \o x, f.from) /\ f.from \in KeptFiles
           /\ \A l \in KeptLinks, x \in Path, e \in KeptFiles :
                At(PointsTo(l) \o x, e) \in S => At(l.path \o x, e) \in Linked(S)
<1>1. ASSUME NEW l \in KeptLinks PROVE l.path \in Path /\ PointsTo(l) \in Path
  BY KeptEntry DEF KeptLinks
<1>2. ASSUME NEW f \in Linked(S)
      PROVE  \E l \in KeptLinks, x \in Path :
                /\ At(PointsTo(l) \o x, f.from) \in S
                /\ f = At(l.path \o x, f.from) /\ f.from \in KeptFiles
  <2>1. PICK l \in KeptLinks, g \in S :
             Inside(PointsTo(l), g.path) /\ f = [g EXCEPT !.path = l.path \o Rel(PointsTo(l), g.path)]
    BY DEF Linked
  <2>2. /\ g.path \in Path /\ g.from \in KeptFiles /\ g = At(g.path, g.from)
        /\ f = At(l.path \o Rel(PointsTo(l), g.path), g.from)
    BY <2>1, InUniverse
  <2>3. f.from = g.from
    BY <2>2 DEF At
  <2>4. Rel(PointsTo(l), g.path) \in Path /\ g.path = PointsTo(l) \o Rel(PointsTo(l), g.path)
    BY <1>1, <2>1, <2>2, PathSplit
  <2> QED BY <2>1, <2>2, <2>3, <2>4
<1>3. ASSUME NEW l \in KeptLinks, NEW x \in Path, NEW e \in KeptFiles, At(PointsTo(l) \o x, e) \in S
      PROVE  At(l.path \o x, e) \in Linked(S)
  <2> DEFINE g == At(PointsTo(l) \o x, e)
  <2>1. PointsTo(l) \o x \in Path /\ Inside(PointsTo(l), PointsTo(l) \o x) /\ Rel(PointsTo(l), PointsTo(l) \o x) = x
    BY <1>1, PathCat
  <2>2. g \in Universe /\ g.path = PointsTo(l) \o x /\ g.from = e
    BY <2>1, AtInUniverse
  <2>3. [g EXCEPT !.path = l.path \o Rel(PointsTo(l), g.path)] = At(l.path \o x, e)
    BY <2>1, <2>2, InUniverse
  <2>4. g \in {h \in S : Inside(PointsTo(l), h.path)}
    BY <1>3, <2>1, <2>2
  <2> HIDE DEF g
  <2> DEFINE Adds(m) == {[h EXCEPT !.path = m.path \o Rel(PointsTo(m), h.path)] :
                            h \in {k \in S : Inside(PointsTo(m), k.path)}}
  <2>5. At(l.path \o x, e) \in Adds(l)
    BY <2>3, <2>4
  <2>6. Linked(S) = UNION {Adds(m) : m \in KeptLinks}
    BY DEF Linked
  <2> HIDE DEF Adds
  <2> QED BY <2>5, <2>6
<1> QED BY <1>2, <1>3

LEMMA LinkedGrows ==
    ASSUME NEW S, NEW T, S \subseteq T
    PROVE  Linked(S) \subseteq Linked(T)
<1> SUFFICES ASSUME NEW f \in Linked(S) PROVE f \in Linked(T)
  OBVIOUS
<1>1. PICK l \in KeptLinks, g \in S :
           Inside(PointsTo(l), g.path) /\ f = [g EXCEPT !.path = l.path \o Rel(PointsTo(l), g.path)]
  BY DEF Linked
<1>2. g \in {k \in T : Inside(PointsTo(l), k.path)}
  BY <1>1
<1> DEFINE Adds(m) == {[h EXCEPT !.path = m.path \o Rel(PointsTo(m), h.path)] :
                          h \in {k \in T : Inside(PointsTo(m), k.path)}}
<1>3. f \in Adds(l)
  BY <1>1, <1>2
<1>4. Linked(T) = UNION {Adds(m) : m \in KeptLinks}
  BY DEF Linked
<1> HIDE DEF Adds
<1> QED BY <1>3, <1>4

LEMMA LinkedInUniverse ==
    ASSUME tar \in Tars, NEW S, S \subseteq Universe
    PROVE  Linked(S) \subseteq Universe
<1> SUFFICES ASSUME NEW f \in Linked(S) PROVE f \in Universe
  OBVIOUS
<1>1. PICK l \in KeptLinks, x \in Path : f = At(l.path \o x, f.from) /\ f.from \in KeptFiles
  BY LinkedIs
<1>2. l.path \o x \in Path
  BY KeptEntry, PathCat DEF KeptLinks
<1> QED BY <1>1, <1>2, AtInUniverse

LEMMA LeastClosed ==
    ASSUME tar \in Tars
    PROVE  Closed(Least) /\ \A S \in SUBSET Universe : Closed(S) => Least \subseteq S
<1>1. \A S \in SUBSET Universe : Closed(S) => Least \subseteq S
  BY DEF Least
<1>2. Least \subseteq Universe
  BY DEF Least
<1>3. Start \subseteq Least
  BY StartInUniverse DEF Least, Closed
<1>4. ASSUME NEW f \in Linked(Least) PROVE f \in Least
  <2>1. f \in Universe
    BY <1>2, LinkedInUniverse
  <2>2. ASSUME NEW S \in SUBSET Universe, Closed(S) PROVE f \in S
    <3>1. Least \subseteq S
      BY <1>1, <2>2
    <3> QED BY <2>2, <3>1, LinkedGrows DEF Closed
  <2> QED BY <2>1, <2>2 DEF Least
<1> QED BY <1>1, <1>2, <1>3, <1>4 DEF Closed

(* What a tar means comes from the tar, or is at a link's path because its *)
(* target holds it.                                                        *)
LEMMA Origin ==
    ASSUME tar \in Tars, NEW f \in Least, f \notin Start
    PROVE  \E l \in KeptLinks, x \in Path :
             f = At(l.path \o x, f.from) /\ f.from \in KeptFiles /\ At(PointsTo(l) \o x, f.from) \in Least
<1>1. f \in Linked(Least)
  <2> SUFFICES ASSUME f \notin Linked(Least) PROVE FALSE
    OBVIOUS
  <2> DEFINE T == Least \ {f}
  <2>1. Closed(Least)
    BY LeastClosed
  <2>2. Linked(T) \subseteq Linked(Least)
    BY LinkedGrows
  <2>3. Closed(T) /\ T \in SUBSET Universe
    BY <2>1, <2>2 DEF Closed
  <2>4. Least \subseteq T
    <3> HIDE DEF T
    <3> QED BY <2>3, LeastClosed
  <2> QED BY <2>4
<1>2. Least \subseteq Universe
  BY DEF Least
<1> QED BY <1>1, <1>2, LinkedIs

-----------------------------------------------------------------------------
(* The reference: what the rounds gather is the least closed set, once     *)
(* they gather no more than a tar may hold.                                *)

LEMMA Upwards ==
    ASSUME NEW m \in Nat, NEW n \in Nat, NEW T,
           m \in T, \A i \in m .. n : i \in T /\ i < n => i + 1 \in T
    PROVE  \A i \in m .. n : i \in T
<1> DEFINE Out == {i \in m .. n : i \notin T}
<1> SUFFICES ASSUME Out # {} PROVE FALSE
  OBVIOUS
<1>1. PICK i \in Out : \A h \in Out : i <= h
  <2>1. Out \in SUBSET Nat
    OBVIOUS
  <2> HIDE DEF Out
  <2> QED BY <2>1, LeastMember
<1>2. i \in m .. n /\ i \notin T /\ i # m
  BY <1>1
<1>3. i - 1 \in m .. n /\ i - 1 < n /\ i - 1 + 1 = i /\ ~(i <= i - 1)
  BY <1>2
<1>4. i - 1 \in T
  BY <1>1, <1>3
<1> QED BY <1>2, <1>3, <1>4

LEMMA ImageFinite ==
    ASSUME NEW S, IsFiniteSet(S), NEW g, DOMAIN g = S, g = [x \in S |-> g[x]]
    PROVE  IsFiniteSet({g[x] : x \in S}) /\ Cardinality({g[x] : x \in S}) <= Cardinality(S)
<1> DEFINE T == {g[x] : x \in S}
<1>1. g \in [S -> T]
  OBVIOUS
<1>2. \A y \in T : \E x \in S : g[x] = y
  OBVIOUS
<1>3. g \in Surjection(S, T)
  <2> HIDE DEF T
  <2> QED BY <1>1, <1>2 DEF Surjection
<1> HIDE DEF T
<1>4. IsFiniteSet(T) /\ Cardinality(T) <= Cardinality(S)
  BY <1>3, FS_Surjection
<1> QED BY <1>4 DEF T

LEMMA TarFinite ==
    ASSUME tar \in Tars
    PROVE  IsFiniteSet(tar) /\ IsFiniteSet(KeptFiles) /\ IsFiniteSet(KeptLinks) /\ IsFiniteSet(Start)
<1>1. IsFiniteSet(tar)
  BY TarsAssumption
<1>2. KeptFiles \in SUBSET tar /\ KeptLinks \in SUBSET tar
  BY DEF KeptFiles, KeptLinks, Kept
<1>3. IsFiniteSet(KeptFiles) /\ IsFiniteSet(KeptLinks)
  BY <1>1, <1>2, FS_Subset
<1> DEFINE g == [e \in KeptFiles |-> AsFile(e)]
<1>4. Start = {g[e] : e \in KeptFiles} /\ DOMAIN g = KeptFiles /\ g = [e \in KeptFiles |-> g[e]]
  BY DEF Start
<1>5. IsFiniteSet({g[e] : e \in KeptFiles})
  <2> HIDE DEF g
  <2> QED BY <1>3, <1>4, ImageFinite
<1> QED BY <1>1, <1>3, <1>4, <1>5

LEMMA LinkedFinite ==
    ASSUME tar \in Tars, NEW S, IsFiniteSet(S)
    PROVE  IsFiniteSet(Linked(S))
<1> DEFINE g == [y \in KeptLinks \X S |-> [y[2] EXCEPT !.path = y[1].path \o Rel(PointsTo(y[1]), y[2].path)]]
           T == {g[y] : y \in KeptLinks \X S}
<1>1. IsFiniteSet(KeptLinks \X S)
  BY TarFinite, FS_Product
<1>2. DOMAIN g = KeptLinks \X S /\ g = [y \in KeptLinks \X S |-> g[y]]
  OBVIOUS
<1>3. IsFiniteSet(T)
  <2> HIDE DEF g
  <2> QED BY <1>1, <1>2, ImageFinite DEF T
<1>4. Linked(S) \subseteq T
  <2> SUFFICES ASSUME NEW f \in Linked(S) PROVE f \in T
    OBVIOUS
  <2>1. PICK l \in KeptLinks, h \in S : f = [h EXCEPT !.path = l.path \o Rel(PointsTo(l), h.path)]
    BY DEF Linked
  <2>2. <<l, h>> \in KeptLinks \X S /\ g[<<l, h>>] = f
    BY <2>1
  <2> HIDE DEF g
  <2> QED BY <2>2
<1> HIDE DEF T
<1> QED BY <1>3, <1>4, FS_Subset

Rounds == MaxEntries + 1
Round(S) == IF Cardinality(S) > MaxEntries THEN S ELSE S \cup Linked(S)

LEMMA MeantIs ==
    ASSUME tar \in Tars
    PROVE  \E c \in [0 .. Rounds -> SUBSET Universe] :
             c[0] = Start /\ (\A i \in 1 .. Rounds : c[i] = Round(c[i - 1])) /\ MeantFiles = c[Rounds]
<1>1. Rounds \in Nat
  BY LimitsAssumption DEF Rounds
<1> DEFINE X == SUBSET Universe
           step == [S \in X |-> Round(S)]
<1>2. step \in [X -> X] /\ Start \in X
  <2>1. \A S \in X : Round(S) \in X
    BY LinkedInUniverse DEF Round
  <2> QED BY <2>1, StartInUniverse
<1>3. \E c : LeadsOn(c, X, Start, step, Rounds)
  <2> HIDE DEF step, X
  <2> QED BY <1>1, <1>2, Iterates
<1>4. PICK c \in [0 .. Rounds -> X] : c[0] = Start /\ \A i \in 1 .. Rounds : c[i] = step[c[i - 1]]
  BY <1>3 DEF LeadsOn
<1>5. ASSUME NEW i \in 1 .. Rounds PROVE c[i] = Round(c[i - 1])
  <2>1. i - 1 \in 0 .. Rounds
    BY <1>1
  <2>2. c[i - 1] \in X
    BY <2>1
  <2> HIDE DEF X
  <2> QED BY <1>4, <2>2
<1> DEFINE F(g) == [round \in 0 .. MaxEntries + 1 |->
                      IF round = 0 THEN Start
                      ELSE IF Cardinality(g[round - 1]) > MaxEntries THEN g[round - 1]
                      ELSE g[round - 1] \cup Linked(g[round - 1])]
           meant == CHOOSE g : g = F(g)
<1>6. MeantFiles = meant[MaxEntries + 1]
  BY DEF MeantFiles
<1>7. \A g, i : i \in 0 .. Rounds => F(g)[i] = IF i = 0 THEN Start ELSE Round(g[i - 1])
  BY DEF Rounds, Round
<1>8. \A g : DOMAIN F(g) = 0 .. Rounds /\ F(g) = [i \in 0 .. Rounds |-> F(g)[i]]
  BY DEF Rounds
<1> HIDE DEF F, X
<1>9. c = F(c)
  <2>1. ASSUME NEW i \in 0 .. Rounds PROVE c[i] = F(c)[i]
    <3>1. CASE i = 0
      BY <1>4, <1>7, <3>1
    <3>2. CASE i # 0
      <4>1. i \in 1 .. Rounds
        BY <1>1, <3>2
      <4> QED BY <1>5, <1>7, <3>2, <4>1
    <3> QED BY <3>1, <3>2
  <2>2. c = [i \in 0 .. Rounds |-> c[i]]
    OBVIOUS
  <2> QED BY <1>8, <2>1, <2>2
<1>10. ASSUME NEW g, g = F(g) PROVE g = c
  <2> DEFINE T == {i \in 0 .. Rounds : g[i] = c[i]}
  <2>1. 0 \in T
    BY <1>1, <1>4, <1>7, <1>10
  <2>2. ASSUME NEW i \in 0 .. Rounds, i \in T, i < Rounds PROVE i + 1 \in T
    <3>1. i + 1 \in 0 .. Rounds /\ i + 1 # 0 /\ i + 1 - 1 = i /\ i + 1 \in 1 .. Rounds
      BY <1>1, <2>2
    <3>2. g[i + 1] = F(g)[i + 1] /\ c[i + 1] = F(c)[i + 1]
      BY <1>9, <1>10
    <3>3. g[i] = c[i]
      BY <2>2
    <3>4. F(g)[i + 1] = Round(g[i]) /\ F(c)[i + 1] = Round(c[i])
      <4>1. \A h : F(h)[i + 1] = IF i + 1 = 0 THEN Start ELSE Round(h[(i + 1) - 1])
        BY <1>7, <3>1
      <4>2. (i + 1) - 1 = i
        BY <3>1
      <4>3. \A h : F(h)[i + 1] = Round(h[i])
        BY <3>1, <4>1, <4>2, Zenon
      <4> QED BY <4>3
    <3> QED BY <3>1, <3>2, <3>3, <3>4
  <2>3. \A i \in 0 .. Rounds : i \in T
    <3> HIDE DEF T
    <3>1. 0 \in Nat
      OBVIOUS
    <3> QED BY <1>1, <2>1, <2>2, <3>1, Upwards
  <2>4. g = [i \in 0 .. Rounds |-> g[i]]
    <3>1. g = [i \in 0 .. Rounds |-> F(g)[i]] /\ \A i \in 0 .. Rounds : F(g)[i] = g[i]
      BY <1>8, <1>10
    <3> QED BY <3>1
  <2>5. c = [i \in 0 .. Rounds |-> c[i]]
    OBVIOUS
  <2> QED BY <2>3, <2>4, <2>5
<1>11. meant = c
  BY <1>9, <1>10
<1> HIDE DEF meant
<1> QED BY <1>4, <1>5, <1>6, <1>11 DEF X, Rounds

LEMMA RoundsGather ==
    ASSUME tar \in Tars
    PROVE  /\ MeantFiles \subseteq Least /\ IsFiniteSet(MeantFiles)
           /\ ~TooMany => MeantFiles = Least
<1>1. Rounds \in Nat /\ Rounds > MaxEntries /\ MaxEntries \in Nat /\ 0 \in Nat
  BY LimitsAssumption DEF Rounds
<1>2. PICK c \in [0 .. Rounds -> SUBSET Universe] :
         c[0] = Start /\ (\A i \in 1 .. Rounds : c[i] = Round(c[i - 1])) /\ MeantFiles = c[Rounds]
  BY MeantIs
<1>3. ASSUME NEW i \in 0 .. Rounds, i < Rounds
      PROVE  i + 1 \in 0 .. Rounds /\ c[i + 1] = Round(c[i]) /\ c[i] \subseteq Universe /\ c[i] \subseteq c[i + 1]
  <2>1. i + 1 \in 1 .. Rounds /\ i + 1 - 1 = i
    BY <1>1, <1>3
  <2>2. c[i + 1] = Round(c[i])
    BY <1>2, <2>1
  <2> QED BY <1>1, <2>1, <2>2 DEF Round
<1>4. \A i \in 0 .. Rounds : c[i] \subseteq Least /\ IsFiniteSet(c[i])
  <2> DEFINE T == {i \in 0 .. Rounds : c[i] \subseteq Least /\ IsFiniteSet(c[i])}
  <2>1. 0 \in T
    BY <1>1, <1>2, LeastClosed, TarFinite DEF Closed
  <2>2. ASSUME NEW i \in 0 .. Rounds, i \in T, i < Rounds PROVE i + 1 \in T
    <3>1. c[i] \subseteq Least /\ IsFiniteSet(c[i])
      BY <2>2
    <3>2. Linked(c[i]) \subseteq Least
      BY <3>1, LinkedGrows, LeastClosed DEF Closed
    <3>3. IsFiniteSet(c[i] \cup Linked(c[i]))
      BY <3>1, LinkedFinite, FS_Union
    <3>4. c[i + 1] \subseteq Least /\ IsFiniteSet(c[i + 1])
      BY <1>3, <2>2, <3>1, <3>2, <3>3 DEF Round
    <3> QED BY <1>3, <2>2, <3>4
  <2> HIDE DEF T
  <2>3. \A i \in 0 .. Rounds : i \in T
    BY <1>1, <2>1, <2>2, Upwards
  <2> QED BY <2>3 DEF T
<1>5. MeantFiles \subseteq Least /\ IsFiniteSet(MeantFiles)
  BY <1>1, <1>2, <1>4
<1>6. ASSUME ~TooMany PROVE MeantFiles = Least
  <2>1. Cardinality(c[Rounds]) <= MaxEntries
    <3>1. Cardinality(c[Rounds]) \in Nat
      BY <1>2, <1>5, FS_CardinalityType
    <3> QED BY <1>1, <1>2, <1>6, <3>1 DEF TooMany
  <2>2. \A i \in 0 .. Rounds : c[i] \subseteq c[Rounds]
    <3> DEFINE T == {n \in 0 .. Rounds : \A i \in 0 .. n : c[i] \subseteq c[n]}
    <3>1. 0 \in T
      BY <1>1
    <3>2. ASSUME NEW n \in 0 .. Rounds, n \in T, n < Rounds PROVE n + 1 \in T
      <4>1. \A i \in 0 .. n : c[i] \subseteq c[n]
        BY <3>2
      <4>2. \A i \in 0 .. n + 1 : i = n + 1 \/ i \in 0 .. n
        BY <1>1
      <4> QED BY <1>3, <3>2, <4>1, <4>2
    <3> HIDE DEF T
    <3>3. \A n \in 0 .. Rounds : n \in T
      BY <1>1, <3>1, <3>2, Upwards
    <3>4. Rounds \in 0 .. Rounds
      BY <1>1
    <3> QED BY <3>3, <3>4 DEF T
  <2>3. ASSUME NEW i \in 0 .. Rounds
        PROVE  Cardinality(c[i]) \in Nat /\ Cardinality(c[i]) <= MaxEntries
    <3>1. c[i] \in SUBSET c[Rounds] /\ IsFiniteSet(c[Rounds])
      BY <1>1, <1>4, <2>2
    <3>2. Cardinality(c[i]) <= Cardinality(c[Rounds])
      BY <3>1, FS_Subset
    <3>3. Cardinality(c[i]) \in Nat /\ Cardinality(c[Rounds]) \in Nat
      BY <1>4, <3>1, FS_CardinalityType
    <3> QED BY <1>1, <2>1, <3>2, <3>3
  <2>4. ASSUME NEW i \in 0 .. Rounds, i < Rounds PROVE c[i + 1] = c[i] \cup Linked(c[i])
    <3>1. ~(Cardinality(c[i]) > MaxEntries)
      BY <1>1, <2>3
    <3> QED BY <1>3, <2>4, <3>1 DEF Round
  <2>5. \E i \in 0 .. MaxEntries : Linked(c[i]) \subseteq c[i]
    <3> SUFFICES ASSUME \A i \in 0 .. MaxEntries : ~(Linked(c[i]) \subseteq c[i]) PROVE FALSE
      OBVIOUS
    <3> DEFINE T == {i \in 0 .. Rounds : Cardinality(c[i]) >= i}
    <3>1. 0 \in T
      BY <1>1, <2>3
    <3>2. ASSUME NEW i \in 0 .. Rounds, i \in T, i < Rounds PROVE i + 1 \in T
      <4>1. i \in 0 .. MaxEntries
        BY <1>1, <3>2 DEF Rounds
      <4>2. c[i] \in SUBSET c[i + 1] /\ c[i] # c[i + 1]
        BY <2>4, <3>2, <4>1
      <4>3. i + 1 \in 0 .. Rounds /\ IsFiniteSet(c[i + 1])
        BY <1>3, <1>4, <3>2
      <4>4. Cardinality(c[i]) <= Cardinality(c[i + 1]) /\ Cardinality(c[i]) # Cardinality(c[i + 1])
        BY <4>2, <4>3, FS_Subset
      <4>5. Cardinality(c[i]) \in Nat /\ Cardinality(c[i + 1]) \in Nat /\ Cardinality(c[i]) >= i
        BY <2>3, <3>2, <4>3
      <4>6. Cardinality(c[i + 1]) >= i + 1
        BY <4>4, <4>5
      <4> QED BY <4>3, <4>6
    <3> HIDE DEF T
    <3>3. \A i \in 0 .. Rounds : i \in T
      BY <1>1, <3>1, <3>2, Upwards
    <3>4. Rounds \in 0 .. Rounds
      BY <1>1
    <3>5. Cardinality(c[Rounds]) >= Rounds
      BY <3>3, <3>4 DEF T
    <3> QED BY <1>1, <2>3, <3>4, <3>5
  <2>6. PICK m \in 0 .. MaxEntries : Linked(c[m]) \subseteq c[m]
    BY <2>5
  <2>7. m \in Nat /\ m \in 0 .. Rounds /\ Rounds \in m .. Rounds
    BY <1>1
  <2>8. \A i \in m .. Rounds : c[i] = c[m]
    <3> DEFINE T == {i \in m .. Rounds : c[i] = c[m]}
    <3>1. m \in T
      BY <1>1, <2>7
    <3>2. ASSUME NEW i \in m .. Rounds, i \in T, i < Rounds PROVE i + 1 \in T
      <4>1. i \in 0 .. Rounds /\ i + 1 \in m .. Rounds /\ c[i] = c[m]
        BY <1>1, <2>7, <3>2
      <4>2. c[i + 1] = c[m] \cup Linked(c[m])
        BY <2>4, <3>2, <4>1
      <4> QED BY <2>6, <4>1, <4>2
    <3> HIDE DEF T
    <3>3. \A i \in m .. Rounds : i \in T
      BY <1>1, <2>7, <3>1, <3>2, Upwards
    <3> QED BY <3>3 DEF T
  <2>9. MeantFiles = c[m]
    BY <1>2, <2>7, <2>8
  <2>10. Closed(MeantFiles)
    <3>1. Start \subseteq MeantFiles
      BY <1>1, <1>2, <2>2
    <3>2. MeantFiles \subseteq Universe
      BY <2>7, <2>9
    <3> QED BY <2>6, <2>9, <3>1, <3>2 DEF Closed
  <2>11. MeantFiles \in SUBSET Universe
    BY <2>10 DEF Closed
  <2>12. Least \subseteq MeantFiles
    BY <2>10, <2>11, LeastClosed
  <2> QED BY <1>5, <2>12
<1> QED BY <1>5, <1>6

(* A meant tree that fits in a tar is gathered, all of it.                 *)
LEMMA FewAreGathered ==
    ASSUME tar \in Tars, IsFiniteSet(Least), Cardinality(Least) <= MaxEntries
    PROVE  ~TooMany /\ MeantFiles = Least
<1>1. Cardinality(MeantFiles) <= Cardinality(Least)
  BY RoundsGather, FS_Subset
<1>2. Cardinality(MeantFiles) \in Nat /\ Cardinality(Least) \in Nat /\ MaxEntries \in Nat
  BY RoundsGather, FS_CardinalityType, LimitsAssumption
<1>3. ~TooMany
  BY <1>1, <1>2 DEF TooMany
<1> QED BY <1>3, RoundsGather

-----------------------------------------------------------------------------
(* The links as read, and the paths they lead to.                          *)

LinksAgree ==
    /\ DOMAIN links = {l.path : l \in KeptLinks}
    /\ \A l \in KeptLinks : links[l.path] = PointsTo(l)

(* S holds at d whatever it holds at s.                                    *)
Carries(S, d, s) == \A x \in Path, e \in KeptFiles : At(s \o x, e) \in S => At(d \o x, e) \in S

LEMMA LinksArePaths ==
    ASSUME tar \in Tars, LinksAgree
    PROVE  OnPaths(links) /\ \A l \in DOMAIN links : l \in Path /\ l \in Clean /\ l # <<>> /\ links[l] \in Path
<1> SUFFICES ASSUME NEW l \in DOMAIN links
             PROVE  l \in Path /\ l \in Clean /\ l # <<>> /\ links[l] \in Path
  BY DEF OnPaths
<1>1. PICK k \in KeptLinks : l = k.path /\ links[l] = PointsTo(k)
  BY DEF LinksAgree
<1> QED BY <1>1, KeptEntry DEF KeptLinks

LEMMA LinkCarries ==
    ASSUME tar \in Tars, LinksAgree, NEW l \in DOMAIN links
    PROVE  Carries(Least, l, links[l])
<1>1. PICK k \in KeptLinks : l = k.path /\ links[l] = PointsTo(k)
  BY DEF LinksAgree
<1> SUFFICES ASSUME NEW x \in Path, NEW e \in KeptFiles, At(links[l] \o x, e) \in Least
             PROVE  At(l \o x, e) \in Least
  BY DEF Carries
<1>2. Least \subseteq Universe /\ Linked(Least) \subseteq Least
  BY LeastClosed DEF Closed
<1> QED BY <1>1, <1>2, LinkedIs

(* And a link's path holds nothing but what the link brings there.         *)
LEMMA LinkBrings ==
    ASSUME tar \in Tars, LinksAgree, ~Overlaid, ~Repeated, NEW l \in DOMAIN links
    PROVE  Carries(Least, links[l], l)
<1>1. PICK k \in KeptLinks : l = k.path /\ links[l] = PointsTo(k)
  BY DEF LinksAgree
<1> SUFFICES ASSUME NEW x \in Path, NEW e \in KeptFiles, At(l \o x, e) \in Least
             PROVE  At(links[l] \o x, e) \in Least
  BY DEF Carries
<1>2. l \in Path /\ l \o x \in Path /\ Inside(l, l \o x)
  BY LinksArePaths, PathCat
<1>3. At(l \o x, e).path = l \o x /\ At(l \o x, e).from = e
  BY DEF At
<1>4. At(l \o x, e) \notin Start
  <2> SUFFICES ASSUME At(l \o x, e) \in Start PROVE FALSE
    OBVIOUS
  <2>1. e \in Kept /\ e.path = l \o x /\ e.type = "file" /\ k \in Kept /\ k.type = "link"
    BY <1>3, StartInUniverse DEF KeptFiles, KeptLinks
  <2>2. CASE e.path = k.path
    BY <1>1, <2>1, <2>2 DEF Repeated, KeptFiles, KeptLinks
  <2>3. CASE e.path # k.path
    BY <1>1, <1>2, <2>1, <2>3 DEF Overlaid, StrictlyInside
  <2> QED BY <2>2, <2>3
<1>5. PICK m \in KeptLinks, y \in Path :
         At(l \o x, e) = At(m.path \o y, e) /\ At(PointsTo(m) \o y, e) \in Least
  BY <1>3, <1>4, Origin
<1>6. l \o x = m.path \o y /\ m.path \in Path /\ Inside(m.path, l \o x)
  <2>1. m.path \in Path
    BY KeptEntry DEF KeptLinks
  <2>2. l \o x = m.path \o y
    BY <1>3, <1>5 DEF At
  <2> QED BY <2>1, <2>2, PathCat
<1>7. m.path = k.path
  <2>1. Inside(m.path, l) \/ Inside(l, m.path)
    BY <1>2, <1>6, PathChain
  <2>2. m \in Kept /\ k \in Kept
    BY DEF KeptLinks
  <2> QED BY <1>1, <2>1, <2>2 DEF Overlaid, StrictlyInside
<1>8. m = k
  BY <1>7 DEF Repeated
<1>9. x = y
  BY <1>1, <1>2, <1>6, <1>8, PathCancel
<1> QED BY <1>1, <1>5, <1>8, <1>9

LEMMA CarriesFurther ==
    ASSUME NEW S, NEW d \in Path, NEW s \in Path, NEW y \in Path, Carries(S, d, s)
    PROVE  Carries(S, d \o y, s \o y)
<1> SUFFICES ASSUME NEW x \in Path, NEW e \in KeptFiles, At((s \o y) \o x, e) \in S
             PROVE  At((d \o y) \o x, e) \in S
  BY DEF Carries
<1>1. (s \o y) \o x = s \o (y \o x) /\ (d \o y) \o x = d \o (y \o x) /\ y \o x \in Path
  <2>1. y \o x \in Path
    BY PathCat
  <2>2. (s \o y) \o x = s \o (y \o x)
    BY PathAssoc
  <2>3. (d \o y) \o x = d \o (y \o x)
    BY PathAssoc
  <2> QED BY <2>1, <2>2, <2>3
<1> QED BY <1>1 DEF Carries

LEMMA CarriesAlong ==
    ASSUME NEW S, NEW a, NEW b, NEW c, Carries(S, a, b), Carries(S, b, c)
    PROVE  Carries(S, a, c)
BY DEF Carries

LEMMA RealIs ==
    ASSUME tar \in Tars, LinksAgree, NEW p \in Path
    PROVE  /\ real(p) \in Path \cup {Loops} /\ Loops \notin Path
           /\ real(p) # Loops =>
                /\ real(p) \in Path /\ LinkedAt(real(p), links) = {}
                /\ Carries(Least, p, real(p))
                /\ ~Overlaid /\ ~Repeated => Carries(Least, real(p), p)
<1>1. OnPaths(links) /\ MaxLinkDepth \in Nat /\ 0 \in Nat
  BY LinksArePaths, LimitsAssumption
<1> DEFINE D == MaxLinkDepth
<1>2. PICK c \in [0 .. D -> Path] :
             /\ c[0] = p
             /\ \A i \in 1 .. D :
                  c[i] = IF LinkedAt(c[i - 1], links) = {} THEN c[i - 1] ELSE FollowFirst(c[i - 1], links)
             /\ Followed(p, links, D) = IF LinkedAt(c[D], links) = {} THEN c[D] ELSE Loops
  <2>1. \E c : Way(c, p, links, D)
    BY <1>1, FollowedIs
  <2> QED BY <2>1 DEF Way
<1> DEFINE Leads(q) == Carries(Least, p, q) /\ (~Overlaid /\ ~Repeated => Carries(Least, q, p))
<1>3. ASSUME NEW q \in Path, LinkedAt(q, links) # {}
      PROVE  /\ Carries(Least, q, FollowFirst(q, links))
             /\ ~Overlaid /\ ~Repeated => Carries(Least, FollowFirst(q, links), q)
  <2>1. PICK l \in DOMAIN links, x \in Path : q = l \o x /\ FollowFirst(q, links) = links[l] \o x
    BY <1>1, <1>3, FirstFollowed
  <2>2. l \in Path /\ links[l] \in Path
    BY LinksArePaths
  <2>3. Carries(Least, l, links[l])
    BY LinkCarries
  <2>4. ASSUME ~Overlaid, ~Repeated PROVE Carries(Least, links[l], l)
    BY <2>4, LinkBrings
  <2> QED BY <2>1, <2>2, <2>3, <2>4, CarriesFurther
<1>4. \A i \in 0 .. D : Leads(c[i])
  <2> DEFINE T == {i \in 0 .. D : Leads(c[i])}
  <2>1. 0 \in T
    BY <1>1, <1>2 DEF Carries
  <2>2. ASSUME NEW i \in 0 .. D, i \in T, i < D PROVE i + 1 \in T
    <3>1. i + 1 \in 1 .. D /\ i + 1 - 1 = i /\ i + 1 \in 0 .. D /\ c[i] \in Path
      BY <1>1, <2>2
    <3>2. c[i + 1] = IF LinkedAt(c[i], links) = {} THEN c[i] ELSE FollowFirst(c[i], links)
      BY <1>2, <3>1
    <3>3. Leads(c[i])
      BY <2>2
    <3>4. CASE LinkedAt(c[i], links) = {}
      BY <3>1, <3>2, <3>3, <3>4
    <3>5. CASE LinkedAt(c[i], links) # {}
      <4>1. c[i + 1] = FollowFirst(c[i], links)
        BY <3>2, <3>5
      <4>2. Leads(c[i + 1])
        BY <1>3, <3>1, <3>3, <3>5, <4>1, CarriesAlong
      <4> QED BY <3>1, <4>2
    <3> QED BY <3>4, <3>5
  <2> HIDE DEF T
  <2>3. \A i \in 0 .. D : i \in T
    BY <1>1, <2>1, <2>2, Upwards
  <2> QED BY <2>3 DEF T
<1>5. D \in 0 .. D /\ c[D] \in Path /\ real(p) = Followed(p, links, D)
  BY <1>1 DEF real
<1>6. Loops \notin Path
  BY LoopsIsNoPath
<1> QED BY <1>2, <1>4, <1>5, <1>6

(* No link is on a real path.                                              *)
LEMMA NoLinkOn ==
    ASSUME tar \in Tars, LinksAgree, NEW s \in Path, LinkedAt(s, links) = {}, NEW l \in DOMAIN links
    PROVE  ~Inside(l, s)
<1> SUFFICES ASSUME Inside(l, s) PROVE FALSE
  OBVIOUS
<1>1. l \in Seq(Name) /\ l # <<>> /\ s \in Seq(Name)
  BY LinksArePaths DEF Path
<1>2. Len(l) \in Nat /\ Len(l) # 0 /\ Len(s) \in Nat /\ DOMAIN s = 1 .. Len(s)
  BY <1>1, LenProperties, EmptySeq
<1>3. Len(l) <= Len(s) /\ SubSeq(s, 1, Len(l)) = l
  BY DEF Inside, IsPathPrefix
<1>4. Len(l) \in LinkedAt(s, links)
  <2>1. Len(l) \in 1 .. Len(s)
    BY <1>2, <1>3
  <2> QED BY <1>2, <1>3, <2>1 DEF LinkedAt
<1> QED BY <1>4

(* What is meant below a real path is from the tar or under a link there.  *)
LEMMA MeantUnder ==
    ASSUME tar \in Tars, LinksAgree, NEW s \in Path, LinkedAt(s, links) = {},
           NEW f \in Least, Inside(s, f.path), f \notin Start
    PROVE  \E l \in LinksUnder(s), x \in Path : f = At(l \o x, f.from) /\ f.from \in KeptFiles
<1>1. PICK k \in KeptLinks, x \in Path : f = At(k.path \o x, f.from) /\ f.from \in KeptFiles
  BY Origin
<1>2. k.path \in DOMAIN links
  BY DEF LinksAgree
<1>3. k.path \in Path /\ f.path = k.path \o x /\ f.path \in Path /\ Inside(k.path, f.path)
  <2>1. k.path \in Path
    BY <1>2, LinksArePaths
  <2>2. f.path = k.path \o x
    BY <1>1 DEF At
  <2> QED BY <2>1, <2>2, PathCat
<1>4. ~Inside(k.path, s)
  BY <1>2, NoLinkOn
<1>5. Inside(s, k.path)
  BY <1>3, <1>4, PathChain
<1>6. k.path # s
  <2>1. SubSeq(s, 1, Len(s)) = s /\ Len(s) \in Nat
    BY SubSeqFull, LenProperties DEF Path
  <2>2. Inside(s, s)
    BY <2>1 DEF Inside, IsPathPrefix
  <2> QED BY <1>4, <2>2
<1>7. k.path \in LinksUnder(s)
  BY <1>2, <1>5, <1>6 DEF LinksUnder, StrictlyInside
<1> QED BY <1>1, <1>7

-----------------------------------------------------------------------------
(* What files weigh.                                                       *)

Weights(S) == UNION {{f} \X (1 .. f.from.size) : f \in S}

LEMMA SizesAreNat ==
    ASSUME tar \in Tars, NEW f \in Universe
    PROVE  f.from.size \in Nat
BY InUniverse, KeptEntry DEF KeptFiles, IsEntry

Weighed(S) == \A f \in S : f.from.size \in Nat

LEMMA UniverseWeighed ==
    ASSUME tar \in Tars, NEW S, S \subseteq Universe
    PROVE  Weighed(S)
BY SizesAreNat DEF Weighed

LEMMA WeightsFinite ==
    ASSUME NEW S, Weighed(S), IsFiniteSet(S)
    PROVE  IsFiniteSet(Weights(S)) /\ Bytes(S) = Cardinality(Weights(S)) /\ Bytes(S) \in Nat
<1> DEFINE g == [f \in S |-> {f} \X (1 .. f.from.size)]
           T == {g[f] : f \in S}
<1>1. IsFiniteSet(T)
  <2>1. DOMAIN g = S /\ g = [f \in S |-> g[f]]
    OBVIOUS
  <2> HIDE DEF g
  <2> QED BY <2>1, ImageFinite DEF T
<1>2. ASSUME NEW f \in S PROVE IsFiniteSet(g[f])
  <2>1. f.from.size \in Nat
    BY DEF Weighed
  <2>2. IsFiniteSet(1 .. f.from.size) /\ IsFiniteSet({f})
    <3>1. 1 \in Int /\ f.from.size \in Int
      BY <2>1
    <3> QED BY <3>1, FS_Interval, FS_Singleton, Zenon
  <2>3. IsFiniteSet({f} \X (1 .. f.from.size))
    BY <2>2, FS_Product
  <2> QED BY <2>3
<1>3. \A t \in T : IsFiniteSet(t)
  BY <1>2
<1>4. UNION T = Weights(S)
  BY DEF Weights
<1>5. IsFiniteSet(UNION T)
  <2> HIDE DEF T
  <2> QED BY <1>1, <1>3, FS_UNION
<1>6. IsFiniteSet(Weights(S))
  BY <1>4, <1>5
<1> QED BY <1>6, FS_CardinalityType DEF Bytes, Weights

LEMMA WeighMore ==
    ASSUME NEW S, NEW T, S \subseteq T, Weighed(T), IsFiniteSet(T)
    PROVE  Bytes(S) <= Bytes(T) /\ Bytes(S) \in Nat /\ Bytes(T) \in Nat
<1>1. IsFiniteSet(S) /\ Weighed(S)
  BY FS_Subset DEF Weighed
<1>2. Weights(S) \subseteq Weights(T)
  BY DEF Weights
<1>3. Cardinality(Weights(S)) <= Cardinality(Weights(T))
  BY <1>2, WeightsFinite, FS_Subset
<1> QED BY <1>1, <1>3, WeightsFinite

LEMMA BytesGrow ==
    ASSUME tar \in Tars, NEW S, NEW T, S \subseteq T, T \subseteq Universe, IsFiniteSet(T)
    PROVE  Bytes(S) <= Bytes(T) /\ Bytes(S) \in Nat /\ Bytes(T) \in Nat
BY UniverseWeighed, WeighMore

LEMMA WeighAdd ==
    ASSUME NEW S, Weighed(S), IsFiniteSet(S), NEW f, f.from.size \in Nat, f \notin S
    PROVE  Bytes(S \cup {f}) = Bytes(S) + f.from.size
<1> DEFINE n == f.from.size
           W == {f} \X (1 .. n)
<1>1. n \in Nat
  OBVIOUS
<1>2. IsFiniteSet(W) /\ Cardinality(W) = n
  <2>1. IsFiniteSet(1 .. n) /\ Cardinality(1 .. n) = n
    <3>1. 1 \in Int /\ n \in Int
      BY <1>1
    <3>2. IsFiniteSet(1 .. n) /\ Cardinality(1 .. n) = IF 1 > n THEN 0 ELSE n - 1 + 1
      <4> HIDE DEF n
      <4> QED BY <3>1, FS_Interval, Zenon
    <3> QED BY <1>1, <3>2
  <2>2. IsFiniteSet({f}) /\ Cardinality({f}) = 1
    BY FS_Singleton
  <2> DEFINE I == 1 .. n
             F == {f}
  <2> HIDE DEF I, F, n
  <2>3. IsFiniteSet(F \X I) /\ Cardinality(F \X I) = Cardinality(F) * Cardinality(I)
    <3>1. IsFiniteSet(F) /\ IsFiniteSet(I)
      BY <2>1, <2>2 DEF I, F
    <3> QED BY <3>1, FS_Product
  <2>4. Cardinality(F) = 1 /\ Cardinality(I) = n
    BY <2>1, <2>2 DEF I, F
  <2>5. W = F \X I
    BY DEF I, F, n
  <2>6. 1 * n = n
    BY <1>1
  <2> HIDE DEF W
  <2> QED BY <2>3, <2>4, <2>5, <2>6
<1>3. Weights(S \cup {f}) = Weights(S) \cup W
  <2>1. \A w : w \in Weights(S \cup {f}) <=> \E h \in S \cup {f} : w \in {h} \X (1 .. h.from.size)
    BY DEF Weights
  <2>2. \A w : w \in Weights(S) <=> \E h \in S : w \in {h} \X (1 .. h.from.size)
    BY DEF Weights
  <2> QED BY <2>1, <2>2
<1>4. Weights(S) \cap W = {}
  <2> SUFFICES ASSUME NEW w \in Weights(S), w \in W PROVE FALSE
    OBVIOUS
  <2>1. PICK h \in S : w \in {h} \X (1 .. h.from.size)
    BY DEF Weights
  <2>2. w[1] = h /\ w[1] = f
    BY <2>1
  <2> QED BY <2>2
<1> HIDE DEF n, W
<1>5. Cardinality(Weights(S) \cup W) = Cardinality(Weights(S)) + n
  <2>1. Cardinality(Weights(S) \cup W) = Cardinality(Weights(S)) + Cardinality(W) - Cardinality(Weights(S) \cap W)
    BY <1>2, WeightsFinite, FS_Union
  <2>2. Cardinality(Weights(S) \cap W) = 0
    BY <1>4, FS_EmptySet
  <2>3. Cardinality(Weights(S)) \in Nat
    BY WeightsFinite
  <2> QED BY <1>1, <1>2, <2>1, <2>2, <2>3
<1>6. Weighed(S \cup {f}) /\ IsFiniteSet(S \cup {f})
  BY FS_AddElement DEF Weighed
<1>7. Bytes(S \cup {f}) = Cardinality(Weights(S \cup {f})) /\ Bytes(S) = Cardinality(Weights(S))
  BY <1>6, WeightsFinite
<1>8. Bytes(S) \in Nat
  BY WeightsFinite
<1> QED BY <1>1, <1>3, <1>5, <1>7, <1>8 DEF n

LEMMA BytesAdd ==
    ASSUME tar \in Tars, NEW S, S \subseteq Universe, IsFiniteSet(S), NEW f \in Universe, f \notin S
    PROVE  Bytes(S \cup {f}) = Bytes(S) + f.from.size
BY UniverseWeighed, SizesAreNat, WeighAdd

-----------------------------------------------------------------------------
(* Lists of files.                                                         *)

Filed == {files[i] : i \in DOMAIN files}
Distinct(fs) == \A i, j \in DOMAIN fs : fs[i].path = fs[j].path => i = j

LEMMA ListAppend ==
    ASSUME NEW X, NEW fs \in Seq(X), NEW f \in X
    PROVE  LET gs == Append(fs, f) IN
           /\ gs \in Seq(X) /\ Len(gs) = Len(fs) + 1 /\ Len(fs) \in Nat
           /\ {gs[i] : i \in DOMAIN gs} = {fs[i] : i \in DOMAIN fs} \cup {f}
           /\ Distinct(fs) /\ (\A i \in DOMAIN fs : fs[i].path # f.path) => Distinct(gs)
<1> DEFINE gs == Append(fs, f)
           n == Len(fs)
<1>1. /\ gs \in Seq(X) /\ Len(gs) = n + 1 /\ n \in Nat
      /\ \A i \in 1 .. n : gs[i] = fs[i]
      /\ gs[n + 1] = f
  BY AppendProperties, LenProperties
<1>2. DOMAIN gs = 1 .. n + 1 /\ DOMAIN fs = 1 .. n
  BY <1>1, LenProperties
<1> HIDE DEF gs, n
<1>3. \A i \in 1 .. n + 1 : i \in 1 .. n \/ i = n + 1
  BY <1>1
<1>4. \A i \in 1 .. n : i \in 1 .. n + 1
  BY <1>1
<1>5. n + 1 \in 1 .. n + 1
  BY <1>1
<1>6. {gs[i] : i \in DOMAIN gs} = {fs[i] : i \in DOMAIN fs} \cup {f}
  BY <1>1, <1>2, <1>3, <1>4, <1>5
<1>7. ASSUME Distinct(fs), \A i \in DOMAIN fs : fs[i].path # f.path PROVE Distinct(gs)
  <2> SUFFICES ASSUME NEW i \in 1 .. n + 1, NEW j \in 1 .. n + 1, gs[i].path = gs[j].path PROVE i = j
    BY <1>2 DEF Distinct
  <2>1. CASE i \in 1 .. n /\ j \in 1 .. n
    BY <1>1, <1>2, <1>7, <2>1 DEF Distinct
  <2>2. CASE i = n + 1 /\ j \in 1 .. n
    BY <1>1, <1>2, <1>7, <2>2
  <2>3. CASE j = n + 1 /\ i \in 1 .. n
    BY <1>1, <1>2, <1>7, <2>3
  <2> QED BY <1>3, <2>1, <2>2, <2>3
<1> QED BY <1>1, <1>6, <1>7 DEF gs, n

LEMMA ListConcat ==
    ASSUME NEW X, NEW fs \in Seq(X), NEW hs \in Seq(X)
    PROVE  LET gs == fs \o hs IN
           /\ gs \in Seq(X) /\ Len(gs) = Len(fs) + Len(hs) /\ Len(fs) \in Nat /\ Len(hs) \in Nat
           /\ {gs[i] : i \in DOMAIN gs} = {fs[i] : i \in DOMAIN fs} \cup {hs[i] : i \in DOMAIN hs}
           /\ /\ Distinct(fs) /\ Distinct(hs)
              /\ \A i \in DOMAIN fs, j \in DOMAIN hs : fs[i].path # hs[j].path
              => Distinct(gs)
<1> DEFINE gs == fs \o hs
           n == Len(fs)
           m == Len(hs)
<1>1. /\ gs \in Seq(X) /\ Len(gs) = n + m /\ n \in Nat /\ m \in Nat
      /\ \A i \in 1 .. n + m : gs[i] = IF i <= n THEN fs[i] ELSE hs[i - n]
  BY ConcatProperties, LenProperties
<1>2. DOMAIN gs = 1 .. n + m /\ DOMAIN fs = 1 .. n /\ DOMAIN hs = 1 .. m
  BY <1>1, LenProperties
<1> HIDE DEF gs, n, m
<1>3. \A i \in 1 .. n : i \in 1 .. n + m /\ gs[i] = fs[i]
  BY <1>1
<1>4. ASSUME NEW j \in 1 .. m PROVE j + n \in 1 .. n + m /\ gs[j + n] = hs[j]
  <2>1. j + n \in 1 .. n + m /\ ~(j + n <= n) /\ (j + n) - n = j
    BY <1>1
  <2> QED BY <1>1, <2>1
<1>5. ASSUME NEW i \in 1 .. n + m, i \notin 1 .. n
      PROVE  i - n \in 1 .. m /\ gs[i] = hs[i - n]
  BY <1>1, <1>5
<1>6. {gs[i] : i \in DOMAIN gs} = {fs[i] : i \in DOMAIN fs} \cup {hs[i] : i \in DOMAIN hs}
  <2>1. {gs[i] : i \in 1 .. n + m} \subseteq {fs[i] : i \in 1 .. n} \cup {hs[i] : i \in 1 .. m}
    BY <1>3, <1>5
  <2>2. {fs[i] : i \in 1 .. n} \subseteq {gs[i] : i \in 1 .. n + m}
    BY <1>3
  <2>3. {hs[i] : i \in 1 .. m} \subseteq {gs[i] : i \in 1 .. n + m}
    BY <1>4
  <2> QED BY <1>2, <2>1, <2>2, <2>3
<1>7. ASSUME Distinct(fs), Distinct(hs), \A i \in DOMAIN fs, j \in DOMAIN hs : fs[i].path # hs[j].path
      PROVE  Distinct(gs)
  <2> SUFFICES ASSUME NEW i \in 1 .. n + m, NEW j \in 1 .. n + m, gs[i].path = gs[j].path PROVE i = j
    BY <1>2 DEF Distinct
  <2>1. CASE i \in 1 .. n /\ j \in 1 .. n
    BY <1>2, <1>3, <1>7, <2>1 DEF Distinct
  <2>2. CASE i \notin 1 .. n /\ j \in 1 .. n
    BY <1>2, <1>3, <1>5, <1>7, <2>2
  <2>3. CASE j \notin 1 .. n /\ i \in 1 .. n
    BY <1>2, <1>3, <1>5, <1>7, <2>3
  <2>4. CASE i \notin 1 .. n /\ j \notin 1 .. n
    <3>1. i - n \in 1 .. m /\ j - n \in 1 .. m /\ hs[i - n].path = hs[j - n].path
      BY <1>5, <2>4
    <3>2. i - n = j - n
      BY <1>2, <1>7, <3>1 DEF Distinct
    <3> QED BY <1>1, <3>2
  <2> QED BY <2>1, <2>2, <2>3, <2>4
<1> QED BY <1>1, <1>6, <1>7 DEF gs, n, m

(* A set as a list, every member once.                                     *)
LEMMA ListOfSet ==
    ASSUME NEW S, IsFiniteSet(S)
    PROVE  LET s == SetToSeq(S) IN
           /\ s \in Seq(S) /\ Len(s) = Cardinality(S)
           /\ {s[i] : i \in DOMAIN s} = S
           /\ \A i, j \in DOMAIN s : s[i] = s[j] => i = j
<1> DEFINE n == Cardinality(S)
           s == SetToSeq(S)
<1>1. n \in Nat /\ ExistsBijection(1 .. n, S)
  BY FS_CardinalityType
<1>2. PICK g \in [1 .. n -> S] : (\A i, j \in 1 .. n : g[i] = g[j] => i = j)
                                 /\ \A x \in S : \E i \in 1 .. n : g[i] = x
  BY <1>1 DEF ExistsBijection, Bijection, Injection, Surjection, IsInjective
<1>3. \E f \in [1 .. n -> S] : IsInjective(f)
  BY <1>2 DEF IsInjective
<1>4. s \in [1 .. n -> S] /\ IsInjective(s)
  BY <1>3 DEF SetToSeq
<1> HIDE DEF s
<1>5. s \in Seq(S) /\ Len(s) = n /\ DOMAIN s = 1 .. n
  BY <1>1, <1>4
<1>6. \A i, j \in 1 .. n : s[i] = s[j] => i = j
  BY <1>4 DEF IsInjective
<1>7. s \in Injection(1 .. n, S)
  BY <1>4 DEF Injection
<1>8. Cardinality(1 .. n) = n /\ IsFiniteSet(1 .. n)
  BY <1>1, FS_Interval
<1>9. s \in Surjection(1 .. n, S)
  BY <1>7, <1>8, FS_Injection
<1>10. {s[i] : i \in 1 .. n} = S
  BY <1>4, <1>9 DEF Surjection
<1> QED BY <1>5, <1>6, <1>10 DEF s

-----------------------------------------------------------------------------
(* The tar never changes, nor does what it means.                          *)

LEMMA TarFixed ==
    ASSUME tar' = tar
    PROVE  /\ Kept' = Kept /\ KeptFiles' = KeptFiles /\ KeptLinks' = KeptLinks
           /\ Start' = Start /\ Universe' = Universe
           /\ Least' = Least /\ MeantFiles' = MeantFiles
           /\ TooMany' = TooMany /\ Dangling' = Dangling /\ Repeated' = Repeated
           /\ Escaping' = Escaping /\ Overlaid' = Overlaid /\ Blocked' = Blocked
<1>1. Kept' = Kept
  BY DEF Kept
<1>2. KeptFiles' = KeptFiles /\ KeptLinks' = KeptLinks
  BY <1>1 DEF KeptFiles, KeptLinks
<1>3. Start' = Start /\ Universe' = Universe
  BY <1>2 DEF Start, Universe
<1>4. \A S : Linked(S)' = Linked(S)
  BY <1>2 DEF Linked
<1>5. Least' = Least
  BY <1>2, <1>3 DEF Least, Closed, Linked
<1>6. MeantFiles' = MeantFiles
  BY <1>2, <1>3 DEF MeantFiles, Linked
<1>7. TooMany' = TooMany /\ Dangling' = Dangling
  BY <1>2, <1>6 DEF TooMany, Dangling
<1>8. Repeated' = Repeated /\ Escaping' = Escaping
  BY <1>2 DEF Repeated, Escaping
<1>9. Overlaid' = Overlaid /\ Blocked' = Blocked
  BY <1>1, <1>2 DEF Overlaid, Blocked
<1> QED BY <1>1, <1>2, <1>3, <1>5, <1>6, <1>7, <1>8, <1>9

-----------------------------------------------------------------------------
(* What is kept in memory is well formed.                                  *)

Statuses == {"reading", "linking", "checking", "done"} \cup Refusals
Frame == [dst : Clean, src : Path, rest : SUBSET DOMAIN links]

TypeInv ==
    /\ tar \in Tars /\ todo \subseteq tar
    /\ files \in Seq(Universe) /\ Len(files) <= MaxEntries
    /\ \A f \in Filed : f.path \in Clean
    /\ \A l \in DOMAIN links : l \in Path /\ l \in Clean /\ l # <<>> /\ links[l] \in Path
    /\ IsFiniteSet(DOMAIN links)
    /\ total \in 0 .. MaxBytes
    /\ tree \subseteq Start
    /\ pending \subseteq DOMAIN links
    /\ frames \in Seq(Frame)
    /\ \A i \in DOMAIN frames : frames[i].rest \subseteq LinksUnder(frames[i].src)
    /\ checked \in 0 .. Len(files)
    /\ status \in Statuses

(* What has been read so far: nothing to refuse, no path twice; the links  *)
(* are those met, the files too, and the bytes counted are theirs.         *)
Read == tar \ todo
Carried == KeptFiles \cup KeptLinks
Late == status \in {"linking", "checking", "done"}

SoundRead ==
    \A e \in Read :
        /\ e.path # BadName
        /\ e \in Kept => e.type # "other"
        /\ e \in KeptLinks => LinkStaysInside(e)
OnceRead == \A e, f \in Read \cap Carried : e.path = f.path => e = f
LinksRead ==
    /\ DOMAIN links = {l.path : l \in Read \cap KeptLinks}
    /\ \A l \in Read \cap KeptLinks : links[l.path] = PointsTo(l)
FilesRead ==
    /\ Filed = {AsFile(e) : e \in Read \cap KeptFiles}
    /\ Distinct(files)
    /\ total = Bytes(Filed)
    /\ Len(files) = Cardinality(Read \cap KeptFiles)
    /\ Cardinality(DOMAIN links) = Cardinality(Read \cap KeptLinks)
    /\ Len(files) + Cardinality(DOMAIN links) <= MaxEntries
Untouched == tree = {} /\ pending = {} /\ frames = <<>> /\ checked = 0

ReadInv ==
    /\ status = "reading" \/ Late => SoundRead /\ OnceRead /\ LinksRead
    /\ Late => todo = {}
    /\ status = "reading" => FilesRead /\ Untouched

LEMMA FrameFields ==
    ASSUME NEW f \in Frame
    PROVE  f.dst \in Clean /\ f.src \in Path /\ f.rest \subseteq DOMAIN links
BY DEF Frame

LEMMA TypesInit == Init => TypeInv /\ ReadInv
<1> SUFFICES ASSUME Init PROVE TypeInv /\ ReadInv
  OBVIOUS
<1>1. /\ tar \in Tars /\ todo = tar /\ files = <<>> /\ DOMAIN links = {} /\ total = 0 /\ tree = {}
      /\ pending = {} /\ frames = <<>> /\ checked = 0 /\ status = "reading"
  BY DEF Init
<1>2. <<>> \in Seq(Universe) /\ <<>> \in Seq(Frame) /\ Len(<<>>) = 0 /\ DOMAIN <<>> = {}
  BY EmptySeq
<1>3. Filed = {} /\ Read = {}
  BY <1>1, <1>2 DEF Filed, Read
<1>4. TypeInv
  <2>1. IsFiniteSet({}) /\ MaxBytes \in Nat /\ MaxEntries \in Nat
    BY FS_EmptySet, LimitsAssumption
  <2>2. 0 \in 0 .. 0 /\ 0 \in 0 .. MaxBytes /\ 0 <= MaxEntries
    BY <2>1
  <2> QED BY <1>1, <1>2, <1>3, <2>1, <2>2 DEF TypeInv, Statuses
<1>5. ReadInv
  <2>1. SoundRead /\ OnceRead /\ LinksRead
    BY <1>1, <1>3 DEF SoundRead, OnceRead, LinksRead
  <2>2. Cardinality({}) = 0 /\ Bytes({}) = 0
    <3>1. UNION {{f} \X (1 .. f.from.size) : f \in {}} = {}
      OBVIOUS
    <3> QED BY <3>1, FS_EmptySet DEF Bytes
  <2>3. FilesRead
    <3>1. Read \cap KeptFiles = {} /\ Read \cap KeptLinks = {}
      BY <1>3
    <3>2. Distinct(files)
      BY <1>1, <1>2 DEF Distinct
    <3>3. 0 + 0 <= MaxEntries
      BY LimitsAssumption
    <3> QED BY <1>1, <1>2, <1>3, <2>2, <3>1, <3>2, <3>3 DEF FilesRead
  <2> QED BY <1>1, <2>1, <2>3 DEF ReadInv, Untouched, Late
<1> QED BY <1>4, <1>5

LEMMA TypesGive == TypeInv => NormalizeTypeOK
<1> SUFFICES ASSUME TypeInv PROVE NormalizeTypeOK
  OBVIOUS
<1>1. \A i \in DOMAIN files : files[i] \in Universe /\ files[i] \in Filed
  <2>1. DOMAIN files = 1 .. Len(files)
    BY LenProperties DEF TypeInv
  <2> QED BY <2>1, ElementOfSeq DEF TypeInv, Filed
<1>2. \A i \in DOMAIN files : files[i].path \in Seq(Name \ IgnoredNames) /\ files[i].from \in KeptFiles
  BY <1>1, InUniverse DEF TypeInv, Clean
<1> QED BY <1>2 DEF TypeInv, NormalizeTypeOK, Statuses, Clean, Path

(* What a step that reads an entry knows of it.                            *)
LEMMA EntryAtHand ==
    ASSUME TypeInv, ReadInv, status = "reading", NEW e \in todo
    PROVE  /\ e \in tar /\ e \notin Read /\ (tar \ (todo \ {e})) = Read \cup {e}
           /\ e.path # BadName => (e \in Kept <=> ~Dropped(e))
           /\ e \in Carried => e \in Kept
           /\ IsEntry(e)
<1>1. e \in tar /\ e \notin Read /\ (tar \ (todo \ {e})) = Read \cup {e}
  BY DEF TypeInv, Read
<1>2. e.path # BadName => (e \in Kept <=> ~Dropped(e))
  BY <1>1 DEF Kept
<1>3. IsEntry(e)
  BY <1>1, TarsAssumption DEF TypeInv
<1> QED BY <1>1, <1>2, <1>3 DEF Carried, KeptFiles, KeptLinks

LEMMA SkipStep ==
    ASSUME TypeInv, ReadInv, status = "reading", NEW e \in todo, todo' = todo \ {e}, SkipEntry(e)
    PROVE  TypeInv' /\ ReadInv' /\ status' = status
<1>1. /\ tar' = tar /\ files' = files /\ links' = links /\ total' = total /\ status' = status
      /\ tree' = tree /\ pending' = pending /\ frames' = frames /\ checked' = checked
  BY DEF SkipEntry, linkVars
<1>2. TypeInv'
  BY <1>1, TarFixed DEF TypeInv, Filed, Frame, LinksUnder
<1>3. e.path # BadName /\ e \notin Carried /\ (e \in Kept => e.type # "other")
  BY EntryAtHand DEF SkipEntry, EntryError, Carried, KeptFiles, KeptLinks, Kept
<1>4. Read' = Read \cup {e}
  BY <1>1, EntryAtHand DEF Read
<1>5. /\ Read' \cap Carried = Read \cap Carried
      /\ Read' \cap KeptFiles = Read \cap KeptFiles
      /\ Read' \cap KeptLinks = Read \cap KeptLinks
  BY <1>3, <1>4 DEF Carried
<1>6. SoundRead /\ OnceRead /\ LinksRead /\ FilesRead /\ Untouched
  BY DEF ReadInv
<1>7. /\ Kept' = Kept /\ KeptFiles' = KeptFiles /\ KeptLinks' = KeptLinks /\ Carried' = Carried
  BY <1>1, TarFixed DEF Carried
<1>8. SoundRead'
  BY <1>3, <1>4, <1>6, <1>7 DEF SoundRead, Carried
<1>9. OnceRead' /\ LinksRead'
  BY <1>1, <1>5, <1>6, <1>7 DEF OnceRead, LinksRead
<1>10. FilesRead' /\ Untouched'
  BY <1>1, <1>5, <1>6, <1>7 DEF FilesRead, Untouched, Filed
<1> QED BY <1>1, <1>2, <1>8, <1>9, <1>10 DEF ReadInv, Late

LEMMA FileStep ==
    ASSUME TypeInv, ReadInv, status = "reading", NEW e \in todo, todo' = todo \ {e}, ReadFile(e)
    PROVE  TypeInv' /\ ReadInv' /\ status' = status
<1>1. /\ tar' = tar /\ files' = Append(files, AsFile(e)) /\ links' = links /\ total' = total + e.size
      /\ tree' = tree /\ pending' = pending /\ frames' = frames /\ checked' = checked
      /\ status' = status
      /\ EntryError(e) = "none" /\ ~Dropped(e) /\ e.type = "file"
  BY DEF ReadFile, linkVars
<1>2. e.path # BadName /\ ~AtCap /\ ~(total + e.size > MaxBytes) /\ ~Taken(e.path)
  BY <1>1 DEF EntryError
<1>3. /\ e \in tar /\ e \notin Read /\ IsEntry(e) /\ e \in Kept /\ Read' = Read \cup {e}
  BY <1>1, <1>2, EntryAtHand DEF Read
<1>4. e \in KeptFiles /\ e \notin KeptLinks
  BY <1>1, <1>3 DEF KeptFiles, KeptLinks
<1>5. /\ AsFile(e) \in Universe /\ AsFile(e) \in Start /\ AsFile(e).path = e.path /\ AsFile(e).from = e
      /\ e.path \in Clean
  <2>1. AsFile(e) \in Start /\ AsFile(e).path = e.path /\ AsFile(e).from = e
    BY <1>4 DEF Start, AsFile
  <2>2. tar \in Tars
    BY DEF TypeInv
  <2> QED BY <1>3, <2>1, <2>2, StartInUniverse, KeptEntry
<1>6. SoundRead /\ OnceRead /\ LinksRead /\ FilesRead /\ Untouched
  BY DEF ReadInv
<1>7. files \in Seq(Universe) /\ Len(files) \in Nat /\ DOMAIN files = 1 .. Len(files)
  BY LenProperties DEF TypeInv
<1>8. /\ files' \in Seq(Universe) /\ Len(files') = Len(files) + 1
      /\ Filed' = Filed \cup {AsFile(e)}
      /\ Distinct(files) /\ (\A i \in DOMAIN files : files[i].path # AsFile(e).path) => Distinct(files')
  BY <1>1, <1>5, <1>7, ListAppend DEF Filed
<1>9. Distinct(files')
  BY <1>2, <1>5, <1>6, <1>8 DEF Taken, FilesRead
<1>10. /\ Kept' = Kept /\ KeptFiles' = KeptFiles /\ KeptLinks' = KeptLinks /\ Carried' = Carried
       /\ Universe' = Universe /\ Start' = Start
  BY <1>1, TarFixed DEF Carried
<1>11. /\ Len(files') + Cardinality(DOMAIN links) <= MaxEntries
       /\ Len(files') \in Nat /\ Len(files') <= MaxEntries
  <2>1. Cardinality(DOMAIN links) \in Nat /\ MaxEntries \in Nat
    BY FS_CardinalityType, LimitsAssumption DEF TypeInv
  <2> QED BY <1>2, <1>7, <1>8, <2>1 DEF AtCap
<1>12. total' \in 0 .. MaxBytes
  <2>1. total \in Nat /\ e.size \in Nat /\ MaxBytes \in Nat
    BY <1>3, LimitsAssumption DEF TypeInv, IsEntry
  <2> QED BY <1>1, <1>2, <2>1
<1>13. TypeInv'
  <2>1. \A f \in Filed' : f.path \in Clean
    BY <1>5, <1>8 DEF TypeInv
  <2>2. checked \in 0 .. Len(files')
    BY <1>7, <1>8 DEF TypeInv
  <2> QED BY <1>1, <1>8, <1>10, <1>11, <1>12, <2>1, <2>2 DEF TypeInv, Frame, LinksUnder
<1>14. Read' \cap KeptLinks = Read \cap KeptLinks /\ Read' \cap KeptFiles = (Read \cap KeptFiles) \cup {e}
  BY <1>3, <1>4
<1>15. SoundRead'
  BY <1>1, <1>2, <1>3, <1>4, <1>6, <1>10 DEF SoundRead
<1>16. OnceRead'
  <2>1. ASSUME NEW f \in Read \cap Carried, f.path = e.path PROVE FALSE
    <3>1. CASE f \in KeptFiles
      <4>1. AsFile(f) \in Filed /\ AsFile(f).path = e.path
        BY <1>6, <2>1, <3>1 DEF FilesRead, AsFile
      <4> QED BY <1>2, <4>1 DEF Filed, Taken
    <3>2. CASE f \in KeptLinks
      BY <1>2, <1>6, <2>1, <3>2 DEF LinksRead, Taken
    <3> QED BY <2>1, <3>1, <3>2 DEF Carried
  <2> QED BY <1>3, <1>6, <1>10, <2>1 DEF OnceRead
<1>17. LinksRead'
  BY <1>1, <1>6, <1>10, <1>14 DEF LinksRead
<1>18. FilesRead'
  <2>1. Filed' = {AsFile(k) : k \in Read' \cap KeptFiles}
    BY <1>6, <1>8, <1>14 DEF FilesRead
  <2>2. total' = Bytes(Filed')
    <3>1. Filed \subseteq Universe /\ AsFile(e) \notin Filed
      <4>1. Filed \subseteq Universe
        BY <1>7, ElementOfSeq DEF Filed
      <4> QED BY <1>2, <1>5, <4>1 DEF Filed, Taken
    <3>2. IsFiniteSet(Filed)
      <4>1. Filed \subseteq Start /\ IsFiniteSet(Start)
        BY <1>6, TarFinite DEF FilesRead, Start, TypeInv
      <4> QED BY <4>1, FS_Subset
    <3>3. Bytes(Filed \cup {AsFile(e)}) = Bytes(Filed) + AsFile(e).from.size
      BY <1>5, <3>1, <3>2, BytesAdd DEF TypeInv
    <3> QED BY <1>1, <1>5, <1>6, <1>8, <3>3 DEF FilesRead
  <2>3. Len(files') = Cardinality(Read' \cap KeptFiles)
    <3>1. IsFiniteSet(Read \cap KeptFiles) /\ e \notin Read \cap KeptFiles
      BY <1>3, TarFinite, FS_Intersection DEF TypeInv
    <3>2. Cardinality((Read \cap KeptFiles) \cup {e}) = Cardinality(Read \cap KeptFiles) + 1
      BY <3>1, FS_AddElement
    <3> QED BY <1>6, <1>8, <1>14, <3>2 DEF FilesRead
  <2> QED BY <1>1, <1>6, <1>9, <1>10, <1>11, <1>14, <2>1, <2>2, <2>3 DEF FilesRead, Filed
<1>19. Untouched'
  BY <1>1, <1>6 DEF Untouched
<1> QED BY <1>1, <1>13, <1>15, <1>16, <1>17, <1>18, <1>19 DEF ReadInv, Late

LEMMA LinkStep ==
    ASSUME TypeInv, ReadInv, status = "reading", NEW e \in todo, todo' = todo \ {e}, ReadLink(e)
    PROVE  TypeInv' /\ ReadInv' /\ status' = status
<1>1. /\ tar' = tar /\ files' = files /\ total' = total
      /\ links' = [p \in DOMAIN links \cup {e.path} |-> IF p = e.path THEN PointsTo(e) ELSE links[p]]
      /\ tree' = tree /\ pending' = pending /\ frames' = frames /\ checked' = checked
      /\ status' = status
      /\ EntryError(e) = "none" /\ ~Dropped(e) /\ e.type = "link"
  BY DEF ReadLink, linkVars
<1>2. e.path # BadName /\ ~AtCap /\ LinkStaysInside(e) /\ ~Taken(e.path)
  BY <1>1 DEF EntryError
<1>3. /\ e \in tar /\ e \notin Read /\ IsEntry(e) /\ e \in Kept /\ Read' = Read \cup {e}
  BY <1>1, <1>2, EntryAtHand DEF Read
<1>4. e \in KeptLinks /\ e \notin KeptFiles
  BY <1>1, <1>3 DEF KeptFiles, KeptLinks
<1>5. e.path \in Path /\ e.path \in Clean /\ e.path # <<>> /\ PointsTo(e) \in Path
  BY <1>3, KeptEntry DEF TypeInv
<1>6. SoundRead /\ OnceRead /\ LinksRead /\ FilesRead /\ Untouched
  BY DEF ReadInv
<1>7. /\ DOMAIN links' = DOMAIN links \cup {e.path} /\ e.path \notin DOMAIN links
      /\ links'[e.path] = PointsTo(e)
      /\ \A l \in DOMAIN links : l # e.path /\ links'[l] = links[l]
  BY <1>1, <1>2 DEF Taken
<1>8. /\ IsFiniteSet(DOMAIN links')
      /\ Cardinality(DOMAIN links') = Cardinality(DOMAIN links) + 1
  BY <1>7, FS_AddElement, SMTT(30) DEF TypeInv
<1>10. /\ Kept' = Kept /\ KeptFiles' = KeptFiles /\ KeptLinks' = KeptLinks /\ Carried' = Carried
       /\ Universe' = Universe /\ Start' = Start
  BY <1>1, TarFixed DEF Carried
<1>11. Len(files) + Cardinality(DOMAIN links') <= MaxEntries
  <2>1. Cardinality(DOMAIN links) \in Nat /\ MaxEntries \in Nat /\ Len(files) \in Nat
    BY FS_CardinalityType, LimitsAssumption, LenProperties DEF TypeInv
  <2> QED BY <1>2, <1>8, <2>1 DEF AtCap
<1>13. TypeInv'
  <2>1. \A l \in DOMAIN links' : l \in Path /\ l \in Clean /\ l # <<>> /\ links'[l] \in Path
    BY <1>5, <1>7 DEF TypeInv
  <2>2. pending' \subseteq DOMAIN links'
    BY <1>1, <1>7 DEF TypeInv
  <2>3. frames' = <<>> /\ <<>> \in Seq(Frame') /\ DOMAIN <<>> = {}
    BY <1>1, <1>6, EmptySeq DEF Untouched
  <2>4. frames' \in Seq(Frame)' /\ \A i \in DOMAIN frames' : frames'[i].rest \subseteq LinksUnder(frames[i].src)'
    BY <2>3
  <2> QED BY <1>1, <1>8, <1>10, <2>1, <2>2, <2>4 DEF TypeInv, Filed
<1>14. Read' \cap KeptFiles = Read \cap KeptFiles /\ Read' \cap KeptLinks = (Read \cap KeptLinks) \cup {e}
  BY <1>3, <1>4
<1>15. SoundRead'
  BY <1>1, <1>2, <1>3, <1>6, <1>10 DEF SoundRead, LinkStaysInside
<1>16. OnceRead'
  <2>1. ASSUME NEW f \in Read \cap Carried, f.path = e.path PROVE FALSE
    <3>1. CASE f \in KeptFiles
      <4>1. AsFile(f) \in Filed /\ AsFile(f).path = e.path
        BY <1>6, <2>1, <3>1 DEF FilesRead, AsFile
      <4> QED BY <1>2, <4>1 DEF Filed, Taken
    <3>2. CASE f \in KeptLinks
      BY <1>2, <1>6, <2>1, <3>2 DEF LinksRead, Taken
    <3> QED BY <2>1, <3>1, <3>2 DEF Carried
  <2> QED BY <1>3, <1>6, <1>10, <2>1 DEF OnceRead
<1>17. LinksRead'
  <2>1. DOMAIN links' = {l.path : l \in (Read \cap KeptLinks) \cup {e}}
    BY <1>6, <1>7 DEF LinksRead
  <2>2. \A l \in (Read \cap KeptLinks) \cup {e} : links'[l.path] = PointsTo(l)
    BY <1>6, <1>7 DEF LinksRead
  <2> QED BY <1>10, <1>14, <2>1, <2>2 DEF LinksRead
<1>18. FilesRead'
  <2>1. Cardinality(DOMAIN links') = Cardinality(Read' \cap KeptLinks)
    <3>1. IsFiniteSet(Read \cap KeptLinks) /\ e \notin Read \cap KeptLinks
      BY <1>3, TarFinite, FS_Intersection DEF TypeInv
    <3>2. Cardinality((Read \cap KeptLinks) \cup {e}) = Cardinality(Read \cap KeptLinks) + 1
      BY <3>1, FS_AddElement
    <3> QED BY <1>6, <1>8, <1>14, <3>2 DEF FilesRead
  <2> QED BY <1>1, <1>6, <1>10, <1>11, <1>14, <2>1 DEF FilesRead, Filed
<1>19. Untouched'
  BY <1>1, <1>6 DEF Untouched
<1> QED BY <1>1, <1>13, <1>15, <1>16, <1>17, <1>18, <1>19 DEF ReadInv, Late

(* An entry is refused for a fault of the tar.                             *)
LEMMA RefuseStep ==
    ASSUME TypeInv, ReadInv, status = "reading", NEW e \in todo, todo' = todo \ {e}, RefuseEntry(e)
    PROVE  TypeInv' /\ ReadInv' /\ status' \in Refusals /\ RefusedHasFault'
<1>1. /\ tar' = tar /\ files' = files /\ links' = links /\ total' = total
      /\ tree' = tree /\ pending' = pending /\ frames' = frames /\ checked' = checked
      /\ status' = EntryError(e) /\ EntryError(e) # "none"
  BY DEF RefuseEntry, Refuse, linkVars
<1>2. status' \in {"path", "entries", "kind", "large"}
  BY <1>1 DEF EntryError
<1>3. TypeInv'
  BY <1>1, <1>2, TarFixed DEF TypeInv, Filed, Frame, LinksUnder, Statuses, Refusals
<1>4. ReadInv'
  BY <1>2 DEF ReadInv, Late
<1>5. /\ e \in tar /\ e \notin Read /\ IsEntry(e)
      /\ e.path # BadName => (e \in Kept <=> ~Dropped(e))
  BY EntryAtHand
<1>6. SoundRead /\ OnceRead /\ LinksRead /\ FilesRead /\ Untouched
  BY DEF ReadInv
<1>7. /\ Kept' = Kept /\ KeptFiles' = KeptFiles /\ KeptLinks' = KeptLinks
      /\ Start' = Start /\ MeantFiles' = MeantFiles /\ TooMany' = TooMany /\ Repeated' = Repeated
      /\ Escaping' = Escaping
  BY <1>1, TarFixed
<1>8. ASSUME EntryError(e) = "path"
      PROVE  (\E k \in tar : k.path = BadName) \/ Repeated \/ Escaping
  <2>1. CASE e.path = BadName
    BY <1>5, <2>1
  <2>2. CASE e.path # BadName /\ e.type = "link" /\ ~LinkStaysInside(e) /\ ~Dropped(e)
    BY <1>5, <2>2 DEF Escaping, KeptLinks
  <2>3. CASE e.path # BadName /\ e.type \in {"file", "link"} /\ Taken(e.path) /\ ~Dropped(e)
    <3>1. e \in KeptFiles \cup KeptLinks
      BY <1>5, <2>3 DEF KeptFiles, KeptLinks
    <3>2. PICK f \in Read \cap (KeptFiles \cup KeptLinks) : f.path = e.path
      <4>1. CASE e.path \in DOMAIN links
        BY <1>6, <4>1 DEF LinksRead
      <4>2. CASE \E i \in DOMAIN files : files[i].path = e.path
        <5>1. PICK g \in Filed : g.path = e.path
          BY <4>2 DEF Filed
        <5>2. PICK f \in Read \cap KeptFiles : g = AsFile(f)
          BY <1>6 DEF FilesRead
        <5> QED BY <5>1, <5>2 DEF AsFile
      <4> QED BY <2>3, <4>1, <4>2 DEF Taken
    <3> QED BY <1>5, <3>1, <3>2 DEF Repeated
  <2> QED BY <1>8, <2>1, <2>2, <2>3 DEF EntryError
<1>9. ASSUME EntryError(e) = "kind"
      PROVE  \E k \in Kept : k.type = "other"
  BY <1>5, <1>9 DEF EntryError
<1>10. ASSUME EntryError(e) = "large"
       PROVE  Bytes(Start) > MaxBytes
  <2>1. e \in KeptFiles /\ total + e.size > MaxBytes
    BY <1>5, <1>10 DEF EntryError, KeptFiles
  <2>2. /\ AsFile(e) \in Start /\ AsFile(e) \in Universe /\ AsFile(e).from = e
        /\ Filed \subseteq Start /\ IsFiniteSet(Start) /\ Start \subseteq Universe
    BY <1>6, <2>1, TarFinite, StartInUniverse DEF FilesRead, Start, TypeInv, AsFile
  <2>3. AsFile(e) \notin Filed
    <3> SUFFICES ASSUME AsFile(e) \in Filed PROVE FALSE
      OBVIOUS
    <3>1. PICK k \in Read \cap KeptFiles : AsFile(e) = AsFile(k)
      BY <1>6 DEF FilesRead
    <3>2. k = e
      BY <3>1 DEF AsFile
    <3> QED BY <1>5, <3>2
  <2>4. IsFiniteSet(Filed) /\ Filed \subseteq Universe
    BY <2>2, FS_Subset
  <2>5. Bytes(Filed \cup {AsFile(e)}) = Bytes(Filed) + e.size
    BY <2>2, <2>3, <2>4, BytesAdd DEF TypeInv
  <2>6. Bytes(Filed \cup {AsFile(e)}) <= Bytes(Start) /\ Bytes(Start) \in Nat
    BY <2>2, BytesGrow DEF TypeInv
  <2>7. total \in Nat /\ e.size \in Nat /\ MaxBytes \in Nat /\ total = Bytes(Filed)
    BY <1>5, <1>6, LimitsAssumption DEF TypeInv, IsEntry, FilesRead
  <2> QED BY <2>1, <2>5, <2>6, <2>7
<1>11. ASSUME EntryError(e) = "entries"
       PROVE  \/ Cardinality(KeptFiles) + Cardinality(KeptLinks) > MaxEntries
              \/ /\ Cardinality(KeptFiles) + Cardinality(KeptLinks) = MaxEntries
                 /\ \E k \in Kept : k.type \in {"dir", "header", "other"}
  <2>1. AtCap /\ e \in Kept
    BY <1>5, <1>11 DEF EntryError
  <2> DEFINE RF == Read \cap KeptFiles
             RL == Read \cap KeptLinks
  <2>2. IsFiniteSet(KeptFiles) /\ IsFiniteSet(KeptLinks)
    BY TarFinite DEF TypeInv
  <2>3. Cardinality(RF) + Cardinality(RL) = MaxEntries
    <3>1. Len(files) \in Nat /\ Cardinality(DOMAIN links) \in Nat /\ MaxEntries \in Nat
      BY FS_CardinalityType, LimitsAssumption, LenProperties DEF TypeInv
    <3> QED BY <1>6, <2>1, <3>1 DEF FilesRead, AtCap
  <2>4. /\ Cardinality(RF) \in Nat /\ Cardinality(KeptFiles) \in Nat /\ Cardinality(RF) <= Cardinality(KeptFiles)
        /\ Cardinality(RF) = Cardinality(KeptFiles) => RF = KeptFiles
    <3>1. RF \in SUBSET KeptFiles
      OBVIOUS
    <3> HIDE DEF RF
    <3> QED BY <2>2, <3>1, FS_Subset, FS_CardinalityType
  <2>5. /\ Cardinality(RL) \in Nat /\ Cardinality(KeptLinks) \in Nat /\ Cardinality(RL) <= Cardinality(KeptLinks)
        /\ Cardinality(RL) = Cardinality(KeptLinks) => RL = KeptLinks
    <3>1. RL \in SUBSET KeptLinks
      OBVIOUS
    <3> HIDE DEF RL
    <3> QED BY <2>2, <3>1, FS_Subset, FS_CardinalityType
  <2>6. CASE e \in KeptFiles
    <3>1. RF # KeptFiles
      BY <1>5, <2>6
    <3> HIDE DEF RF, RL
    <3> QED BY <2>3, <2>4, <2>5, <3>1, LimitsAssumption
  <2>7. CASE e \in KeptLinks
    <3>1. RL # KeptLinks
      BY <1>5, <2>7
    <3> HIDE DEF RF, RL
    <3> QED BY <2>3, <2>4, <2>5, <3>1, LimitsAssumption
  <2>8. CASE e \notin KeptFiles /\ e \notin KeptLinks
    <3>1. e.type \in {"dir", "header", "other"}
      BY <1>5, <2>1, <2>8 DEF KeptFiles, KeptLinks, IsEntry
    <3> HIDE DEF RF, RL
    <3> QED BY <2>1, <2>3, <2>4, <2>5, <3>1, LimitsAssumption
  <2> QED BY <2>6, <2>7, <2>8
<1>12. RefusedHasFault'
  <2>1. status' = "kind" => \E k \in Kept' : k.type = "other"
    BY <1>1, <1>7, <1>9
  <2>2. status' = "large" => (TooMany \/ Bytes(Start) > MaxBytes \/ Bytes(MeantFiles) > MaxBytes)'
    <3>1. Bytes(Start)' = Bytes(Start)
      BY <1>7 DEF Bytes
    <3> QED BY <1>1, <1>10, <3>1
  <2>3. status' = "entries" =>
            \/ Cardinality(KeptFiles') + Cardinality(KeptLinks') > MaxEntries
            \/ /\ Cardinality(KeptFiles') + Cardinality(KeptLinks') = MaxEntries
               /\ \E k \in Kept' : k.type \in {"dir", "header", "other"}
    BY <1>1, <1>7, <1>11
  <2>4. status' = "path" => (\E k \in tar' : k.path = BadName) \/ Repeated' \/ Escaping'
    BY <1>1, <1>7, <1>8
  <2>5. status' # "empty"
    BY <1>2
  <2> QED BY <2>1, <2>2, <2>3, <2>4, <2>5 DEF RefusedHasFault
<1> QED BY <1>2, <1>3, <1>4, <1>12 DEF Refusals

-----------------------------------------------------------------------------
(* Once the tar is read.  What a call of expand has to bring to dst is     *)
(* there when it returns: the files below src are copied at once, and a    *)
(* link below src is still to do, open, or settled.                        *)

(* What is meant at s is found at d.                                       *)
Covered(d, s) == \A x \in Path, e \in KeptFiles : At(s \o x, e) \in Least => At(d \o x, e) \in Filed
Filled(d) == \E f \in Filed : Inside(d, f.path)
Opened(d, s) == \E i \in DOMAIN frames : frames[i].dst = d /\ frames[i].src = s
Settled(d, s) ==
    \/ Filled(d) /\ (~Overlaid /\ ~Blocked => Covered(d, s))
    \/ Opened(d, s)

(* Where frame i is to put what the link l below its source leads to.      *)
Goal(i, l) == frames[i].dst \o Rel(frames[i].src, l)
Apart(p, q) == ~Inside(p, q) /\ ~Inside(q, p)

HoldInv == tree = Start /\ Start \subseteq Filed /\ Filed \subseteq Least
FrameInv ==
    \A i \in DOMAIN frames :
        /\ LinkedAt(frames[i].src, links) = {}
        /\ FileAt(frames[i].src) = {}
        /\ Carries(Least, frames[i].dst, frames[i].src)
        /\ Found(frames[i].src) # {} \/ LinksUnder(frames[i].src) # {}
NestInv ==
    \A i, j \in DOMAIN frames : i < j =>
        \E x \in Path \ {<<>>} :
            /\ frames[j].dst = frames[i].dst \o x
            /\ Carries(Least, frames[i].src \o x, frames[j].src)
LinkSettled(l, d) == real(l) # Loops /\ Settled(d, real(l))
OpenInv ==
    /\ \A l \in DOMAIN links \ pending : LinkSettled(l, l)
    /\ \A i \in DOMAIN frames :
         /\ \A f \in FilesUnder(frames[i].src) : At(Goal(i, f.path), f.from) \in Filed
         /\ \A l \in LinksUnder(frames[i].src) \ frames[i].rest : LinkSettled(l, Goal(i, l))
(* Nothing is yet where a link to do is to put things, and no two of those *)
(* places meet.                                                            *)
FreshInv ==
    /\ Distinct(files)
    /\ \A l \in pending, f \in Filed : ~Inside(l, f.path)
    /\ \A i \in DOMAIN frames : \A l \in frames[i].rest :
         /\ \A f \in Filed : ~Inside(Goal(i, l), f.path)
         /\ \A m \in pending : Apart(Goal(i, l), m)
         /\ \A j \in DOMAIN frames : \A m \in frames[j].rest :
              i # j \/ l # m => Apart(Goal(i, l), Goal(j, m))
CheckInv ==
    /\ status = "linking" => checked = 0
    /\ status \in {"linking", "checking"} => DOMAIN links # {}
    /\ status \in {"checking", "done"} => pending = {} /\ frames = <<>>
    /\ status = "checking" =>
         /\ total = Bytes({files[i] : i \in 1 .. checked})
         /\ \A i, j \in 1 .. checked : files[i].path = files[j].path => i = j
    /\ status = "done" => Distinct(files) /\ Bytes(Filed) <= MaxBytes /\ files # <<>>

LateInv == Late => HoldInv /\ FrameInv /\ NestInv /\ OpenInv /\ (~Overlaid => FreshInv) /\ CheckInv

LEMMA LateFacts ==
    ASSUME TypeInv, ReadInv, Late
    PROVE  /\ LinksAgree /\ ~Repeated /\ ~Escaping
           /\ \A e \in tar : e.path # BadName
           /\ \A e \in Kept : e.type # "other"
<1>1. Read = tar /\ SoundRead /\ OnceRead /\ LinksRead
  BY DEF ReadInv, Read
<1>2. KeptFiles \subseteq tar /\ KeptLinks \subseteq tar /\ Kept \subseteq tar
  BY DEF KeptFiles, KeptLinks, Kept
<1>3. LinksAgree
  BY <1>1, <1>2 DEF LinksRead, LinksAgree
<1>4. ~Repeated
  BY <1>1, <1>2 DEF OnceRead, Repeated, Carried
<1>5. ~Escaping /\ (\A e \in tar : e.path # BadName) /\ (\A e \in Kept : e.type # "other")
  BY <1>1, <1>2 DEF SoundRead, Escaping
<1> QED BY <1>3, <1>4, <1>5

LEMMA TreePaths ==
    ASSUME TypeInv, NEW f \in tree
    PROVE  f \in Universe /\ f.path \in Path /\ f.path \in Clean /\ f.from \in KeptFiles /\ f = At(f.path, f.from)
           /\ f.path = f.from.path
<1>1. f \in Start /\ tar \in Tars
  BY DEF TypeInv
<1>2. f \in Universe /\ f.path = f.from.path
  BY <1>1, StartInUniverse
<1>3. f.from \in KeptFiles
  BY <1>2, InUniverse
<1>4. f.path \in Clean
  BY <1>1, <1>2, <1>3, KeptEntry DEF KeptFiles
<1> QED BY <1>2, <1>4, InUniverse

(* The files of the tar lie apart from its links.                          *)
LEMMA TreeApart ==
    ASSUME tar \in Tars, LinksAgree, ~Repeated, ~Overlaid, NEW l \in DOMAIN links
    PROVE  /\ \A f \in Start : ~Inside(l, f.path)
           /\ \A m \in DOMAIN links : l # m => Apart(l, m)
<1>1. LinksAgree /\ ~Repeated
  OBVIOUS
<1>2. PICK k \in KeptLinks : l = k.path
  BY <1>1 DEF LinksAgree
<1>3. ASSUME NEW f \in Start, Inside(l, f.path) PROVE FALSE
  <2>1. f.from \in KeptFiles /\ f.path = f.from.path
    BY StartInUniverse, InUniverse DEF TypeInv
  <2>2. f.from # k /\ f.from \in Kept
    BY <2>1 DEF KeptFiles, KeptLinks
  <2>3. f.from.path # k.path
    BY <1>1, <2>1, <2>2 DEF Repeated
  <2> QED BY <1>2, <1>3, <2>1, <2>2, <2>3 DEF Overlaid, StrictlyInside
<1>4. ASSUME NEW m \in DOMAIN links, l # m PROVE Apart(l, m)
  <2>1. PICK n \in KeptLinks : m = n.path
    BY <1>1 DEF LinksAgree
  <2>2. k \in Kept /\ n \in Kept
    BY DEF KeptLinks
  <2> QED BY <1>2, <1>4, <2>1, <2>2 DEF Apart, Overlaid, StrictlyInside
<1> QED BY <1>3, <1>4

LEMMA StartStep ==
    ASSUME TypeInv, ReadInv, StartLinks
    PROVE  /\ TypeInv' /\ ReadInv' /\ LateInv'
           /\ status' \in Refusals => status' = "empty" /\ KeptFiles' = {}
<1>1. /\ tar' = tar /\ todo' = todo /\ files' = files /\ links' = links /\ total' = total
      /\ tree' = Filed /\ pending' = DOMAIN links /\ frames' = frames /\ checked' = checked
      /\ status = "reading" /\ todo = {}
      /\ status' = IF DOMAIN links # {} THEN "linking"
                   ELSE IF files = <<>> THEN "empty" ELSE "done"
  BY DEF StartLinks, Filed
<1>2. SoundRead /\ OnceRead /\ LinksRead /\ FilesRead /\ Untouched
  BY <1>1 DEF ReadInv
<1>3. Read = tar /\ KeptFiles \subseteq tar /\ KeptLinks \subseteq tar
  BY <1>1 DEF Read, KeptFiles, KeptLinks, Kept
<1>4. Filed = Start
  BY <1>2, <1>3 DEF FilesRead, Start
<1>5. frames = <<>> /\ DOMAIN frames = {} /\ checked = 0
  BY <1>2, EmptySeq DEF Untouched
<1>6. /\ Kept' = Kept /\ KeptFiles' = KeptFiles /\ KeptLinks' = KeptLinks /\ Carried' = Carried
      /\ Universe' = Universe /\ Start' = Start /\ Least' = Least /\ Overlaid' = Overlaid
  BY <1>1, TarFixed DEF Carried
<1>7. TypeInv'
  <2>1. status' \in Statuses
    BY <1>1 DEF Statuses, Refusals
  <2> QED BY <1>1, <1>4, <1>5, <1>6, <2>1 DEF TypeInv, Filed, Frame
<1>8. ReadInv'
  <2>1. SoundRead' /\ OnceRead' /\ LinksRead'
    BY <1>1, <1>2, <1>6 DEF SoundRead, OnceRead, LinksRead, Read
  <2> QED BY <1>1, <2>1 DEF ReadInv
<1>9. Filed' = Filed
  BY <1>1 DEF Filed
<1>10. ASSUME Late' PROVE HoldInv' /\ FrameInv' /\ NestInv' /\ OpenInv'
  <2>1. HoldInv'
    BY <1>1, <1>4, <1>6, <1>9, LeastClosed DEF HoldInv, Closed, TypeInv
  <2>2. FrameInv' /\ NestInv' /\ OpenInv'
    BY <1>1, <1>5 DEF FrameInv, NestInv, OpenInv
  <2> QED BY <2>1, <2>2
<1>11. ASSUME Late', ~Overlaid' PROVE FreshInv'
  <2>1. tar \in Tars /\ ~Overlaid
    BY <1>6, <1>11 DEF TypeInv
  <2>2. Distinct(files')
    BY <1>1, <1>2 DEF FilesRead
  <2>3. LinksAgree /\ ~Repeated
    BY <1>2, <1>3 DEF LinksRead, LinksAgree, OnceRead, Repeated, Carried
  <2>4. \A l \in DOMAIN links, f \in Start : ~Inside(l, f.path)
    BY <2>1, <2>3, TreeApart
  <2> QED BY <1>1, <1>4, <1>5, <1>9, <2>2, <2>4 DEF FreshInv
<1>12. CheckInv'
  <2>1. status' = "done" => Distinct(files') /\ files' # <<>>
    BY <1>1, <1>2 DEF FilesRead
  <2>2. status' = "done" => Bytes(Filed)' <= MaxBytes
    <3>1. Bytes(Filed)' = Bytes(Filed) /\ total = Bytes(Filed)
      BY <1>2, <1>9 DEF FilesRead, Bytes
    <3>2. total \in 0 .. MaxBytes /\ MaxBytes \in Nat
      BY LimitsAssumption DEF TypeInv
    <3> QED BY <3>1, <3>2
  <2> QED BY <1>1, <1>5, <2>1, <2>2 DEF CheckInv
<1>13. status' \in Refusals => status' = "empty" /\ KeptFiles' = {}
  <2>1. status' \in Refusals => status' = "empty" /\ files = <<>>
    BY <1>1 DEF Refusals
  <2>2. files = <<>> => Filed = {}
    BY EmptySeq DEF Filed
  <2>3. Filed = {} => KeptFiles = {}
    BY <1>4 DEF Start
  <2> QED BY <1>6, <2>1, <2>2, <2>3
<1> QED BY <1>7, <1>8, <1>10, <1>11, <1>12, <1>13 DEF LateInv

-----------------------------------------------------------------------------
(* One call of expand: link l is to be replaced next, at d.                *)

Due(l, d) ==
    \/ frames = <<>> /\ l \in pending /\ d = l
    \/ frames # <<>> /\ l \in Top.rest /\ d = Goal(Len(frames), l)
Remaining(l) ==
    IF frames = <<>> THEN frames ELSE [frames EXCEPT ![Len(frames)].rest = Top.rest \ {l}]
Called(l, d) ==
    /\ status = "linking" /\ Due(l, d)
    /\ ExpandError(real(l)) = "none"
    /\ Expand(d, real(l), Remaining(l))
    /\ todo' = todo
    /\ pending' = IF frames = <<>> THEN pending \ {l} ELSE pending
CalledInVain(l, d) ==
    /\ status = "linking" /\ Due(l, d)
    /\ ExpandError(real(l)) # "none"
    /\ Refuse(ExpandError(real(l)))
    /\ todo' = todo

LEMMA ResolveIs ==
    ASSUME ResolveLink \/ ResolveInner
    PROVE  (\E l, d : Called(l, d)) \/ (\E l, d : CalledInVain(l, d))
<1>1. CASE ResolveLink
  <2>1. PICK l \in pending :
           IF ExpandError(real(l)) # "none" THEN Refuse(ExpandError(real(l)))
           ELSE Expand(l, real(l), frames) /\ pending' = pending \ {l}
    BY <1>1 DEF ResolveLink
  <2>2. status = "linking" /\ frames = <<>> /\ todo' = todo /\ Due(l, l) /\ Remaining(l) = frames
    BY <1>1 DEF ResolveLink, Due, Remaining
  <2>3. CASE ExpandError(real(l)) # "none"
    <3>1. CalledInVain(l, l)
      BY <2>1, <2>2, <2>3 DEF CalledInVain
    <3> QED BY <3>1
  <2>4. CASE ExpandError(real(l)) = "none"
    <3>1. Called(l, l)
      BY <2>1, <2>2, <2>4 DEF Called
    <3> QED BY <3>1
  <2> QED BY <2>3, <2>4
<1>2. CASE ResolveInner
  <2>1. PICK l \in Top.rest :
           IF ExpandError(real(l)) # "none" THEN Refuse(ExpandError(real(l)))
           ELSE Expand(Top.dst \o Rel(Top.src, l), real(l),
                       [frames EXCEPT ![Len(frames)].rest = Top.rest \ {l}])
    BY <1>2 DEF ResolveInner
  <2> DEFINE d == Goal(Len(frames), l)
  <2>2. d = Top.dst \o Rel(Top.src, l)
    BY DEF Goal, Top
  <2> HIDE DEF d
  <2>3. /\ status = "linking" /\ frames # <<>> /\ todo' = todo /\ pending' = pending /\ Due(l, d)
        /\ Remaining(l) = [frames EXCEPT ![Len(frames)].rest = Top.rest \ {l}]
    BY <1>2 DEF ResolveInner, Due, Remaining, d
  <2>4. CASE ExpandError(real(l)) # "none"
    <3>1. CalledInVain(l, d)
      BY <2>1, <2>3, <2>4 DEF CalledInVain
    <3> QED BY <3>1
  <2>5. CASE ExpandError(real(l)) = "none"
    <3>1. Called(l, d)
      BY <2>1, <2>2, <2>3, <2>5 DEF Called
    <3> QED BY <3>1
  <2> QED BY <2>4, <2>5
<1> QED BY <1>1, <1>2

LEMMA CleanPaths ==
    /\ Clean \subseteq Path
    /\ \A p, q \in Clean : p \o q \in Clean
    /\ \A p \in Path, q \in Clean : Inside(p, q) => Rel(p, q) \in Clean
<1>1. Clean \subseteq Path
  BY SeqMonotonic DEF Clean, Path
<1>2. ASSUME NEW p \in Clean, NEW q \in Clean PROVE p \o q \in Clean
  BY ConcatProperties DEF Clean
<1>3. ASSUME NEW p \in Path, NEW q \in Clean, Inside(p, q) PROVE Rel(p, q) \in Clean
  <2>1. Len(p) \in Nat /\ Len(q) \in Nat /\ \A i \in 1 .. Len(q) : q[i] \in Name \ IgnoredNames
    BY LenProperties DEF Path, Clean
  <2>2. Len(p) + 1 \in Int /\ Len(q) \in Int /\ \A i \in Len(p) + 1 .. Len(q) : q[i] \in Name \ IgnoredNames
    BY <2>1
  <2>3. SubSeq(q, Len(p) + 1, Len(q)) \in Seq(Name \ IgnoredNames)
    BY <2>2, SubSeqProperties
  <2> QED BY <2>3 DEF Rel, Clean
<1> QED BY <1>1, <1>2, <1>3

LEMMA FrameAt ==
    ASSUME TypeInv, NEW i \in DOMAIN frames
    PROVE  /\ frames[i] \in Frame /\ frames[i].dst \in Clean /\ frames[i].dst \in Path
           /\ frames[i].src \in Path /\ frames[i].rest \subseteq DOMAIN links
           /\ frames[i].rest \subseteq LinksUnder(frames[i].src)
           /\ DOMAIN frames = 1 .. Len(frames) /\ Len(frames) \in Nat
<1>1. frames \in Seq(Frame)
  BY DEF TypeInv
<1>2. DOMAIN frames = 1 .. Len(frames) /\ Len(frames) \in Nat
  BY <1>1, LenProperties
<1>3. frames[i] \in Frame
  BY <1>1, <1>2, ElementOfSeq
<1> QED BY <1>2, <1>3, FrameFields, CleanPaths DEF TypeInv

LEMMA TopFrame ==
    ASSUME TypeInv, frames # <<>>
    PROVE  Len(frames) \in DOMAIN frames /\ Top = frames[Len(frames)] /\ Len(frames) # 0
<1>1. frames \in Seq(Frame) /\ DOMAIN frames = 1 .. Len(frames) /\ Len(frames) \in Nat
  BY LenProperties DEF TypeInv
<1>2. Len(frames) # 0
  BY <1>1, EmptySeq
<1> QED BY <1>1, <1>2 DEF Top

(* A link below a directory, and its place below where that is copied.     *)
LEMMA GoalIs ==
    ASSUME TypeInv, NEW i \in DOMAIN frames, NEW l, l \in Clean, StrictlyInside(frames[i].src, l)
    PROVE  LET x == Rel(frames[i].src, l) IN
           /\ x \in Path /\ x # <<>> /\ l = frames[i].src \o x
           /\ Goal(i, l) = frames[i].dst \o x
           /\ Goal(i, l) \in Clean /\ Goal(i, l) \in Path
<1>1. l \in Path /\ frames[i].src \in Path /\ frames[i].dst \in Clean
  BY FrameAt, CleanPaths
<1>2. Inside(frames[i].src, l) /\ frames[i].src # l
  BY DEF StrictlyInside
<1>3. /\ Rel(frames[i].src, l) \in Path /\ l = frames[i].src \o Rel(frames[i].src, l)
      /\ Rel(frames[i].src, l) # <<>>
  BY <1>1, <1>2, PathSplit
<1>4. Rel(frames[i].src, l) \in Clean
  BY <1>1, <1>2, CleanPaths
<1>5. frames[i].dst \o Rel(frames[i].src, l) \in Clean
  BY <1>1, <1>4, CleanPaths
<1> QED BY <1>3, <1>5, CleanPaths DEF Goal

LEMMA DueFacts ==
    ASSUME TypeInv, ReadInv, LateInv, status = "linking", NEW l, NEW d, Due(l, d)
    PROVE  /\ l \in DOMAIN links /\ l \in Path /\ l \in Clean /\ d \in Path /\ d \in Clean
           /\ Carries(Least, d, l)
           /\ real(l) \in Path \cup {Loops}
           /\ real(l) = Loops => LongChain
           /\ real(l) # Loops =>
                /\ real(l) \in Path /\ LinkedAt(real(l), links) = {}
                /\ Carries(Least, d, real(l)) /\ Carries(Least, l, real(l))
                /\ ~Overlaid => Carries(Least, real(l), l)
<1>1. Late /\ LinksAgree /\ ~Repeated /\ tar \in Tars
  BY LateFacts DEF Late, TypeInv
<1>2. l \in DOMAIN links
  <2>1. CASE frames = <<>>
    BY <2>1 DEF Due, TypeInv
  <2>2. CASE frames # <<>>
    BY <2>2, TopFrame, FrameAt DEF Due
  <2> QED BY <2>1, <2>2
<1>3. l \in Path /\ l \in Clean
  BY <1>2 DEF TypeInv
<1>4. d \in Path /\ d \in Clean /\ Carries(Least, d, l)
  <2>1. CASE frames = <<>>
    BY <1>3, <2>1 DEF Due, Carries
  <2>2. CASE frames # <<>>
    <3> DEFINE n == Len(frames)
    <3>1. n \in DOMAIN frames /\ l \in frames[n].rest /\ d = Goal(n, l)
      BY <2>2, TopFrame DEF Due
    <3> HIDE DEF n
    <3>2. StrictlyInside(frames[n].src, l)
      BY <3>1, FrameAt DEF LinksUnder
    <3>3. PICK x \in Path : l = frames[n].src \o x /\ d = frames[n].dst \o x /\ d \in Clean /\ d \in Path
      BY <1>3, <3>1, <3>2, GoalIs
    <3>4. Carries(Least, frames[n].dst, frames[n].src)
      BY <1>1, <3>1 DEF LateInv, FrameInv
    <3> QED BY <3>1, <3>3, <3>4, FrameAt, CarriesFurther
  <2> QED BY <2>1, <2>2
<1>5. real(l) = Loops => LongChain
  BY <1>2 DEF LongChain
<1>6. /\ real(l) \in Path \cup {Loops}
      /\ real(l) # Loops =>
            /\ real(l) \in Path /\ LinkedAt(real(l), links) = {}
            /\ Carries(Least, l, real(l))
            /\ ~Overlaid => Carries(Least, real(l), l)
  BY <1>1, <1>3, RealIs
<1> QED BY <1>2, <1>3, <1>4, <1>5, <1>6, CarriesAlong

LEMMA RemainingIs ==
    ASSUME TypeInv, NEW l, NEW d, Due(l, d)
    PROVE  /\ Remaining(l) \in Seq(Frame) /\ Len(Remaining(l)) = Len(frames) /\ Len(frames) \in Nat
           /\ DOMAIN Remaining(l) = 1 .. Len(frames) /\ DOMAIN frames = 1 .. Len(frames)
           /\ \A i \in 1 .. Len(frames) :
                /\ Remaining(l)[i].dst = frames[i].dst
                /\ Remaining(l)[i].src = frames[i].src
                /\ Remaining(l)[i].rest = IF i = Len(frames) THEN frames[i].rest \ {l} ELSE frames[i].rest
<1> DEFINE n == Len(frames)
<1>1. frames \in Seq(Frame) /\ n \in Nat /\ DOMAIN frames = 1 .. n
  BY LenProperties DEF TypeInv
<1>2. CASE frames = <<>>
  <2>1. Remaining(l) = frames /\ n = 0
    BY <1>2, EmptySeq DEF Remaining
  <2>2. ~\E i \in 1 .. 0 : TRUE
    OBVIOUS
  <2> QED BY <1>1, <2>1, <2>2
<1>3. CASE frames # <<>>
  <2>1. n \in 1 .. n /\ Top = frames[n]
    BY <1>1, <1>3, TopFrame
  <2> DEFINE f == [frames[n] EXCEPT !.rest = frames[n].rest \ {l}]
  <2>2. frames[n] \in Frame
    BY <1>1, <2>1, ElementOfSeq
  <2>3. f \in Frame /\ f.dst = frames[n].dst /\ f.src = frames[n].src /\ f.rest = frames[n].rest \ {l}
    BY <2>2 DEF Frame
  <2>4. Remaining(l) = [frames EXCEPT ![n] = f]
    BY <1>3, <2>1 DEF Remaining
  <2> HIDE DEF f, n
  <2>5. /\ Remaining(l) \in Seq(Frame) /\ Len(Remaining(l)) = n
        /\ \A i \in 1 .. n : Remaining(l)[i] = IF i = n THEN f ELSE frames[i]
    BY <1>1, <2>1, <2>3, <2>4, ExceptSeq DEF n
  <2>6. DOMAIN Remaining(l) = 1 .. n
    BY <2>5, LenProperties
  <2> QED BY <1>1, <2>3, <2>5, <2>6 DEF n
<1> QED BY <1>2, <1>3

LEMMA CalledFrames ==
    ASSUME TypeInv, ReadInv, LateInv, NEW l, NEW d, Called(l, d)
    PROVE  LET n == Len(frames)
               s == real(l) IN
           /\ n \in Nat /\ DOMAIN frames = 1 .. n /\ frames' \in Seq(Frame)
           /\ s \in Path /\ s # Loops
           /\ FileAt(s) # {} => DOMAIN frames' = 1 .. n
           /\ FileAt(s) = {} =>
                /\ DOMAIN frames' = 1 .. n + 1
                /\ frames'[n + 1].dst = d /\ frames'[n + 1].src = s /\ frames'[n + 1].rest = LinksUnder(s)
           /\ \A i \in 1 .. n :
                /\ frames'[i].dst = frames[i].dst /\ frames'[i].src = frames[i].src
                /\ frames'[i].rest = IF i = n THEN frames[i].rest \ {l} ELSE frames[i].rest
<1> DEFINE n == Len(frames)
           s == real(l)
           f == [dst |-> d, src |-> s, rest |-> LinksUnder(s)]
           R == Remaining(l)
<1>1. Due(l, d) /\ ExpandError(s) = "none" /\ Expand(d, s, R) /\ status = "linking"
  BY DEF Called
<1>2. s # Loops /\ s \in Path /\ d \in Clean
  <2>1. s # Loops
    BY <1>1 DEF ExpandError
  <2> QED BY <1>1, <2>1, DueFacts
<1>3. f \in Frame
  BY <1>2 DEF Frame, LinksUnder
<1>4. /\ R \in Seq(Frame) /\ Len(R) = n /\ n \in Nat
      /\ DOMAIN R = 1 .. n /\ DOMAIN frames = 1 .. n
      /\ \A i \in 1 .. n :
           /\ R[i].dst = frames[i].dst /\ R[i].src = frames[i].src
           /\ R[i].rest = IF i = n THEN frames[i].rest \ {l} ELSE frames[i].rest
  BY <1>1, RemainingIs
<1>5. frames' = IF FileAt(s) # {} THEN R ELSE Append(R, f)
  BY <1>1 DEF Expand
<1>6. f.dst = d /\ f.src = s /\ f.rest = LinksUnder(s)
  OBVIOUS
<1> HIDE DEF f, R, s, n
<1>7. CASE FileAt(s) # {}
  BY <1>2, <1>4, <1>5, <1>7 DEF n, s
<1>8. CASE FileAt(s) = {}
  <2>1. frames' = Append(R, f)
    BY <1>5, <1>8
  <2>2. /\ frames' \in Seq(Frame) /\ Len(frames') = n + 1
        /\ \A i \in 1 .. n : frames'[i] = R[i]
        /\ frames'[n + 1] = f
    BY <1>3, <1>4, <2>1, AppendProperties
  <2>3. DOMAIN frames' = 1 .. n + 1
    BY <2>2, LenProperties
  <2> QED BY <1>2, <1>4, <1>6, <1>8, <2>2, <2>3 DEF n, s
<1> QED BY <1>7, <1>8

(* What is copied from src to dst, and nothing else.                       *)
LEMMA CopiesAre ==
    ASSUME TypeInv, NEW d, d \in Clean, NEW s, s \in Path
    PROVE  /\ IsFiniteSet(Copies(d, s)) /\ Copies(d, s) \subseteq Universe
           /\ IsFiniteSet(Found(s)) /\ Cardinality(Copies(d, s)) <= Cardinality(Found(s))
           /\ \A g \in Found(s) :
                /\ g \in tree /\ Inside(s, g.path)
                /\ At(d \o Rel(s, g.path), g.from) \in Copies(d, s)
           /\ \A f \in Copies(d, s) : f.path \in Clean /\ \E g \in Found(s), y \in Path :
                g = At(s \o y, f.from) /\ f = At(d \o y, f.from) /\ f.from \in KeptFiles
<1>1. Found(s) \subseteq tree /\ \A g \in Found(s) : Inside(s, g.path)
  <2>1. \A g \in FileAt(s) : Inside(s, g.path)
    <3>1. SubSeq(s, 1, Len(s)) = s /\ Len(s) \in Nat
      BY SubSeqFull, LenProperties DEF Path
    <3> QED BY <3>1 DEF FileAt, Inside, IsPathPrefix
  <2> QED BY <2>1 DEF Found, FileAt, FilesUnder, StrictlyInside
<1>2. IsFiniteSet(Found(s))
  <2>1. IsFiniteSet(Start) /\ tree \subseteq Start
    BY TarFinite DEF TypeInv
  <2> QED BY <1>1, <2>1, FS_Subset
<1>3. ASSUME NEW g \in Found(s)
      PROVE  /\ [g EXCEPT !.path = d \o Rel(s, g.path)] = At(d \o Rel(s, g.path), g.from)
             /\ Rel(s, g.path) \in Path /\ g = At(s \o Rel(s, g.path), g.from)
             /\ d \o Rel(s, g.path) \in Clean /\ g.from \in KeptFiles
  <2>1. g \in tree /\ Inside(s, g.path)
    BY <1>1
  <2>2. g \in Universe /\ g.path \in Clean /\ g.path \in Path /\ g = At(g.path, g.from) /\ g.from \in KeptFiles
    BY <2>1, TreePaths
  <2>3. Rel(s, g.path) \in Clean
    BY <2>1, <2>2, CleanPaths
  <2>4. Rel(s, g.path) \in Path /\ g.path = s \o Rel(s, g.path)
    BY <2>1, <2>2, PathSplit
  <2>5. d \o Rel(s, g.path) \in Clean
    BY <2>3, CleanPaths
  <2>6. [g EXCEPT !.path = d \o Rel(s, g.path)] = At(d \o Rel(s, g.path), g.from)
    BY <2>2, InUniverse
  <2> QED BY <2>2, <2>4, <2>5, <2>6
<1> DEFINE h == [g \in Found(s) |-> [g EXCEPT !.path = d \o Rel(s, g.path)]]
<1>4. Copies(d, s) = {h[g] : g \in Found(s)}
  BY DEF Copies
<1>5. DOMAIN h = Found(s) /\ h = [g \in Found(s) |-> h[g]]
  OBVIOUS
<1>6. \A g \in Found(s) : h[g] = At(d \o Rel(s, g.path), g.from)
  BY <1>3
<1> HIDE DEF h
<1>7. IsFiniteSet(Copies(d, s)) /\ Cardinality(Copies(d, s)) <= Cardinality(Found(s))
  BY <1>2, <1>4, <1>5, ImageFinite
<1>8. \A g \in Found(s) : At(d \o Rel(s, g.path), g.from) \in Copies(d, s)
  BY <1>4, <1>6
<1>9. ASSUME NEW f \in Copies(d, s)
      PROVE  /\ f \in Universe /\ f.path \in Clean
             /\ \E g \in Found(s), y \in Path :
                   g = At(s \o y, f.from) /\ f = At(d \o y, f.from) /\ f.from \in KeptFiles
  <2>1. PICK g \in Found(s) : f = At(d \o Rel(s, g.path), g.from)
    BY <1>4, <1>6
  <2>2. f.path = d \o Rel(s, g.path) /\ f.from = g.from
    BY <2>1 DEF At
  <2>3. f.path \in Clean /\ f.path \in Path /\ f.from \in KeptFiles
    BY <1>3, <2>2, CleanPaths
  <2>4. f \in Universe
    BY <2>1, <2>2, <2>3, AtInUniverse
  <2> QED BY <1>3, <2>1, <2>2, <2>3, <2>4
<1> QED BY <1>1, <1>2, <1>7, <1>8, <1>9

LEMMA CalledFiles ==
    ASSUME TypeInv, ReadInv, LateInv, NEW l, NEW d, Called(l, d)
    PROVE  LET C == Copies(d, real(l)) IN
           /\ tar' = tar /\ todo' = todo /\ links' = links /\ total' = total /\ tree' = tree
           /\ checked' = checked /\ status' = status
           /\ pending' \subseteq pending
           /\ files' = files \o SetToSeq(C) /\ files' \in Seq(Universe) /\ Len(files') <= MaxEntries
           /\ Len(files) \in Nat /\ Len(files') \in Nat /\ Len(files) <= Len(files')
           /\ Filed' = Filed \cup C
           /\ Distinct(files) /\ (\A f \in Filed, g \in C : f.path # g.path) => Distinct(files')
<1> DEFINE s == real(l)
           C == Copies(d, s)
           L == SetToSeq(C)
<1>1. status = "linking" /\ Due(l, d) /\ ExpandError(s) = "none"
      /\ files' = files \o L /\ todo' = todo
      /\ tar' = tar /\ links' = links /\ total' = total /\ tree' = tree
      /\ checked' = checked /\ status' = status /\ pending' \subseteq pending
  BY DEF Called, Expand
<1>2. s \in Path /\ d \in Clean
  <2>1. s # Loops
    BY <1>1 DEF ExpandError
  <2> QED BY <1>1, <2>1, DueFacts
<1>3. IsFiniteSet(C) /\ C \subseteq Universe /\ Cardinality(C) <= Cardinality(Found(s)) /\ IsFiniteSet(Found(s))
  BY <1>2, CopiesAre
<1>4. L \in Seq(C) /\ Len(L) = Cardinality(C) /\ {L[i] : i \in DOMAIN L} = C
      /\ \A i, j \in DOMAIN L : L[i] = L[j] => i = j
  <2> HIDE DEF C
  <2> QED BY <1>3, ListOfSet
<1>5. L \in Seq(Universe) /\ files \in Seq(Universe)
  BY <1>3, <1>4, SeqMonotonic DEF TypeInv
<1>6. Len(files) + Cardinality(Found(s)) <= MaxEntries
  BY <1>1, LimitsAssumption, <1>3, FS_CardinalityType, <1>5, LenProperties DEF ExpandError
<1> HIDE DEF L, C
<1>7. /\ files' \in Seq(Universe) /\ Len(files') = Len(files) + Len(L) /\ Len(files) \in Nat /\ Len(L) \in Nat
      /\ {files'[i] : i \in DOMAIN files'} = {files[i] : i \in DOMAIN files} \cup {L[i] : i \in DOMAIN L}
      /\ Distinct(files) /\ Distinct(L) /\ (\A i \in DOMAIN files, j \in DOMAIN L : files[i].path # L[j].path)
            => Distinct(files')
  <2> DEFINE gs == files \o L
  <2>1. /\ gs \in Seq(Universe) /\ Len(gs) = Len(files) + Len(L) /\ Len(files) \in Nat /\ Len(L) \in Nat
        /\ {gs[i] : i \in DOMAIN gs} = {files[i] : i \in DOMAIN files} \cup {L[i] : i \in DOMAIN L}
        /\ Distinct(files) /\ Distinct(L) /\ (\A i \in DOMAIN files, j \in DOMAIN L : files[i].path # L[j].path)
              => Distinct(gs)
    BY <1>5, ListConcat
  <2>2. files' = gs
    BY <1>1
  <2> HIDE DEF gs
  <2> QED BY <2>1, <2>2
<1>8. Len(files') <= MaxEntries /\ Len(files) <= Len(files') /\ Len(files') \in Nat
  BY <1>3, <1>4, <1>6, <1>7, FS_CardinalityType, LimitsAssumption
<1>9. Filed' = Filed \cup C
  BY <1>4, <1>7 DEF Filed
<1>10. Distinct(L)
  <2> SUFFICES ASSUME NEW i \in DOMAIN L, NEW j \in DOMAIN L, L[i].path = L[j].path PROVE i = j
    BY DEF Distinct
  <2>1. L[i] \in C /\ L[j] \in C
    BY <1>4
  <2>2. PICK g \in Found(s), y \in Path :
           g = At(s \o y, L[i].from) /\ L[i] = At(d \o y, L[i].from) /\ L[i].from \in KeptFiles
    BY <1>2, <2>1, CopiesAre DEF C
  <2>3. PICK h \in Found(s), z \in Path :
           h = At(s \o z, L[j].from) /\ L[j] = At(d \o z, L[j].from) /\ L[j].from \in KeptFiles
    BY <1>2, <2>1, CopiesAre DEF C
  <2>4. L[i].path = d \o y /\ L[j].path = d \o z
    BY <2>2, <2>3 DEF At
  <2>5. y = z
    BY <1>2, <2>4, CleanPaths, PathCancel
  <2>6. g.path = h.path /\ g \in tree /\ h \in tree /\ g.from = L[i].from /\ h.from = L[j].from
    <3>1. g.path = s \o y /\ h.path = s \o z /\ g.from = L[i].from /\ h.from = L[j].from
      BY <2>2, <2>3 DEF At
    <3>2. g \in tree /\ h \in tree
      BY <1>2, <2>2, <2>3, CopiesAre
    <3> QED BY <2>5, <3>1, <3>2
  <2>7. g.from.path = h.from.path /\ g.from \in KeptFiles /\ h.from \in KeptFiles
    BY <2>6, TreePaths
  <2>8. ~Repeated
    BY <1>1, LateFacts DEF Late
  <2>9. L[i] = L[j]
    BY <2>2, <2>3, <2>5, <2>6, <2>7, <2>8 DEF Repeated
  <2> QED BY <1>4, <2>9
<1>11. Distinct(files) /\ (\A f \in Filed, g \in C : f.path # g.path) => Distinct(files')
  BY <1>4, <1>7, <1>10 DEF Filed
<1> QED BY <1>1, <1>7, <1>8, <1>9, <1>11 DEF C, L

LEMMA CallTypes ==
    ASSUME TypeInv, ReadInv, LateInv, NEW l, NEW d, Called(l, d)
    PROVE  TypeInv' /\ ReadInv'
<1> DEFINE s == real(l)
           n == Len(frames)
<1>1. /\ tar' = tar /\ todo' = todo /\ links' = links /\ total' = total /\ tree' = tree
      /\ checked' = checked /\ status' = status /\ pending' \subseteq pending
      /\ files' \in Seq(Universe) /\ Len(files') <= MaxEntries
      /\ Len(files) \in Nat /\ Len(files') \in Nat /\ Len(files) <= Len(files')
      /\ Filed' = Filed \cup Copies(d, s)
  BY CalledFiles
<1>2. status = "linking" /\ Due(l, d)
  BY DEF Called
<1>3. /\ n \in Nat /\ DOMAIN frames = 1 .. n /\ frames' \in Seq(Frame) /\ s \in Path
      /\ FileAt(s) # {} => DOMAIN frames' = 1 .. n
      /\ FileAt(s) = {} =>
           DOMAIN frames' = 1 .. n + 1 /\ frames'[n + 1].src = s /\ frames'[n + 1].rest = LinksUnder(s)
      /\ \A i \in 1 .. n :
           /\ frames'[i].src = frames[i].src
           /\ frames'[i].rest = IF i = n THEN frames[i].rest \ {l} ELSE frames[i].rest
  BY CalledFrames
<1>4. Universe' = Universe /\ Start' = Start /\ Kept' = Kept /\ KeptFiles' = KeptFiles /\ KeptLinks' = KeptLinks
      /\ Carried' = Carried
  BY <1>1, TarFixed DEF Carried
<1> HIDE DEF s, n
<1>5. \A i \in DOMAIN frames' : frames'[i].rest \subseteq LinksUnder(frames'[i].src)
  <2> TAKE i \in DOMAIN frames'
  <2>1. CASE i \in 1 .. n
    <3>1. frames[i].rest \subseteq LinksUnder(frames[i].src)
      BY <1>3, <2>1 DEF TypeInv
    <3> QED BY <1>3, <2>1, <3>1
  <2>2. CASE i \notin 1 .. n
    BY <1>3, <2>2
  <2> QED BY <2>1, <2>2
<1>6. \A f \in Filed' : f.path \in Clean
  <2>1. d \in Clean
    BY <1>2, DueFacts
  <2>2. \A f \in Copies(d, s) : f.path \in Clean
    BY <1>3, <2>1, CopiesAre
  <2> QED BY <1>1, <2>2 DEF TypeInv
<1>7. TypeInv'
  <2>1. \A p : LinksUnder(p)' = LinksUnder(p)
    BY <1>1 DEF LinksUnder
  <2>2. \A i \in DOMAIN frames' : frames'[i].rest \subseteq {k \in DOMAIN links' : StrictlyInside(frames'[i].src, k)}
    BY <1>1, <1>5 DEF LinksUnder
  <2>3. frames' \in Seq(Frame')
    BY <1>1, <1>3 DEF Frame
  <2>4. pending' \subseteq DOMAIN links'
    BY <1>1 DEF TypeInv
  <2>5. checked' \in 0 .. Len(files')
    BY <1>1 DEF TypeInv
  <2> QED BY <1>1, <1>4, <1>6, <2>2, <2>3, <2>4, <2>5 DEF TypeInv, LinksUnder
<1>8. ReadInv'
  <2>1. Late
    BY <1>2 DEF Late
  <2>2. SoundRead /\ OnceRead /\ LinksRead /\ todo = {}
    BY <2>1 DEF ReadInv
  <2>3. SoundRead' /\ OnceRead' /\ LinksRead'
    BY <1>1, <1>4, <2>2 DEF SoundRead, OnceRead, LinksRead, Read
  <2> QED BY <1>1, <1>2, <2>2, <2>3 DEF ReadInv
<1> QED BY <1>7, <1>8

(* What is due lies below what every call waiting for it was called for,   *)
(* and what is copied there was meant there.                               *)
LEMMA DueNests ==
    ASSUME TypeInv, ReadInv, LateInv, status = "linking", NEW l, NEW d, Due(l, d), real(l) # Loops,
           NEW i \in DOMAIN frames
    PROVE  \E x \in Path \ {<<>>} : d = frames[i].dst \o x /\ Carries(Least, frames[i].src \o x, real(l))
<1> DEFINE s == real(l)
           n == Len(frames)
<1>1. n \in Nat /\ DOMAIN frames = 1 .. n
  BY LenProperties DEF TypeInv
<1>2. l \in Path /\ l \in Clean /\ d \in Path /\ s \in Path /\ Carries(Least, l, s)
  BY DueFacts
<1>3. NestInv
  BY DEF LateInv, Late
<1> HIDE DEF s, n
<1>4. frames # <<>> /\ n \in DOMAIN frames /\ l \in frames[n].rest /\ d = Goal(n, l)
  <2>1. frames # <<>>
    BY <1>1, EmptySeq DEF n
  <2> QED BY <1>1, <2>1, TopFrame DEF Due, n
<1>5. StrictlyInside(frames[n].src, l)
  BY <1>4, FrameAt DEF LinksUnder
<1>6. PICK x \in Path : x # <<>> /\ l = frames[n].src \o x /\ d = frames[n].dst \o x
  BY <1>2, <1>4, <1>5, GoalIs
<1>7. CASE i = n
  BY <1>2, <1>6, <1>7 DEF s
<1>8. CASE i # n
  <2>1. i \in DOMAIN frames /\ i < n
    BY <1>1, <1>8
  <2>2. PICK z \in Path \ {<<>>} :
           frames[n].dst = frames[i].dst \o z /\ Carries(Least, frames[i].src \o z, frames[n].src)
    BY <1>3, <1>4, <2>1 DEF NestInv
  <2>3. frames[i].dst \in Path /\ frames[i].src \in Path /\ frames[n].src \in Path
    BY <1>4, <2>1, FrameAt
  <2>4. z \o x \in Path /\ z \o x # <<>>
    <3>1. z \o x \in Path
      BY <2>2, PathCat
    <3>2. z \o x # <<>>
      BY <1>6, <2>2, ConcatEqualIffEmpty DEF Path
    <3> QED BY <3>1, <3>2
  <2>5. d = frames[i].dst \o (z \o x) /\ (frames[i].src \o z) \o x = frames[i].src \o (z \o x)
    <3>1. z \in Path
      BY <2>2
    <3>2. (frames[i].dst \o z) \o x = frames[i].dst \o (z \o x)
      <4>1. frames[i].dst \in Path /\ x \in Path
        BY <1>6, <2>3
      <4> QED BY ONLY <3>1, <4>1, PathAssoc
    <3>3. (frames[i].src \o z) \o x = frames[i].src \o (z \o x)
      <4>1. frames[i].src \in Path /\ x \in Path
        BY <1>6, <2>3
      <4> QED BY ONLY <3>1, <4>1, PathAssoc
    <3>4. d = (frames[i].dst \o z) \o x
      BY <1>6, <2>2
    <3> QED BY <3>2, <3>3, <3>4
  <2>6. frames[i].src \o z \in Path
    BY <2>2, <2>3, PathCat
  <2>7. Carries(Least, (frames[i].src \o z) \o x, l)
    BY <1>6, <2>2, <2>3, <2>6, CarriesFurther
  <2>8. Carries(Least, frames[i].src \o (z \o x), s)
    BY <1>2, <2>5, <2>7, CarriesAlong
  <2> QED BY <2>4, <2>5, <2>8 DEF s
<1> QED BY <1>7, <1>8

LEMMA DueCopies ==
    ASSUME TypeInv, ReadInv, LateInv, status = "linking", NEW l, NEW d, Due(l, d), real(l) # Loops
    PROVE  Copies(d, real(l)) \subseteq Least
<1> DEFINE s == real(l)
<1>1. d \in Clean /\ s \in Path /\ Carries(Least, d, s)
  BY DueFacts
<1>2. HoldInv
  BY DEF LateInv, Late
<1> HIDE DEF s
<1>3. ASSUME NEW f \in Copies(d, s) PROVE f \in Least
  <2>1. PICK g \in Found(s), y \in Path : g = At(s \o y, f.from) /\ f = At(d \o y, f.from) /\ f.from \in KeptFiles
    BY <1>1, CopiesAre
  <2>2. g \in Least
    BY <1>1, <1>2, CopiesAre DEF HoldInv
  <2> QED BY <1>1, <2>1, <2>2 DEF Carries
<1> QED BY <1>3 DEF s

LEMMA CallHolds ==
    ASSUME TypeInv, ReadInv, LateInv, NEW l, NEW d, Called(l, d)
    PROVE  HoldInv' /\ FrameInv' /\ NestInv'
<1> DEFINE s == real(l)
           n == Len(frames)
<1>1. /\ tar' = tar /\ links' = links /\ tree' = tree /\ Filed' = Filed \cup Copies(d, s)
  BY CalledFiles
<1>2. status = "linking" /\ Due(l, d) /\ ExpandError(s) = "none"
  BY DEF Called
<1>3. /\ n \in Nat /\ DOMAIN frames = 1 .. n /\ s \in Path /\ s # Loops
      /\ FileAt(s) # {} => DOMAIN frames' = 1 .. n
      /\ FileAt(s) = {} => DOMAIN frames' = 1 .. n + 1 /\ frames'[n + 1].src = s /\ frames'[n + 1].dst = d
      /\ \A i \in 1 .. n : frames'[i].dst = frames[i].dst /\ frames'[i].src = frames[i].src
  BY CalledFrames
<1>4. /\ l \in Path /\ l \in Clean /\ d \in Path /\ d \in Clean
      /\ LinkedAt(s, links) = {} /\ Carries(Least, d, s) /\ Carries(Least, l, s)
  BY <1>2, <1>3, DueFacts
<1>5. Start' = Start /\ Least' = Least /\ KeptFiles' = KeptFiles
  BY <1>1, TarFixed
<1>6. HoldInv /\ FrameInv /\ NestInv
  BY <1>2 DEF LateInv, Late
<1>7. Found(s) # {} \/ LinksUnder(s) # {}
  BY <1>2 DEF ExpandError
<1> HIDE DEF s, n
<1>8. HoldInv'
  <2>1. Copies(d, s) \subseteq Least
    BY <1>2, <1>3, DueCopies DEF s
  <2> QED BY <1>1, <1>5, <1>6, <2>1 DEF HoldInv
<1>9. FrameInv'
  <2> SUFFICES ASSUME NEW i \in DOMAIN frames'
               PROVE  /\ LinkedAt(frames'[i].src, links) = {}
                      /\ FileAt(frames'[i].src) = {}
                      /\ Carries(Least, frames'[i].dst, frames'[i].src)
                      /\ Found(frames'[i].src) # {} \/ LinksUnder(frames'[i].src) # {}
    <3>1. \A S, p, q : Carries(S, p, q)' = Carries(S, p, q)
      BY <1>5 DEF Carries
    <3>2. \A p : /\ FileAt(p)' = FileAt(p) /\ Found(p)' = Found(p) /\ LinksUnder(p)' = LinksUnder(p)
                 /\ LinkedAt(p, links)' = LinkedAt(p, links)
      BY <1>1 DEF FileAt, Found, FilesUnder, LinksUnder, LinkedAt
    <3> QED BY <1>1, <1>5, <3>1, <3>2 DEF FrameInv, Carries, FileAt, Found, FilesUnder, LinksUnder
  <2>1. CASE i \in 1 .. n
    BY <1>3, <1>6, <2>1 DEF FrameInv
  <2>2. CASE i \notin 1 .. n
    <3>1. FileAt(s) = {} /\ i = n + 1
      BY <1>3, <2>2
    <3> QED BY <1>3, <1>4, <1>7, <3>1
  <2> QED BY <2>1, <2>2
<1>10. ASSUME NEW i \in 1 .. n
       PROVE  \E x \in Path \ {<<>>} : d = frames[i].dst \o x /\ Carries(Least, frames[i].src \o x, s)
  BY <1>2, <1>3, <1>10, DueNests DEF s
<1>11. NestInv'
  <2> SUFFICES ASSUME NEW i \in DOMAIN frames', NEW j \in DOMAIN frames', i < j
               PROVE  \E x \in Path \ {<<>>} :
                        /\ frames'[j].dst = frames'[i].dst \o x
                        /\ Carries(Least, frames'[i].src \o x, frames'[j].src)
    BY <1>5 DEF NestInv, Carries
  <2>1. i \in 1 .. n
    BY <1>3
  <2>2. CASE j \in 1 .. n
    BY <1>3, <1>6, <2>1, <2>2 DEF NestInv
  <2>3. CASE j \notin 1 .. n
    <3>1. j = n + 1 /\ FileAt(s) = {}
      BY <1>3, <2>3
    <3> QED BY <1>3, <1>10, <2>1, <3>1
  <2> QED BY <2>2, <2>3
<1> QED BY <1>8, <1>9, <1>11

-----------------------------------------------------------------------------
(* Places apart stay apart further down.                                   *)

LEMMA PathDown ==
    ASSUME NEW p \in Path, NEW q \in Path, NEW x \in Path, Inside(p, q), Inside(q, x)
    PROVE  Inside(p, x)
BY InsideTransitive DEF Path

LEMMA ApartBelow ==
    ASSUME NEW p \in Path, NEW q \in Path, NEW y \in Path, Apart(p, q)
    PROVE  Apart(p \o y, q) /\ Apart(q, p \o y)
<1>1. p \o y \in Path /\ Inside(p, p \o y)
  BY PathCat
<1>2. ASSUME Inside(p \o y, q) PROVE FALSE
  BY <1>1, <1>2, PathDown DEF Apart
<1>3. ASSUME Inside(q, p \o y) PROVE FALSE
  BY <1>1, <1>3, PathChain DEF Apart
<1> QED BY <1>2, <1>3 DEF Apart

LEMMA InsideMoved ==
    ASSUME NEW d \in Path, NEW s \in Path, NEW y \in Path, NEW z \in Path, Inside(d \o y, d \o z)
    PROVE  Inside(s \o y, s \o z)
<1>1. d \o y \in Path /\ d \o z \in Path /\ s \o y \in Path
  BY PathCat
<1>2. PICK w \in Path : d \o z = (d \o y) \o w
  BY <1>1, PathSplit, ZenonT(30)
<1>3. d \o z = d \o (y \o w) /\ y \o w \in Path
  <2>1. (d \o y) \o w = d \o (y \o w)
    BY ONLY d \in Path, y \in Path, w \in Path, PathAssoc
  <2> QED BY <1>2, <2>1, PathCat
<1>4. z = y \o w
  BY <1>3, PathCancel
<1>5. s \o z = (s \o y) \o w
  BY <1>4, <1>2, PathAssoc
<1> QED BY <1>1, <1>2, <1>5, PathCat

-----------------------------------------------------------------------------
(* What a call of expand settles.                                          *)

LEMMA SettledKept ==
    ASSUME TypeInv, ReadInv, LateInv, NEW l, NEW d, Called(l, d), NEW p, NEW q, Settled(p, q)
    PROVE  Settled(p, q)'
<1>1. tar' = tar /\ Filed \subseteq Filed'
  BY CalledFiles
<1>2. Least' = Least /\ KeptFiles' = KeptFiles /\ Overlaid' = Overlaid /\ Blocked' = Blocked
  BY <1>1, TarFixed
<1>3. Opened(p, q) => Opened(p, q)'
  <2>1. /\ DOMAIN frames = 1 .. Len(frames) /\ Len(frames) \in Nat
        /\ DOMAIN frames' = 1 .. Len(frames) \/ DOMAIN frames' = 1 .. Len(frames) + 1
        /\ \A i \in 1 .. Len(frames) : frames'[i].dst = frames[i].dst /\ frames'[i].src = frames[i].src
    BY CalledFrames
  <2>2. DOMAIN frames \subseteq DOMAIN frames'
    BY <2>1
  <2> QED BY <2>1, <2>2 DEF Opened
<1>4. Filled(p) => Filled(p)'
  BY <1>1 DEF Filled
<1>5. Covered(p, q) => Covered(p, q)'
  BY <1>1, <1>2 DEF Covered
<1> QED BY <1>2, <1>3, <1>4, <1>5 DEF Settled

LEMMA SettledNow ==
    ASSUME TypeInv, ReadInv, LateInv, NEW l, NEW d, Called(l, d)
    PROVE  Settled(d, real(l))'
<1> DEFINE s == real(l)
           n == Len(frames)
<1>1. /\ tar' = tar /\ links' = links /\ tree' = tree /\ Filed' = Filed \cup Copies(d, s)
  BY CalledFiles
<1>2. status = "linking" /\ Due(l, d) /\ s # Loops
  BY CalledFrames DEF Called
<1>3. d \in Path /\ d \in Clean /\ s \in Path /\ LinkedAt(s, links) = {}
  BY <1>2, DueFacts
<1>4. s' = s
  BY <1>1 DEF real
<1>5. Start' = Start /\ Least' = Least /\ KeptFiles' = KeptFiles /\ Overlaid' = Overlaid /\ Blocked' = Blocked
  BY <1>1, TarFixed
<1>6. HoldInv /\ LinksAgree /\ ~Repeated /\ tar \in Tars
  BY <1>2, LateFacts DEF LateInv, Late, TypeInv
<1>7. FileAt(s) = {} => n \in Nat /\ DOMAIN frames' = 1 .. n + 1 /\ frames'[n + 1].dst = d /\ frames'[n + 1].src = s
  BY CalledFrames
<1> HIDE DEF s, n
<1>8. CASE FileAt(s) = {}
  <2>1. n + 1 \in DOMAIN frames'
    BY <1>7, <1>8
  <2> QED BY <1>4, <1>7, <1>8, <2>1 DEF Settled, Opened, s
<1>9. CASE FileAt(s) # {}
  <2>1. PICK g \in FileAt(s) : g \in tree /\ g.path = s
    BY <1>9 DEF FileAt
  <2>2. Found(s) = FileAt(s)
    BY <1>9 DEF Found
  <2>3. g.from \in KeptFiles /\ g.from \in Kept /\ g.from.path = s
    BY <2>1, TreePaths DEF KeptFiles
  <2>4. \A f \in FileAt(s) : At(d, f.from) \in Filed'
    <3> TAKE f \in FileAt(s)
    <3>1. f.path = s
      BY DEF FileAt
    <3>2. Rel(s, s) = <<>> /\ d \o <<>> = d
      BY <1>3, PathEmpty, PathCat
    <3>3. At(d \o Rel(s, f.path), f.from) \in Copies(d, s)
      BY <1>3, <2>2, CopiesAre
    <3> QED BY <1>1, <3>1, <3>2, <3>3
  <2>5. Filled(d)'
    <3>1. At(d, g.from).path = d /\ Inside(d, d)
      <4>1. Inside(d, d \o <<>>) /\ d \o <<>> = d
        BY <1>3, PathEmpty, PathCat
      <4> QED BY <4>1 DEF At
    <3> QED BY <2>4, <3>1 DEF Filled
  <2>6. ASSUME ~Overlaid, ~Blocked, NEW x \in Path, NEW e \in KeptFiles, At(s \o x, e) \in Least
        PROVE  At(d \o x, e) \in Filed'
    <3>1. s \o x \in Path /\ Inside(s, s \o x)
      BY <1>3, PathCat
    <3>2. At(s \o x, e).path = s \o x /\ At(s \o x, e).from = e
      BY DEF At
    <3>3. At(s \o x, e) \in Start
      <4> SUFFICES ASSUME At(s \o x, e) \notin Start PROVE FALSE
        OBVIOUS
      <4>1. PICK k \in LinksUnder(s) : TRUE
        BY <1>3, <1>6, <2>6, <3>1, <3>2, MeantUnder
      <4>2. k \in DOMAIN links /\ StrictlyInside(s, k)
        BY DEF LinksUnder
      <4>3. PICK h \in KeptLinks : h.path = k
        BY <1>6, <4>2 DEF LinksAgree
      <4>4. h \in Kept
        BY DEF KeptLinks
      <4> QED BY <2>3, <2>6, <4>2, <4>3, <4>4 DEF Blocked
    <3>4. At(s \o x, e) \in tree
      BY <1>6, <3>3 DEF HoldInv
    <3>5. e.path = s \o x /\ e \in Kept
      BY <3>2, <3>4, TreePaths DEF KeptFiles
    <3>6. s \o x = s
      BY <2>3, <2>6, <3>1, <3>5 DEF Blocked, StrictlyInside
    <3>7. At(s \o x, e) \in FileAt(s)
      BY <3>2, <3>4, <3>6 DEF FileAt
    <3>8. x = <<>>
      BY <1>3, <3>6, PathEmpty, PathCancel
    <3>9. At(d, e) \in Filed'
      BY <2>4, <3>2, <3>7
    <3> QED BY <1>3, <3>8, <3>9, PathEmpty
  <2>7. ~Overlaid /\ ~Blocked => Covered(d, s)'
    BY <1>4, <1>5, <2>6 DEF Covered
  <2> QED BY <1>4, <1>5, <2>5, <2>7 DEF Settled, s
<1> QED BY <1>8, <1>9

LEMMA CallGoals ==
    ASSUME TypeInv, ReadInv, LateInv, NEW l, NEW d, Called(l, d)
    PROVE  LET n == Len(frames) IN
           /\ \A i \in 1 .. n : \A p : Goal(i, p)' = Goal(i, p)
           /\ \A i \in DOMAIN frames' : i \notin 1 .. n => \A p : Goal(i, p)' = d \o Rel(real(l), p)
<1> DEFINE n == Len(frames)
           s == real(l)
<1>1. /\ n \in Nat
      /\ FileAt(s) # {} => DOMAIN frames' = 1 .. n
      /\ FileAt(s) = {} => DOMAIN frames' = 1 .. n + 1 /\ frames'[n + 1].dst = d /\ frames'[n + 1].src = s
      /\ \A i \in 1 .. n : frames'[i].dst = frames[i].dst /\ frames'[i].src = frames[i].src
  BY CalledFrames
<1> HIDE DEF n, s
<1>2. \A i \in 1 .. n : \A p : Goal(i, p)' = Goal(i, p)
  BY <1>1 DEF Goal
<1>3. ASSUME NEW i \in DOMAIN frames', i \notin 1 .. n, NEW p
      PROVE  frames'[i].dst \o Rel(frames'[i].src, p) = d \o Rel(s, p)
  <2>1. i = n + 1 /\ FileAt(s) = {}
    BY <1>1, <1>3
  <2> QED BY <1>1, <2>1
<1> QED BY <1>2, <1>3 DEF Goal, n, s

LEMMA CallOpens ==
    ASSUME TypeInv, ReadInv, LateInv, NEW l, NEW d, Called(l, d)
    PROVE  OpenInv'
<1> DEFINE s == real(l)
           n == Len(frames)
<1>1. /\ tar' = tar /\ links' = links /\ tree' = tree /\ Filed' = Filed \cup Copies(d, s)
  BY CalledFiles
<1>2. status = "linking" /\ Due(l, d)
  BY DEF Called
<1>3. pending' = IF frames = <<>> THEN pending \ {l} ELSE pending
  BY DEF Called
<1>4. /\ n \in Nat /\ DOMAIN frames = 1 .. n /\ s \in Path /\ s # Loops
      /\ FileAt(s) # {} => DOMAIN frames' = 1 .. n
      /\ FileAt(s) = {} => DOMAIN frames' = 1 .. n + 1 /\ frames'[n + 1].src = s /\ frames'[n + 1].rest = LinksUnder(s)
      /\ \A i \in 1 .. n :
           /\ frames'[i].src = frames[i].src
           /\ frames'[i].rest = IF i = n THEN frames[i].rest \ {l} ELSE frames[i].rest
  BY CalledFrames
<1>5. d \in Path /\ d \in Clean
  BY <1>2, DueFacts
<1>6. /\ \A i \in 1 .. n : \A p : Goal(i, p)' = Goal(i, p)
      /\ \A i \in DOMAIN frames' : i \notin 1 .. n => \A p : Goal(i, p)' = d \o Rel(s, p)
  BY CallGoals
<1>7. \A p : real(p)' = real(p) /\ FilesUnder(p)' = FilesUnder(p) /\ LinksUnder(p)' = LinksUnder(p)
  BY <1>1 DEF real, FilesUnder, LinksUnder
<1>8. OpenInv
  BY <1>2 DEF LateInv, Late
<1>9. Settled(d, s)'
  BY SettledNow
<1>10. \A p, q : Settled(p, q) => Settled(p, q)'
  BY SettledKept
<1>11. LinkSettled(l, d)'
  <2>1. real(l)' # Loops
    BY <1>4, <1>7
  <2>2. Settled(d, real(l))'
    BY <1>9 DEF s
  <2> QED BY <2>1, <2>2 DEF LinkSettled
<1>12. \A m, p : LinkSettled(m, p) => LinkSettled(m, p)'
  <2> SUFFICES ASSUME NEW m, NEW p, LinkSettled(m, p) PROVE LinkSettled(m, p)'
    OBVIOUS
  <2>1. real(m) # Loops /\ Settled(p, real(m))
    BY DEF LinkSettled
  <2>2. real(m)' = real(m)
    BY <1>7
  <2>3. Settled(p, real(m))'
    <3> DEFINE q == real(m)
    <3>1. q' = q
      BY <2>2
    <3> HIDE DEF q
    <3> QED BY <1>10, <2>1, <2>2, <3>1 DEF q, Settled, Covered, Opened
  <2> QED BY <2>1, <2>2, <2>3 DEF LinkSettled
<1> HIDE DEF s, n
<1>13. ASSUME NEW m \in DOMAIN links' \ pending' PROVE LinkSettled(m, m)'
  <2>1. CASE m \notin pending
    BY <1>1, <1>8, <1>12, <1>13, <2>1 DEF OpenInv
  <2>2. CASE m \in pending
    <3>1. m = l /\ d = l
      BY <1>2, <1>3, <1>13, <2>2 DEF Due
    <3> QED BY <1>11, <3>1
  <2> QED BY <2>1, <2>2
<1>14. ASSUME NEW i \in DOMAIN frames'
       PROVE  /\ \A f \in FilesUnder(frames[i].src)' : At(Goal(i, f.path)', f.from) \in Filed'
              /\ \A m \in LinksUnder(frames[i].src)' \ frames'[i].rest : LinkSettled(m, Goal(i, m))'
  <2>1. CASE i \in 1 .. n
    <3>1. FilesUnder(frames[i].src)' = FilesUnder(frames[i].src) /\ LinksUnder(frames[i].src)' = LinksUnder(frames[i].src)
      BY <1>1, <1>4, <2>1 DEF FilesUnder, LinksUnder
    <3>2. \A f \in FilesUnder(frames[i].src) : At(Goal(i, f.path), f.from) \in Filed
      BY <1>4, <1>8, <2>1 DEF OpenInv
    <3>3. ASSUME NEW m \in LinksUnder(frames[i].src) \ frames'[i].rest PROVE LinkSettled(m, Goal(i, m))'
      <4>1. CASE m \notin frames[i].rest
        <5>1. LinkSettled(m, Goal(i, m))
          BY <1>4, <1>8, <2>1, <3>3, <4>1 DEF OpenInv
        <5> DEFINE p == Goal(i, m)
        <5>2. p' = p
          BY <1>6, <2>1
        <5>3. LinkSettled(m, p)
          BY <5>1
        <5> HIDE DEF p
        <5>4. LinkSettled(m, p)'
          BY <1>12, <5>2, <5>3 DEF LinkSettled, Settled, Filled, Covered, Opened
        <5> QED BY <5>4 DEF p
      <4>2. CASE m \in frames[i].rest
        <5>1. i = n /\ m = l
          BY <1>4, <2>1, <3>3, <4>2
        <5>2. frames # <<>>
          <6>1. n # 0
            BY <2>1, <5>1
          <6>2. Len(frames) # 0
            BY <6>1 DEF n
          <6> QED BY <6>2
        <5>3. d = Goal(i, m)
          BY <1>2, <5>1, <5>2 DEF Due, n
        <5>4. Goal(i, m)' = d /\ d' = d
          BY <1>6, <2>1, <5>3
        <5> QED BY <1>11, <5>1, <5>4 DEF LinkSettled, Settled, Filled, Covered, Opened
      <4> QED BY <4>1, <4>2
    <3> QED BY <1>1, <1>6, <2>1, <3>1, <3>2, <3>3
  <2>2. CASE i \notin 1 .. n
    <3>1. FileAt(s) = {} /\ i = n + 1 /\ frames'[i].src = s /\ frames'[i].rest = LinksUnder(s)
      BY <1>4, <2>2
    <3>2. FilesUnder(frames[i].src)' = FilesUnder(s) /\ LinksUnder(frames[i].src)' = LinksUnder(s) /\ Found(s) = FilesUnder(s)
      BY <1>1, <3>1 DEF FilesUnder, LinksUnder, Found
    <3>3. \A f \in FilesUnder(s) : At(d \o Rel(s, f.path), f.from) \in Filed'
      BY <1>1, <1>4, <1>5, <3>2, CopiesAre
    <3>4. \A p : Goal(i, p)' = d \o Rel(s, p)
      BY <1>6, <2>2
    <3> QED BY <3>1, <3>2, <3>3, <3>4
  <2> QED BY <2>1, <2>2
<1> QED BY <1>13, <1>14 DEF OpenInv

(* Where a link due is to put things lies apart from all other such places *)
(* and holds nothing yet.                                                  *)
LEMMA DueFresh ==
    ASSUME TypeInv, ReadInv, LateInv, status = "linking", ~Overlaid, NEW l, NEW d, Due(l, d)
    PROVE  /\ \A f \in Filed : ~Inside(d, f.path)
           /\ \A m \in pending : frames # <<>> \/ m # l => Apart(d, m)
           /\ \A j \in DOMAIN frames : \A m \in frames[j].rest :
                j # Len(frames) \/ m # l => Apart(d, Goal(j, m))
<1>1. FreshInv /\ LinksAgree /\ ~Repeated /\ tar \in Tars /\ pending \subseteq DOMAIN links
  BY LateFacts DEF LateInv, Late, TypeInv
<1>2. CASE frames = <<>>
  <2>1. l \in pending /\ d = l
    BY <1>2 DEF Due
  <2>2. DOMAIN frames = {}
    BY <1>2, EmptySeq
  <2>3. \A m \in pending : m # l => Apart(l, m)
    BY <1>1, <2>1, TreeApart
  <2> QED BY <1>1, <1>2, <2>1, <2>2, <2>3 DEF FreshInv
<1>3. CASE frames # <<>>
  <2> DEFINE n == Len(frames)
  <2>1. n \in DOMAIN frames /\ l \in frames[n].rest /\ d = Goal(n, l)
    BY <1>3, TopFrame DEF Due
  <2> HIDE DEF n
  <2>2. /\ \A f \in Filed : ~Inside(Goal(n, l), f.path)
        /\ \A m \in pending : Apart(Goal(n, l), m)
        /\ \A j \in DOMAIN frames : \A m \in frames[j].rest : n # j \/ l # m => Apart(Goal(n, l), Goal(j, m))
    BY <1>1, <2>1 DEF FreshInv
  <2> QED BY <2>1, <2>2 DEF n
<1> QED BY <1>2, <1>3

LEMMA CallFresh ==
    ASSUME TypeInv, ReadInv, LateInv, NEW l, NEW d, Called(l, d), ~Overlaid
    PROVE  FreshInv'
<1> DEFINE s == real(l)
           n == Len(frames)
           C == Copies(d, s)
<1>1. /\ tar' = tar /\ links' = links /\ tree' = tree /\ Filed' = Filed \cup C /\ pending' \subseteq pending
      /\ Distinct(files) /\ (\A f \in Filed, g \in C : f.path # g.path) => Distinct(files')
  BY CalledFiles
<1>2. status = "linking" /\ Due(l, d)
  BY DEF Called
<1>3. pending' = IF frames = <<>> THEN pending \ {l} ELSE pending
  BY DEF Called
<1>4. /\ n \in Nat /\ DOMAIN frames = 1 .. n /\ s \in Path /\ s # Loops
      /\ FileAt(s) # {} => DOMAIN frames' = 1 .. n
      /\ FileAt(s) = {} => DOMAIN frames' = 1 .. n + 1 /\ frames'[n + 1].rest = LinksUnder(s)
      /\ \A i \in 1 .. n : frames'[i].rest = IF i = n THEN frames[i].rest \ {l} ELSE frames[i].rest
  BY CalledFrames
<1>5. d \in Path /\ d \in Clean
  BY <1>2, DueFacts
<1>6. /\ \A i \in 1 .. n : \A p : Goal(i, p)' = Goal(i, p)
      /\ \A i \in DOMAIN frames' : i \notin 1 .. n => \A p : Goal(i, p)' = d \o Rel(s, p)
  BY CallGoals
<1>7. FreshInv /\ HoldInv /\ LinksAgree /\ ~Repeated /\ tar \in Tars /\ pending \subseteq DOMAIN links
  BY <1>2, LateFacts DEF LateInv, Late, TypeInv
<1>8. /\ \A f \in Filed : ~Inside(d, f.path)
      /\ \A m \in pending : frames # <<>> \/ m # l => Apart(d, m)
      /\ \A j \in 1 .. n : \A m \in frames[j].rest : j # n \/ m # l => Apart(d, Goal(j, m))
  BY <1>2, <1>4, DueFresh
<1>9. \A f \in C : \E y \in Path : f.path = d \o y /\ At(s \o y, f.from) \in Start
  <2> TAKE f \in C
  <2>1. PICK g \in Found(s), y \in Path :
           g = At(s \o y, f.from) /\ f = At(d \o y, f.from) /\ f.from \in KeptFiles
    BY <1>4, <1>5, CopiesAre
  <2>2. g \in Start
    BY <1>4, <1>5, <1>7, <2>1, CopiesAre DEF HoldInv
  <2>3. At(d \o y, f.from).path = d \o y
    BY DEF At
  <2>4. f.path = d \o y
    BY <2>1, <2>3
  <2> QED BY <2>1, <2>2, <2>4
<1>10. \A i \in 1 .. n : \A m \in frames'[i].rest :
          /\ m \in frames[i].rest /\ (i # n \/ m # l)
          /\ Goal(i, m) \in Path
  <2> TAKE i \in 1 .. n
  <2> TAKE m \in frames'[i].rest
  <2>1. m \in frames[i].rest /\ (i # n \/ m # l)
    BY <1>4
  <2>2. m \in DOMAIN links /\ StrictlyInside(frames[i].src, m)
    BY <1>4, <2>1, FrameAt DEF LinksUnder
  <2>3. m \in Clean
    BY <2>2 DEF TypeInv
  <2> QED BY <1>4, <2>1, <2>2, <2>3, GoalIs
<1> HIDE DEF s, n, C
<1>11. ASSUME NEW q \in Path, NEW f \in C, Apart(d, q) PROVE ~Inside(q, f.path)
  <2>1. PICK y \in Path : f.path = d \o y
    BY <1>9
  <2>2. Inside(d, f.path) /\ f.path \in Path
    BY <1>5, <2>1, PathCat
  <2> QED BY <1>5, <1>11, <2>2, PathChain DEF Apart
<1>12. Distinct(files')
  <2>1. \A f \in Filed, g \in C : f.path # g.path
    <3> TAKE f \in Filed, g \in C
    <3>1. PICK y \in Path : g.path = d \o y
      BY <1>9
    <3>2. Inside(d, g.path)
      BY <1>5, <3>1, PathCat
    <3> QED BY <1>8, <3>2
  <2> QED BY <1>1, <1>7, <2>1 DEF FreshInv
<1>13. ASSUME NEW m \in pending' PROVE m \in pending /\ m \in Path /\ Apart(d, m)
  <2>1. m \in pending /\ (frames # <<>> \/ m # l)
    BY <1>3, <1>13
  <2> QED BY <1>7, <1>8, <2>1, LinksArePaths
<1>14. \A m \in pending', f \in Filed' : ~Inside(m, f.path)
  BY <1>1, <1>7, <1>11, <1>13 DEF FreshInv
<1>15. ASSUME NEW i \in DOMAIN frames', i \notin 1 .. n, NEW m \in frames'[i].rest
       PROVE  \E y \in Path : m = s \o y /\ d \o y \in Path /\ Goal(i, m)' = d \o y /\ m \in DOMAIN links
  <2>1. m \in LinksUnder(s)
    BY <1>4, <1>15
  <2>2. m \in DOMAIN links /\ m \in Path /\ Inside(s, m)
    BY <1>7, <2>1, LinksArePaths DEF LinksUnder, StrictlyInside
  <2>3. Rel(s, m) \in Path /\ m = s \o Rel(s, m)
    BY <1>4, <2>2, PathSplit
  <2> QED BY <1>5, <1>6, <1>15, <2>2, <2>3, PathCat
<1>16. ASSUME NEW i \in DOMAIN frames', NEW m \in frames'[i].rest
       PROVE  /\ \A f \in Filed' : ~Inside(Goal(i, m)', f.path)
              /\ \A q \in pending' : Apart(Goal(i, m)', q)
              /\ \A j \in DOMAIN frames' : \A q \in frames'[j].rest :
                   i # j \/ m # q => Apart(Goal(i, m)', Goal(j, q)')
  <2>1. CASE i \in 1 .. n
    <3>1. m \in frames[i].rest /\ Goal(i, m)' = Goal(i, m) /\ Goal(i, m) \in Path /\ Apart(d, Goal(i, m))
      BY <1>6, <1>8, <1>10, <1>16, <2>1
    <3>2. /\ \A f \in Filed : ~Inside(Goal(i, m), f.path)
          /\ \A q \in pending : Apart(Goal(i, m), q)
          /\ \A j \in 1 .. n : \A q \in frames[j].rest : i # j \/ m # q => Apart(Goal(i, m), Goal(j, q))
      BY <1>4, <1>7, <2>1, <3>1 DEF FreshInv
    <3>3. \A f \in Filed' : ~Inside(Goal(i, m), f.path)
      BY <1>1, <1>11, <3>1, <3>2
    <3>4. ASSUME NEW j \in DOMAIN frames', NEW q \in frames'[j].rest, i # j \/ m # q
          PROVE  Apart(Goal(i, m), Goal(j, q)')
      <4>1. CASE j \in 1 .. n
        BY <1>6, <1>10, <3>2, <3>4, <4>1
      <4>2. CASE j \notin 1 .. n
        <5>1. PICK y \in Path : Goal(j, q)' = d \o y
          BY <1>15, <3>4, <4>2
        <5>2. Apart(Goal(i, m), d \o y)
          BY <1>5, <3>1, ApartBelow
        <5> QED BY <5>1, <5>2
      <4> QED BY <4>1, <4>2
    <3> QED BY <1>1, <3>1, <3>2, <3>3, <3>4
  <2>2. CASE i \notin 1 .. n
    <3>1. PICK y \in Path : m = s \o y /\ d \o y \in Path /\ Goal(i, m)' = d \o y /\ m \in DOMAIN links
      BY <1>15, <1>16, <2>2
    <3>2. ASSUME NEW f \in Filed', Inside(d \o y, f.path) PROVE FALSE
      <4>1. CASE f \in Filed
        <5>1. f.path \in Path /\ Inside(d, d \o y)
          BY <1>5, <4>1, PathCat, CleanPaths DEF TypeInv
        <5> QED BY <1>5, <1>8, <3>1, <3>2, <4>1, <5>1, PathDown
      <4>2. CASE f \in C
        <5>1. PICK z \in Path : f.path = d \o z /\ At(s \o z, f.from) \in Start
          BY <1>9, <4>2
        <5>2. Inside(s \o y, s \o z)
          BY <1>4, <1>5, <3>2, <5>1, InsideMoved
        <5>3. ~Inside(m, At(s \o z, f.from).path)
          BY <1>7, <3>1, <5>1, TreeApart
        <5> QED BY <3>1, <5>2, <5>3 DEF At
      <4> QED BY <1>1, <4>1, <4>2
    <3>3. \A q \in pending' : Apart(d \o y, q)
      BY <1>5, <1>13, <3>1, ApartBelow
    <3>4. ASSUME NEW j \in DOMAIN frames', NEW q \in frames'[j].rest, i # j \/ m # q
          PROVE  Apart(d \o y, Goal(j, q)')
      <4>1. CASE j \in 1 .. n
        <5>1. Apart(d, Goal(j, q)) /\ Goal(j, q) \in Path /\ Goal(j, q)' = Goal(j, q)
          BY <1>6, <1>8, <1>10, <3>4, <4>1
        <5> QED BY <1>5, <5>1, ApartBelow
      <4>2. CASE j \notin 1 .. n
        <5>1. i = j
          BY <1>4, <2>2, <4>2
        <5>2. PICK z \in Path : q = s \o z /\ Goal(j, q)' = d \o z /\ q \in DOMAIN links
          BY <1>15, <3>4, <4>2
        <5>3. Apart(m, q)
          BY <1>7, <3>1, <3>4, <5>1, <5>2, TreeApart
        <5>4. ~Inside(d \o y, d \o z)
          BY <1>4, <1>5, <3>1, <5>2, <5>3, InsideMoved DEF Apart
        <5>5. ~Inside(d \o z, d \o y)
          BY <1>4, <1>5, <3>1, <5>2, <5>3, InsideMoved DEF Apart
        <5> QED BY <5>2, <5>4, <5>5 DEF Apart
      <4> QED BY <4>1, <4>2
    <3> QED BY <3>1, <3>2, <3>3, <3>4
  <2> QED BY <2>1, <2>2
<1> QED BY <1>12, <1>14, <1>16 DEF FreshInv

LEMMA CallStep ==
    ASSUME TypeInv, ReadInv, LateInv, NEW l, NEW d, Called(l, d)
    PROVE  TypeInv' /\ ReadInv' /\ LateInv' /\ status' = status
<1>1. TypeInv' /\ ReadInv' /\ HoldInv' /\ FrameInv' /\ NestInv' /\ OpenInv'
  BY CallTypes, CallHolds, CallOpens
<1>2. tar' = tar /\ links' = links /\ checked' = checked /\ status' = status /\ status = "linking"
  BY CalledFiles DEF Called
<1>3. ~Overlaid' => FreshInv'
  BY <1>2, TarFixed, CallFresh
<1>4. CheckInv'
  BY <1>2 DEF LateInv, Late, CheckInv
<1> QED BY <1>1, <1>2, <1>3, <1>4 DEF LateInv

-----------------------------------------------------------------------------
(* A call of expand returns: all it was to bring is there.                 *)

LEMMA NoneOpenedBelow ==
    ASSUME TypeInv, NestInv, frames # <<>>, NEW x \in Path, x # <<>>, NEW q
    PROVE  ~Opened(frames[Len(frames)].dst \o x, q)
<1> DEFINE n == Len(frames)
           d == frames[n].dst
<1>1. n \in DOMAIN frames /\ n \in Nat /\ DOMAIN frames = 1 .. n /\ d \in Path
  BY TopFrame, FrameAt
<1> HIDE DEF d, n
<1>2. SUFFICES ASSUME NEW i \in DOMAIN frames, frames[i].dst = d \o x PROVE FALSE
  BY DEF Opened, d, n
<1>3. Len(d \o x) = Len(d) + Len(x) /\ Len(d) \in Nat /\ Len(x) \in Nat /\ Len(x) # 0 /\ d \o x \in Path
  <2>1. Len(d \o x) = Len(d) + Len(x) /\ Len(d) \in Nat /\ Len(x) \in Nat /\ d \o x \in Path
    BY <1>1, PathCat
  <2>2. Len(x) # 0
    BY EmptySeq DEF Path
  <2> QED BY <2>1, <2>2
<1>4. CASE i = n
  BY <1>2, <1>3, <1>4 DEF d
<1>5. CASE i # n
  <2>1. i < n
    BY <1>1, <1>5
  <2>2. PICK z \in Path : d = frames[i].dst \o z
    BY <1>1, <2>1 DEF NestInv, d
  <2>3. Len(d) = Len(d \o x) + Len(z) /\ Len(z) \in Nat
    BY <1>2, <1>3, <2>2, PathCat
  <2> QED BY <1>3, <2>3
<1> QED BY <1>4, <1>5

LEMMA CallDone ==
    ASSUME TypeInv, ReadInv, LateInv, status = "linking", frames # <<>>, Top.rest = {}
    PROVE  LET n == Len(frames) IN
           /\ Filled(frames[n].dst)
           /\ ~Overlaid /\ ~Blocked => Covered(frames[n].dst, frames[n].src)
<1> DEFINE n == Len(frames)
           d == frames[n].dst
           s == frames[n].src
<1>1. n \in DOMAIN frames /\ frames[n].rest = {} /\ d \in Path /\ s \in Path
  BY TopFrame, FrameAt
<1>2. HoldInv /\ FrameInv /\ NestInv /\ OpenInv /\ LinksAgree /\ ~Repeated /\ tar \in Tars
  BY LateFacts DEF LateInv, Late, TypeInv
<1>3. ASSUME NEW l \in LinksUnder(s)
      PROVE  \E z \in Path : /\ z # <<>> /\ l = s \o z /\ l \in Path /\ l \in DOMAIN links
                             /\ real(l) # Loops /\ Filled(d \o z)
                             /\ ~Overlaid /\ ~Blocked => Covered(d \o z, real(l))
  <2>1. l \in DOMAIN links /\ StrictlyInside(s, l)
    BY DEF LinksUnder
  <2>2. l \in Path /\ l \in Clean
    BY <2>1 DEF TypeInv
  <2>3. PICK z \in Path : z # <<>> /\ l = s \o z /\ Goal(n, l) = d \o z
    BY <1>1, <2>1, <2>2, GoalIs
  <2>4. LinkSettled(l, d \o z)
    BY <1>1, <1>2, <2>3 DEF OpenInv
  <2>5. ~Opened(d \o z, real(l))
    BY <1>2, <2>3, NoneOpenedBelow
  <2> QED BY <2>1, <2>2, <2>3, <2>4, <2>5 DEF LinkSettled, Settled
<1>4. ASSUME NEW f \in FilesUnder(s)
      PROVE  \E z \in Path : f.path = s \o z /\ At(d \o z, f.from) \in Filed
  <2>1. f \in tree /\ Inside(s, f.path) /\ f.path \in Path
    BY TreePaths DEF FilesUnder, StrictlyInside
  <2>2. At(Goal(n, f.path), f.from) \in Filed
    BY <1>1, <1>2 DEF OpenInv
  <2> QED BY <1>1, <2>1, <2>2, PathSplit DEF Goal
<1>5. LinkedAt(s, links) = {} /\ FileAt(s) = {} /\ (Found(s) # {} \/ LinksUnder(s) # {})
  BY <1>1, <1>2 DEF FrameInv
<1> HIDE DEF n, d, s
<1>6. Filled(d)
  <2>1. CASE Found(s) # {}
    <3>1. PICK f \in FilesUnder(s) : TRUE
      BY <1>5, <2>1 DEF Found
    <3>2. PICK z \in Path : At(d \o z, f.from) \in Filed
      BY <1>4
    <3>3. Inside(d, At(d \o z, f.from).path)
      BY <1>1, PathCat DEF At
    <3> QED BY <3>2, <3>3 DEF Filled
  <2>2. CASE LinksUnder(s) # {}
    <3>1. PICK l \in LinksUnder(s) : TRUE
      BY <2>2
    <3>2. PICK z \in Path : Filled(d \o z)
      BY <1>3
    <3>3. PICK f \in Filed : Inside(d \o z, f.path)
      BY <3>2 DEF Filled
    <3>4. f.path \in Path /\ d \o z \in Path /\ Inside(d, d \o z)
      BY <1>1, PathCat, CleanPaths DEF TypeInv
    <3>5. Inside(d, f.path)
      BY <1>1, <3>3, <3>4, PathDown
    <3> QED BY <3>5 DEF Filled
  <2> QED BY <1>5, <2>1, <2>2
<1>7. ASSUME ~Overlaid, ~Blocked, NEW x \in Path, NEW e \in KeptFiles, At(s \o x, e) \in Least
      PROVE  At(d \o x, e) \in Filed
  <2>1. s \o x \in Path /\ Inside(s, s \o x) /\ At(s \o x, e).path = s \o x /\ At(s \o x, e).from = e
    BY <1>1, PathCat DEF At
  <2>2. CASE At(s \o x, e) \in Start
    <3>1. At(s \o x, e) \in tree
      BY <1>2, <2>2 DEF HoldInv
    <3>2. At(s \o x, e) \in FilesUnder(s)
      BY <1>5, <2>1, <3>1 DEF FilesUnder, FileAt, StrictlyInside
    <3>3. PICK z \in Path : s \o x = s \o z /\ At(d \o z, e) \in Filed
      BY <1>4, <2>1, <3>2
    <3>4. x = z
      BY <1>1, <3>3, PathCancel
    <3> QED BY <3>3, <3>4
  <2>3. CASE At(s \o x, e) \notin Start
    <3>1. PICK l \in LinksUnder(s), y \in Path : At(s \o x, e) = At(l \o y, e)
      <4> DEFINE f == At(s \o x, e)
      <4>1. f \in Least /\ f \notin Start /\ Inside(s, f.path) /\ f.from = e
        BY <1>7, <2>1, <2>3
      <4> HIDE DEF f
      <4>2. \E l \in LinksUnder(s), y \in Path : f = At(l \o y, f.from)
        BY <1>1, <1>2, <1>5, <4>1, MeantUnder
      <4> QED BY <4>1, <4>2 DEF f
    <3>2. PICK z \in Path : /\ l = s \o z /\ l \in Path /\ real(l) # Loops /\ Covered(d \o z, real(l))
      BY <1>3, <1>7
    <3>3. At(l \o y, e) \in Least /\ s \o x = l \o y
      <4>1. At(l \o y, e).path = l \o y
        BY DEF At
      <4> QED BY <1>7, <2>1, <3>1, <4>1
    <3>4. Carries(Least, real(l), l)
      BY <1>2, <1>7, <3>2, RealIs
    <3>5. At(real(l) \o y, e) \in Least
      BY <3>3, <3>4 DEF Carries
    <3>6. At((d \o z) \o y, e) \in Filed
      BY <3>2, <3>5 DEF Covered
    <3>7. (d \o z) \o y = d \o (z \o y)
      <4>1. d \in Path
        BY <1>1
      <4> QED BY ONLY <4>1, z \in Path, y \in Path, PathAssoc
    <3>8. s \o x = s \o (z \o y) /\ z \o y \in Path
      <4>1. (s \o z) \o y = s \o (z \o y)
        <5>1. s \in Path
          BY <1>1
        <5> QED BY ONLY <5>1, z \in Path, y \in Path, PathAssoc
      <4> QED BY <3>2, <3>3, <4>1, PathCat
    <3>9. x = z \o y
      BY <1>1, <3>8, PathCancel
    <3> QED BY <3>6, <3>7, <3>9
  <2> QED BY <2>2, <2>3
<1> QED BY <1>6, <1>7 DEF Covered, d, s, n

LEMMA ReturnStep ==
    ASSUME TypeInv, ReadInv, LateInv, ReturnFromExpand
    PROVE  TypeInv' /\ ReadInv' /\ LateInv' /\ status' = status
<1> DEFINE n == Len(frames)
<1>1. /\ tar' = tar /\ todo' = todo /\ files' = files /\ links' = links /\ total' = total /\ tree' = tree
      /\ pending' = pending /\ checked' = checked /\ status' = status /\ status = "linking"
      /\ frames # <<>> /\ Top.rest = {} /\ frames' = SubSeq(frames, 1, n - 1)
  BY DEF ReturnFromExpand
<1>2. n \in Nat /\ n # 0 /\ DOMAIN frames = 1 .. n /\ frames \in Seq(Frame)
  BY <1>1, TopFrame, LenProperties DEF TypeInv
<1>3. /\ frames' \in Seq(Frame) /\ DOMAIN frames' = 1 .. n - 1
      /\ \A i \in 1 .. n - 1 : frames'[i] = frames[i]
  <2>1. 1 \in Int /\ n - 1 \in Int /\ \A i \in 1 .. n - 1 : frames[i] \in Frame
    BY <1>2, ElementOfSeq
  <2> HIDE DEF n
  <2>2. /\ SubSeq(frames, 1, n - 1) \in Seq(Frame)
        /\ Len(SubSeq(frames, 1, n - 1)) = IF 1 <= n - 1 THEN n - 1 - 1 + 1 ELSE 0
        /\ \A i \in 1 .. n - 1 - 1 + 1 : SubSeq(frames, 1, n - 1)[i] = frames[1 + i - 1]
    BY <2>1, SubSeqProperties
  <2>3. Len(SubSeq(frames, 1, n - 1)) = n - 1 /\ \A i \in 1 .. n - 1 : SubSeq(frames, 1, n - 1)[i] = frames[i]
    BY <1>2, <2>2
  <2> QED BY <1>1, <2>2, <2>3, LenProperties
<1>4. DOMAIN frames' \subseteq DOMAIN frames /\ \A i \in DOMAIN frames' : frames'[i] = frames[i]
  BY <1>2, <1>3
<1>5. /\ Kept' = Kept /\ KeptFiles' = KeptFiles /\ KeptLinks' = KeptLinks /\ Carried' = Carried
      /\ Universe' = Universe /\ Start' = Start /\ Least' = Least /\ Overlaid' = Overlaid /\ Blocked' = Blocked
  BY <1>1, TarFixed DEF Carried
<1>6. Filed' = Filed
  BY <1>1 DEF Filed
<1>7. Filled(frames[n].dst) /\ (~Overlaid /\ ~Blocked => Covered(frames[n].dst, frames[n].src))
  BY <1>1, CallDone
<1> HIDE DEF n
<1>8. TypeInv'
  <2>1. frames' \in Seq(Frame')
    BY <1>1, <1>3 DEF Frame
  <2>2. \A i \in DOMAIN frames' : frames'[i].rest \subseteq {k \in DOMAIN links' : StrictlyInside(frames'[i].src, k)}
    BY <1>1, <1>4 DEF TypeInv, LinksUnder
  <2> QED BY <1>1, <1>5, <1>6, <2>1, <2>2 DEF TypeInv, LinksUnder
<1>9. ReadInv'
  <2>1. SoundRead /\ OnceRead /\ LinksRead /\ todo = {}
    BY <1>1 DEF ReadInv, Late
  <2>2. SoundRead' /\ OnceRead' /\ LinksRead'
    BY <1>1, <1>5, <2>1 DEF SoundRead, OnceRead, LinksRead, Read
  <2> QED BY <1>1, <2>1, <2>2 DEF ReadInv
<1>10. HoldInv /\ FrameInv /\ NestInv /\ OpenInv /\ (~Overlaid => FreshInv) /\ CheckInv
  BY <1>1 DEF LateInv, Late
<1>11. HoldInv'
  BY <1>1, <1>5, <1>6, <1>10 DEF HoldInv
<1>12. FrameInv'
  <2>1. \A p, q : Carries(Least, p, q)' = Carries(Least, p, q)
    BY <1>5 DEF Carries
  <2>2. \A p : /\ FileAt(p)' = FileAt(p) /\ Found(p)' = Found(p) /\ LinksUnder(p)' = LinksUnder(p)
               /\ LinkedAt(p, links)' = LinkedAt(p, links)
    BY <1>1 DEF FileAt, Found, FilesUnder, LinksUnder, LinkedAt
  <2> SUFFICES ASSUME NEW i \in DOMAIN frames'
               PROVE  /\ LinkedAt(frames'[i].src, links) = {}
                      /\ FileAt(frames'[i].src) = {}
                      /\ Carries(Least, frames'[i].dst, frames'[i].src)
                      /\ Found(frames'[i].src) # {} \/ LinksUnder(frames'[i].src) # {}
    BY <1>1, <1>5, <2>1, <2>2 DEF FrameInv, Carries, FileAt, Found, FilesUnder, LinksUnder
  <2> QED BY <1>4, <1>10 DEF FrameInv
<1>13. NestInv'
  <2> SUFFICES ASSUME NEW i \in DOMAIN frames', NEW j \in DOMAIN frames', i < j
               PROVE  \E x \in Path \ {<<>>} :
                        /\ frames'[j].dst = frames'[i].dst \o x
                        /\ Carries(Least, frames'[i].src \o x, frames'[j].src)
    BY <1>5 DEF NestInv, Carries
  <2> QED BY <1>4, <1>10 DEF NestInv
<1>14. \A p, q : Settled(p, q) => Settled(p, q)'
  <2> SUFFICES ASSUME NEW p, NEW q, Settled(p, q) PROVE Settled(p, q)'
    OBVIOUS
  <2>1. (Filled(p) => Filled(p)') /\ (Covered(p, q) => Covered(p, q)')
    BY <1>5, <1>6 DEF Filled, Covered
  <2>2. CASE Opened(p, q)
    <3>1. PICK i \in DOMAIN frames : frames[i].dst = p /\ frames[i].src = q
      BY <2>2 DEF Opened
    <3>2. CASE i = n
      BY <1>5, <1>7, <2>1, <3>1, <3>2 DEF Settled
    <3>3. CASE i # n
      <4>1. i \in DOMAIN frames'
        BY <1>2, <1>3, <3>3
      <4> QED BY <1>4, <3>1, <4>1 DEF Settled, Opened
    <3> QED BY <3>2, <3>3
  <2> QED BY <1>5, <2>1, <2>2 DEF Settled
<1>15. \A m, p : LinkSettled(m, p) => LinkSettled(m, p)'
  <2> SUFFICES ASSUME NEW m, NEW p, LinkSettled(m, p) PROVE LinkSettled(m, p)'
    OBVIOUS
  <2>1. real(m) # Loops /\ Settled(p, real(m))
    BY DEF LinkSettled
  <2>2. real(m)' = real(m)
    BY <1>1 DEF real
  <2>3. Settled(p, real(m))'
    <3> DEFINE q == real(m)
    <3>1. q' = q
      BY <2>2
    <3> HIDE DEF q
    <3> QED BY <1>14, <2>1, <2>2, <3>1 DEF q, Settled, Covered, Opened
  <2> QED BY <2>1, <2>2, <2>3 DEF LinkSettled
<1>16. \A i \in DOMAIN frames' : \A p : Goal(i, p)' = Goal(i, p)
  BY <1>4 DEF Goal
<1>17. OpenInv'
  <2>1. \A m \in DOMAIN links' \ pending' : LinkSettled(m, m)'
    BY <1>1, <1>10, <1>15 DEF OpenInv
  <2>2. ASSUME NEW i \in DOMAIN frames'
        PROVE  /\ \A f \in FilesUnder(frames[i].src)' : At(Goal(i, f.path)', f.from) \in Filed'
               /\ \A m \in LinksUnder(frames[i].src)' \ frames'[i].rest : LinkSettled(m, Goal(i, m))'
    <3>1. FilesUnder(frames[i].src)' = FilesUnder(frames[i].src) /\ LinksUnder(frames[i].src)' = LinksUnder(frames[i].src)
      BY <1>1, <1>4 DEF FilesUnder, LinksUnder
    <3>2. /\ \A f \in FilesUnder(frames[i].src) : At(Goal(i, f.path), f.from) \in Filed
          /\ \A m \in LinksUnder(frames[i].src) \ frames[i].rest : LinkSettled(m, Goal(i, m))
      BY <1>4, <1>10 DEF OpenInv
    <3>3. ASSUME NEW m \in LinksUnder(frames[i].src) \ frames'[i].rest PROVE LinkSettled(m, Goal(i, m))'
      <4> DEFINE p == Goal(i, m)
      <4>1. p' = p /\ LinkSettled(m, p)
        BY <1>4, <1>16, <3>2, <3>3
      <4> HIDE DEF p
      <4>2. LinkSettled(m, p)'
        BY <1>15, <4>1 DEF LinkSettled, Settled, Filled, Covered, Opened
      <4> QED BY <4>2 DEF p
    <3> QED BY <1>4, <1>6, <1>16, <3>1, <3>2, <3>3
  <2> QED BY <2>1, <2>2 DEF OpenInv
<1>18. ~Overlaid' => FreshInv'
  <2> SUFFICES ASSUME ~Overlaid' PROVE FreshInv'
    OBVIOUS
  <2>1. FreshInv
    BY <1>5, <1>10
  <2>2. ASSUME NEW i \in DOMAIN frames', NEW l \in frames'[i].rest
        PROVE  /\ \A f \in Filed' : ~Inside(Goal(i, l)', f.path)
               /\ \A m \in pending' : Apart(Goal(i, l)', m)
               /\ \A j \in DOMAIN frames' : \A m \in frames'[j].rest :
                    i # j \/ l # m => Apart(Goal(i, l)', Goal(j, m)')
    <3>1. /\ \A f \in Filed : ~Inside(Goal(i, l), f.path)
          /\ \A m \in pending : Apart(Goal(i, l), m)
          /\ \A j \in DOMAIN frames : \A m \in frames[j].rest : i # j \/ l # m => Apart(Goal(i, l), Goal(j, m))
      BY <1>4, <2>1, <2>2 DEF FreshInv
    <3>2. Goal(i, l)' = Goal(i, l)
      BY <1>16
    <3>3. ASSUME NEW j \in DOMAIN frames', NEW m \in frames'[j].rest, i # j \/ l # m
          PROVE  Apart(Goal(i, l), Goal(j, m)')
      <4>1. j \in DOMAIN frames /\ m \in frames[j].rest /\ Goal(j, m)' = Goal(j, m)
        BY <1>4, <1>16, <3>3
      <4> QED BY <3>1, <3>3, <4>1
    <3> QED BY <1>1, <1>6, <3>1, <3>2, <3>3
  <2> QED BY <1>1, <1>6, <2>1, <2>2 DEF FreshInv
<1>19. CheckInv'
  BY <1>1, <1>10 DEF CheckInv
<1> QED BY <1>8, <1>9, <1>11, <1>12, <1>13, <1>17, <1>18, <1>19, <1>1 DEF LateInv

-----------------------------------------------------------------------------
(* Once the links are replaced: every file is looked at again.             *)

LEMMA FiledCount ==
    ASSUME TypeInv
    PROVE  /\ tar \in Tars /\ Filed \subseteq Universe
           /\ DOMAIN files = 1 .. Len(files) /\ Len(files) \in Nat /\ Len(files) <= MaxEntries
           /\ IsFiniteSet(Filed) /\ Cardinality(Filed) \in Nat /\ Cardinality(Filed) <= Len(files)
           /\ Distinct(files) => Cardinality(Filed) = Len(files)
<1> DEFINE n == Len(files)
<1>1. files \in Seq(Universe) /\ n <= MaxEntries /\ tar \in Tars
  BY DEF TypeInv
<1>2. n \in Nat /\ files \in [1 .. n -> Universe] /\ DOMAIN files = 1 .. n
  BY <1>1, LenProperties
<1>3. Filed = {files[i] : i \in 1 .. n}
  BY <1>2 DEF Filed
<1> HIDE DEF n
<1>4. Filed \subseteq Universe
  BY <1>2, <1>3
<1>5. files \in Surjection(1 .. n, Filed)
  BY <1>2, <1>3 DEF Surjection
<1>6. IsFiniteSet(1 .. n) /\ Cardinality(1 .. n) = n
  BY <1>2, FS_Interval
<1>7. /\ IsFiniteSet(Filed) /\ Cardinality(Filed) <= n
      /\ Cardinality(Filed) = n <=> files \in Injection(1 .. n, Filed)
  BY <1>5, <1>6, FS_Surjection
<1>8. Distinct(files) => files \in Injection(1 .. n, Filed)
  BY <1>2, <1>3 DEF Distinct, Injection, IsInjective
<1>9. Cardinality(Filed) \in Nat
  BY <1>7, FS_CardinalityType
<1> QED BY <1>1, <1>2, <1>4, <1>7, <1>8, <1>9 DEF n

LEMMA LateFixed ==
    ASSUME tar' = tar, files' = files, links' = links, tree' = tree, pending' = pending, frames' = frames
    PROVE  /\ HoldInv => HoldInv'
           /\ FrameInv => FrameInv'
           /\ NestInv => NestInv'
           /\ OpenInv => OpenInv'
           /\ (~Overlaid => FreshInv) => (~Overlaid' => FreshInv')
<1>1. /\ KeptFiles' = KeptFiles /\ Start' = Start /\ Least' = Least
      /\ Overlaid' = Overlaid /\ Blocked' = Blocked /\ Filed' = Filed
  BY TarFixed DEF Filed
<1>2. HoldInv => HoldInv'
  BY <1>1 DEF HoldInv
<1>3. FrameInv => FrameInv'
  BY <1>1 DEF FrameInv, Carries, LinkedAt, FileAt, Found, FilesUnder, LinksUnder
<1>4. NestInv => NestInv'
  BY <1>1 DEF NestInv, Carries
<1>5. OpenInv => OpenInv'
  <2>1. /\ \A i \in DOMAIN frames : \A p : Goal(i, p)' = Goal(i, p)
        /\ \A p : FilesUnder(p)' = FilesUnder(p) /\ LinksUnder(p)' = LinksUnder(p) /\ real(p)' = real(p)
    BY DEF Goal, FilesUnder, LinksUnder, real
  <2>2. \A p, q : Settled(p, q) => Settled(p, q)'
    BY <1>1 DEF Settled, Filled, Covered, Opened
  <2>3. \A m, p : LinkSettled(m, p) => LinkSettled(m, p)'
    <3> SUFFICES ASSUME NEW m, NEW p, LinkSettled(m, p) PROVE LinkSettled(m, p)'
      OBVIOUS
    <3> DEFINE q == real(m)
    <3>1. q' = q /\ q # Loops /\ Settled(p, q)
      BY <2>1 DEF LinkSettled
    <3> HIDE DEF q
    <3>2. Settled(p, q)'
      BY <1>1, <3>1 DEF Settled, Filled, Covered, Opened
    <3> QED BY <3>1, <3>2 DEF q, LinkSettled
  <2>4. ASSUME OpenInv, NEW i \in DOMAIN frames
        PROVE  /\ \A f \in FilesUnder(frames[i].src)' : At(Goal(i, f.path)', f.from) \in Filed'
               /\ \A m \in LinksUnder(frames[i].src)' \ frames'[i].rest : LinkSettled(m, Goal(i, m))'
    <3>1. /\ \A f \in FilesUnder(frames[i].src) : At(Goal(i, f.path), f.from) \in Filed
          /\ \A m \in LinksUnder(frames[i].src) \ frames[i].rest : LinkSettled(m, Goal(i, m))
      BY <2>4 DEF OpenInv
    <3>2. FilesUnder(frames[i].src)' = FilesUnder(frames[i].src) /\ LinksUnder(frames[i].src)' = LinksUnder(frames[i].src)
      BY DEF FilesUnder, LinksUnder
    <3>3. ASSUME NEW m \in LinksUnder(frames[i].src) \ frames[i].rest PROVE LinkSettled(m, Goal(i, m))'
      <4> DEFINE p == Goal(i, m)
      <4>1. p' = p /\ LinkSettled(m, p)
        BY <3>1, <3>3 DEF Goal
      <4> HIDE DEF p
      <4>2. LinkSettled(m, p)'
        BY <2>3, <4>1 DEF LinkSettled, Settled, Filled, Covered, Opened
      <4> QED BY <4>2 DEF p
    <3> QED BY <1>1, <3>1, <3>2, <3>3 DEF Goal
  <2> QED BY <2>3, <2>4 DEF OpenInv
<1>6. FreshInv => FreshInv'
  BY <1>1 DEF FreshInv, Goal
<1> QED BY <1>1, <1>2, <1>3, <1>4, <1>5, <1>6

LEMMA ReplacedStep ==
    ASSUME TypeInv, ReadInv, LateInv, LinksReplaced
    PROVE  TypeInv' /\ ReadInv' /\ LateInv' /\ status' = "checking"
<1>1. /\ tar' = tar /\ todo' = todo /\ files' = files /\ links' = links /\ total' = 0 /\ tree' = tree
      /\ pending' = pending /\ frames' = frames /\ checked' = checked
      /\ status = "linking" /\ status' = "checking" /\ frames = <<>> /\ pending = {}
  BY DEF LinksReplaced, linkVars
<1>2. /\ KeptFiles' = KeptFiles /\ KeptLinks' = KeptLinks /\ Kept' = Kept /\ Carried' = Carried
      /\ Universe' = Universe /\ Start' = Start
  BY <1>1, TarFixed DEF Carried
<1>3. TypeInv'
  BY <1>1, <1>2, LimitsAssumption DEF TypeInv, Filed, Frame, LinksUnder, Statuses
<1>4. SoundRead /\ OnceRead /\ LinksRead /\ todo = {} /\ LateInv /\ CheckInv
  BY <1>1 DEF ReadInv, Late, LateInv
<1>5. ReadInv'
  <2>1. SoundRead' /\ OnceRead' /\ LinksRead'
    BY <1>1, <1>2, <1>4 DEF SoundRead, OnceRead, LinksRead, Read
  <2> QED BY <1>1, <1>4, <2>1 DEF ReadInv
<1>6. CheckInv'
  <2>1. checked = 0 /\ DOMAIN links # {}
    BY <1>1, <1>4 DEF CheckInv
  <2>2. {files[i] : i \in 1 .. 0} = {}
    OBVIOUS
  <2>3. Bytes({}) = 0
    BY FS_EmptySet DEF Bytes
  <2>4. Bytes({files[i] : i \in 1 .. checked})' = 0
    <3>1. {files[i] : i \in 1 .. checked}' = {}
      BY <1>1, <2>1, <2>2
    <3> QED BY <2>3, <3>1 DEF Bytes
  <2> QED BY <1>1, <2>1, <2>4 DEF CheckInv
<1> QED BY <1>1, <1>3, <1>4, <1>5, <1>6, LateFixed DEF LateInv, Late

(* The files looked at, and the next one.                                  *)
LEMMA CheckedAre ==
    ASSUME TypeInv, status = "checking", checked < Len(files),
           ~\E i \in 1 .. checked : files[i].path = files[checked + 1].path
    PROVE  LET S == {files[i] : i \in 1 .. checked}
               f == files[checked + 1] IN
           /\ checked + 1 \in DOMAIN files /\ f \in Filed /\ f \in Universe /\ f.from.size \in Nat
           /\ S \subseteq Filed /\ S \subseteq Universe /\ IsFiniteSet(S)
           /\ {files[i] : i \in 1 .. checked + 1} = S \cup {f}
           /\ Bytes(S \cup {f}) = Bytes(S) + f.from.size
<1> DEFINE S == {files[i] : i \in 1 .. checked}
           f == files[checked + 1]
<1>1. checked \in Nat /\ DOMAIN files = 1 .. Len(files) /\ Len(files) \in Nat /\ Filed \subseteq Universe
      /\ IsFiniteSet(Filed) /\ tar \in Tars
  BY FiledCount DEF TypeInv
<1>2. checked + 1 \in DOMAIN files /\ 1 .. checked \subseteq DOMAIN files
      /\ 1 .. checked + 1 = (1 .. checked) \cup {checked + 1}
  BY <1>1
<1>3. f \in Filed /\ S \subseteq Filed
  BY <1>2 DEF Filed
<1>4. f \notin S
  OBVIOUS
<1>5. {files[i] : i \in 1 .. checked + 1} = S \cup {f}
  BY <1>2
<1> HIDE DEF S, f
<1>6. f \in Universe /\ S \subseteq Universe /\ IsFiniteSet(S) /\ f.from.size \in Nat
  BY <1>1, <1>3, FS_Subset, SizesAreNat
<1>7. Bytes(S \cup {f}) = Bytes(S) + f.from.size
  BY <1>1, <1>4, <1>6, BytesAdd
<1> QED BY <1>2, <1>3, <1>5, <1>6, <1>7 DEF S, f

LEMMA CheckStep ==
    ASSUME TypeInv, ReadInv, LateInv, CheckFile
    PROVE  TypeInv' /\ ReadInv' /\ LateInv' /\ (status' \in Refusals => RefusedHasFault')
<1> DEFINE f == files[checked + 1]
           S == {files[i] : i \in 1 .. checked}
<1>1. /\ status = "checking" /\ checked < Len(files) /\ todo' = todo
      /\ IF \E i \in 1 .. checked : files[i].path = f.path THEN Refuse("path")
         ELSE IF total + f.from.size > MaxBytes THEN Refuse("large")
         ELSE /\ checked' = checked + 1
              /\ total' = total + f.from.size
              /\ UNCHANGED <<tar, files, links, tree, pending, frames, status>>
  BY DEF CheckFile
<1>2. SoundRead /\ OnceRead /\ LinksRead /\ todo = {} /\ CheckInv /\ HoldInv /\ (~Overlaid => FreshInv)
  BY <1>1 DEF ReadInv, Late, LateInv
<1>3. /\ tar' = tar /\ files' = files /\ links' = links /\ tree' = tree /\ pending' = pending /\ frames' = frames
  BY <1>1 DEF Refuse, linkVars
<1>4. /\ KeptFiles' = KeptFiles /\ KeptLinks' = KeptLinks /\ Kept' = Kept /\ Carried' = Carried
      /\ Universe' = Universe /\ Start' = Start /\ Overlaid' = Overlaid /\ TooMany' = TooMany
      /\ MeantFiles' = MeantFiles
  BY <1>3, TarFixed DEF Carried
<1>5. checked \in Nat /\ Len(files) \in Nat /\ DOMAIN files = 1 .. Len(files) /\ total \in Nat /\ MaxBytes \in Nat
      /\ Filed \subseteq Universe /\ IsFiniteSet(Filed) /\ tar \in Tars
  BY FiledCount, LimitsAssumption DEF TypeInv
<1>6. total = Bytes(S) /\ \A i, j \in 1 .. checked : files[i].path = files[j].path => i = j
  BY <1>1, <1>2 DEF CheckInv
<1>7. CASE \E i \in 1 .. checked : files[i].path = f.path
  <2>1. status' = "path" /\ total' = total /\ checked' = checked
    BY <1>1, <1>7 DEF Refuse, linkVars
  <2>2. ~Distinct(files)
    <3>1. PICK i \in 1 .. checked : files[i].path = f.path
      BY <1>7
    <3>2. i \in DOMAIN files /\ checked + 1 \in DOMAIN files /\ i # checked + 1
      BY <1>1, <1>5, <3>1
    <3> QED BY <3>1, <3>2 DEF Distinct
  <2>3. Overlaid
    BY <1>2, <2>2 DEF FreshInv
  <2>4. TypeInv'
    BY <1>1, <1>3, <1>4, <2>1 DEF TypeInv, Filed, Frame, LinksUnder, Statuses, Refusals
  <2> QED BY <1>4, <2>1, <2>3, <2>4 DEF ReadInv, LateInv, Late, RefusedHasFault
<1>8. CASE ~(\E i \in 1 .. checked : files[i].path = f.path)
  <2>1. /\ checked + 1 \in DOMAIN files /\ f \in Filed /\ f \in Universe /\ f.from.size \in Nat
        /\ S \subseteq Filed /\ S \subseteq Universe /\ IsFiniteSet(S)
        /\ {files[i] : i \in 1 .. checked + 1} = S \cup {f}
        /\ Bytes(S \cup {f}) = total + f.from.size
    BY <1>1, <1>6, <1>8, CheckedAre
  <2> HIDE DEF f, S
  <2>2. CASE total + f.from.size > MaxBytes
    <3>1. status' = "large" /\ total' = total /\ checked' = checked
      BY <1>1, <1>8, <2>2 DEF Refuse, linkVars
    <3>2. ASSUME ~TooMany PROVE Bytes(MeantFiles) > MaxBytes
      <4>1. MeantFiles = Least /\ IsFiniteSet(MeantFiles) /\ Least \subseteq Universe
        BY <1>5, <3>2, RoundsGather DEF Least
      <4>2. S \cup {f} \subseteq MeantFiles
        BY <1>2, <2>1, <4>1 DEF HoldInv
      <4>3. Bytes(S \cup {f}) <= Bytes(MeantFiles) /\ Bytes(MeantFiles) \in Nat
        BY <1>5, <4>1, <4>2, BytesGrow
      <4> QED BY <1>5, <2>1, <2>2, <4>3
    <3>3. TypeInv'
      BY <1>1, <1>3, <1>4, <3>1 DEF TypeInv, Filed, Frame, LinksUnder, Statuses, Refusals
    <3>4. Bytes(MeantFiles)' = Bytes(MeantFiles)
      BY <1>4 DEF Bytes
    <3> QED BY <1>4, <3>1, <3>2, <3>3, <3>4 DEF ReadInv, LateInv, Late, RefusedHasFault
  <2>3. CASE ~(total + f.from.size > MaxBytes)
    <3>1. status' = status /\ checked' = checked + 1 /\ total' = total + f.from.size
      BY <1>1, <1>8, <2>3
    <3>2. TypeInv'
      <4>1. total' \in 0 .. MaxBytes /\ checked' \in 0 .. Len(files)
        BY <1>1, <1>5, <2>1, <2>3, <3>1
      <4> QED BY <1>1, <1>3, <1>4, <3>1, <4>1 DEF TypeInv, Filed, Frame, LinksUnder, Statuses, Refusals
    <3>3. ReadInv'
      <4>1. SoundRead' /\ OnceRead' /\ LinksRead'
        BY <1>1, <1>2, <1>3, <1>4 DEF SoundRead, OnceRead, LinksRead, Read
      <4> QED BY <1>1, <1>2, <3>1, <4>1 DEF ReadInv
    <3>4. CheckInv'
      <4>1. {files[i] : i \in 1 .. checked}' = S \cup {f}
        BY <1>3, <2>1, <3>1
      <4>2. Bytes({files[i] : i \in 1 .. checked})' = total'
        BY <2>1, <3>1, <4>1 DEF Bytes
      <4>3. \A i, j \in 1 .. checked' : files'[i].path = files'[j].path => i = j
        <5> SUFFICES ASSUME NEW i \in 1 .. checked + 1, NEW j \in 1 .. checked + 1, files[i].path = files[j].path
                     PROVE  i = j
          BY <1>3, <3>1
        <5>1. CASE i \in 1 .. checked /\ j \in 1 .. checked
          BY <1>6, <5>1
        <5>2. CASE i = checked + 1
          BY <1>5, <1>8, <5>2 DEF f
        <5>3. CASE j = checked + 1
          BY <1>5, <1>8, <5>3 DEF f
        <5> QED BY <1>5, <5>1, <5>2, <5>3
      <4> QED BY <1>1, <1>2, <1>3, <3>1, <4>2, <4>3 DEF CheckInv
    <3>5. LateInv'
      BY <1>1, <1>3, <3>4, LateFixed DEF LateInv, Late
    <3> QED BY <1>1, <3>1, <3>2, <3>3, <3>5 DEF Refusals
  <2> QED BY <2>2, <2>3
<1> QED BY <1>7, <1>8

LEMMA FinishStep ==
    ASSUME TypeInv, ReadInv, LateInv, FinishLinks
    PROVE  TypeInv' /\ ReadInv' /\ LateInv' /\ status' = "done"
<1>1. /\ tar' = tar /\ todo' = todo /\ files' = files /\ links' = links /\ total' = total /\ tree' = tree
      /\ pending' = pending /\ frames' = frames /\ checked' = checked
      /\ status = "checking" /\ status' = "done" /\ checked = Len(files)
  BY DEF FinishLinks, linkVars
<1>2. /\ KeptFiles' = KeptFiles /\ KeptLinks' = KeptLinks /\ Kept' = Kept /\ Carried' = Carried
      /\ Universe' = Universe /\ Start' = Start
  BY <1>1, TarFixed DEF Carried
<1>3. TypeInv'
  BY <1>1, <1>2 DEF TypeInv, Filed, Frame, LinksUnder, Statuses
<1>4. SoundRead /\ OnceRead /\ LinksRead /\ todo = {} /\ LateInv /\ CheckInv /\ OpenInv
  BY <1>1 DEF ReadInv, Late, LateInv
<1>5. ReadInv'
  <2>1. SoundRead' /\ OnceRead' /\ LinksRead'
    BY <1>1, <1>2, <1>4 DEF SoundRead, OnceRead, LinksRead, Read
  <2> QED BY <1>1, <1>4, <2>1 DEF ReadInv
<1>6. CheckInv'
  <2>1. DOMAIN files = 1 .. Len(files) /\ DOMAIN links # {} /\ pending = {} /\ frames = <<>>
        /\ total = Bytes({files[i] : i \in 1 .. checked})
        /\ \A i, j \in 1 .. checked : files[i].path = files[j].path => i = j
    BY <1>1, <1>4, FiledCount DEF CheckInv
  <2>2. Distinct(files') /\ {files[i] : i \in 1 .. checked} = Filed
    BY <1>1, <2>1 DEF Distinct, Filed
  <2>3. Bytes(Filed)' = total
    <3>1. Filed' = Filed
      BY <1>1 DEF Filed
    <3> QED BY <2>1, <2>2, <3>1 DEF Bytes
  <2>4. total <= MaxBytes
    BY LimitsAssumption DEF TypeInv
  <2>5. files # <<>>
    <3>1. PICK l \in DOMAIN links : l \notin pending
      BY <2>1
    <3>2. Settled(l, real(l))
      BY <1>4, <3>1 DEF OpenInv, LinkSettled
    <3>3. DOMAIN frames = {}
      BY <2>1, EmptySeq
    <3>4. Filed # {}
      BY <3>2, <3>3 DEF Settled, Opened, Filled
    <3>5. DOMAIN <<>> = {}
      BY EmptySeq
    <3> QED BY <3>4, <3>5 DEF Filed
  <2> QED BY <1>1, <2>1, <2>2, <2>3, <2>4, <2>5 DEF CheckInv
<1> QED BY <1>1, <1>3, <1>4, <1>5, <1>6, LateFixed DEF LateInv, Late

-----------------------------------------------------------------------------
(* What is done is the tree that was meant, and has no fault.              *)

LEMMA DoneSettled ==
    ASSUME TypeInv, ReadInv, LateInv, status \in {"checking", "done"}, NEW l \in DOMAIN links
    PROVE  /\ l \in Path /\ real(l) # Loops /\ Filled(l)
           /\ ~Overlaid /\ ~Blocked => Covered(l, real(l))
<1>1. Late /\ OpenInv /\ CheckInv
  BY DEF Late, LateInv
<1>2. pending = {} /\ DOMAIN frames = {}
  BY <1>1, EmptySeq DEF CheckInv
<1>3. LinkSettled(l, l) /\ ~Opened(l, real(l))
  BY <1>1, <1>2 DEF OpenInv, Opened
<1> QED BY <1>3 DEF LinkSettled, Settled, TypeInv

LEMMA AllFiled ==
    ASSUME TypeInv, ReadInv, LateInv, status \in {"checking", "done"}, ~Overlaid, ~Blocked
    PROVE  Least = Filed
<1>1. HoldInv /\ LinksAgree /\ ~Repeated /\ tar \in Tars
  BY LateFacts DEF Late, LateInv, TypeInv
<1>2. ASSUME NEW f \in Least PROVE f \in Filed
  <2>1. CASE f \in Start
    BY <1>1, <2>1 DEF HoldInv
  <2>2. CASE f \notin Start
    <3>1. PICK k \in KeptLinks, x \in Path : f = At(k.path \o x, f.from) /\ f.from \in KeptFiles
      BY <1>1, <2>2, Origin
    <3> DEFINE l == k.path
               e == f.from
    <3>2. l \in DOMAIN links /\ f = At(l \o x, e) /\ e \in KeptFiles
      BY <1>1, <3>1 DEF LinksAgree
    <3> HIDE DEF l, e
    <3>3. l \in Path /\ real(l) # Loops /\ Covered(l, real(l))
      BY <3>2, DoneSettled
    <3>4. Carries(Least, real(l), l)
      BY <1>1, <3>3, RealIs
    <3>5. At(real(l) \o x, e) \in Least
      BY <3>2, <3>4 DEF Carries
    <3> QED BY <3>2, <3>3, <3>5 DEF Covered
  <2> QED BY <2>1, <2>2
<1> QED BY <1>1, <1>2 DEF HoldInv

LEMMA DoneIsTheTree ==
    ASSUME TypeInv, ReadInv, LateInv
    PROVE  NormalizedIsTheTree /\ AcceptedHasNoFault
<1> SUFFICES ASSUME status = "done" PROVE NormalizedIsTheTree /\ AcceptedHasNoFault
  BY DEF NormalizedIsTheTree, AcceptedHasNoFault
<1>1. /\ LinksAgree /\ ~Repeated /\ ~Escaping
      /\ \A e \in tar : e.path # BadName
      /\ \A e \in Kept : e.type # "other"
  BY LateFacts DEF Late
<1>2. Distinct(files) /\ Bytes(Filed) <= MaxBytes /\ files # <<>>
  BY DEF LateInv, Late, CheckInv
<1>3. ~TwoAtOnePath
  BY <1>2 DEF Distinct, TwoAtOnePath
<1>4. ~LongChain
  BY DoneSettled DEF LongChain
<1>5. /\ tar \in Tars /\ DOMAIN files = 1 .. Len(files) /\ Len(files) \in Nat /\ Len(files) <= MaxEntries
      /\ IsFiniteSet(Filed) /\ Cardinality(Filed) \in Nat /\ Cardinality(Filed) <= Len(files) /\ MaxEntries \in Nat
      /\ Filed \subseteq Universe
  BY FiledCount, LimitsAssumption
<1>6. KeptFiles # {}
  <2>1. Len(files) # 0
    <3>1. files \in Seq(Universe)
      BY DEF TypeInv
    <3> QED BY <1>2, <3>1, EmptySeq
  <2>2. files[1] \in Universe
    <3>1. 1 \in DOMAIN files
      BY <1>5, <2>1
    <3> QED BY <1>5, <3>1 DEF Filed
  <2> QED BY <2>2, InUniverse
<1>7. ASSUME ~Overlaid, ~Blocked
      PROVE  Filed = MeantFiles /\ ~TooMany /\ ~Dangling /\ Bytes(MeantFiles) <= MaxBytes
  <2>1. Least = Filed
    BY <1>7, AllFiled
  <2>2. Cardinality(Least) <= MaxEntries /\ IsFiniteSet(Least)
    BY <1>5, <2>1
  <2>3. ~TooMany /\ MeantFiles = Least
    BY <1>5, <2>2, FewAreGathered
  <2>4. ~Dangling
    <3> SUFFICES ASSUME NEW k \in KeptLinks PROVE \E f \in MeantFiles : Inside(k.path, f.path)
      BY DEF Dangling
    <3>1. k.path \in DOMAIN links
      BY <1>1 DEF LinksAgree
    <3>2. Filled(k.path)
      BY <3>1, DoneSettled
    <3> QED BY <2>1, <2>3, <3>2 DEF Filled
  <2> QED BY <1>2, <2>1, <2>3, <2>4
<1> QED BY <1>1, <1>2, <1>3, <1>4, <1>5, <1>6, <1>7 DEF NormalizedIsTheTree, AcceptedHasNoFault, Filed

-----------------------------------------------------------------------------
(* A link that cannot be replaced shows a fault of the tar.                *)

LEMMA Longest ==
    ASSUME NEW S, S \subseteq Universe, IsFiniteSet(S), S # {}
    PROVE  \E g \in S : \A h \in S : Len(h.path) <= Len(g.path)
<1> DEFINE Longer(g) == {h \in S : Len(h.path) > Len(g.path)}
           Counts == {k \in Nat : \E g \in S : Cardinality(Longer(g)) = k}
<1>1. \A g \in S : Len(g.path) \in Nat
  <2> TAKE g \in S
  <2>1. g.path \in Path
    BY InUniverse
  <2> QED BY <2>1, PathEmpty, PathCat
<1>2. \A g \in S : IsFiniteSet(Longer(g)) /\ Cardinality(Longer(g)) \in Nat
  BY FS_Subset, FS_CardinalityType
<1>3. Counts \in SUBSET Nat /\ Counts # {}
  BY <1>2
<1>4. PICK k \in Counts : \A m \in Counts : k <= m
  <2> HIDE DEF Counts
  <2> QED BY <1>3, LeastMember
<1>5. PICK g \in S : Cardinality(Longer(g)) = k
  OBVIOUS
<1> SUFFICES ASSUME NEW h \in S, Len(h.path) > Len(g.path) PROVE FALSE
  BY <1>1
<1>6. Longer(h) \subseteq Longer(g) /\ h \in Longer(g) /\ h \notin Longer(h)
  BY <1>1
<1>7. Cardinality(Longer(h)) \in Counts
  BY <1>2
<1>8. k <= Cardinality(Longer(h))
  BY <1>4, <1>7
<1>9. IsFiniteSet(Longer(g)) /\ Cardinality(Longer(g)) \in Nat /\ Cardinality(Longer(h)) \in Nat
  BY <1>2
<1> HIDE DEF Longer, Counts
<1>10. /\ Cardinality(Longer(h)) <= Cardinality(Longer(g))
       /\ Cardinality(Longer(h)) = Cardinality(Longer(g)) => Longer(h) = Longer(g)
  BY <1>6, <1>9, FS_Subset
<1> QED BY <1>5, <1>6, <1>8, <1>9, <1>10

(* Something is meant where a link leads, unless the link dangles.         *)
LEMMA DueMeans ==
    ASSUME TypeInv, ReadInv, LateInv, status = "linking", NEW l, NEW d, Due(l, d),
           real(l) # Loops, ~Dangling, ~Overlaid
    PROVE  \E x \in Path, e \in KeptFiles :
             At(real(l) \o x, e) \in Least /\ At(d \o x, e) \in Least
<1> DEFINE s == real(l)
<1>1. /\ l \in DOMAIN links /\ l \in Path /\ d \in Path /\ s \in Path
      /\ Carries(Least, d, l) /\ Carries(Least, s, l)
  BY DueFacts
<1>2. LinksAgree /\ tar \in Tars
  BY LateFacts DEF Late, TypeInv
<1> HIDE DEF s
<1>3. PICK k \in KeptLinks : k.path = l
  BY <1>1, <1>2 DEF LinksAgree
<1>4. PICK f \in MeantFiles : Inside(l, f.path)
  BY <1>3 DEF Dangling
<1>5. f \in Least /\ f \in Universe
  BY <1>2, RoundsGather DEF Least
<1>6. f.path \in Path /\ f.from \in KeptFiles /\ f = At(f.path, f.from)
  BY <1>5, InUniverse
<1>7. PICK x \in Path : f.path = l \o x
  BY <1>1, <1>4, <1>6, PathSplit
<1> DEFINE e == f.from
<1>8. At(l \o x, e) \in Least /\ e \in KeptFiles
  BY <1>5, <1>6, <1>7
<1> HIDE DEF e
<1>9. At(s \o x, e) \in Least /\ At(d \o x, e) \in Least
  BY <1>1, <1>8 DEF Carries
<1> QED BY <1>8, <1>9 DEF s

LEMMA NothingFound ==
    ASSUME TypeInv, ReadInv, LateInv, status = "linking", NEW l, NEW d, Due(l, d),
           real(l) # Loops, Found(real(l)) = {}, LinksUnder(real(l)) = {}
    PROVE  Dangling \/ Overlaid
<1> DEFINE s == real(l)
<1> SUFFICES ASSUME ~Dangling, ~Overlaid PROVE FALSE
  OBVIOUS
<1>1. PICK x \in Path, e \in KeptFiles : At(s \o x, e) \in Least
  BY DueMeans
<1>2. s \in Path /\ LinkedAt(s, links) = {}
  BY DueFacts
<1>3. HoldInv /\ LinksAgree /\ tar \in Tars
  BY LateFacts DEF Late, LateInv, TypeInv
<1>4. Found(s) = {} /\ LinksUnder(s) = {}
  OBVIOUS
<1> HIDE DEF s
<1> DEFINE f == At(s \o x, e)
<1>5. f \in Least /\ f.path = s \o x /\ Inside(s, f.path)
  BY <1>1, <1>2, PathCat DEF At
<1> HIDE DEF f
<1>6. f \notin Start
  <2>1. ASSUME f \in tree PROVE FALSE
    BY <1>4, <1>5, <2>1 DEF Found, FileAt, FilesUnder, StrictlyInside
  <2> QED BY <1>3, <2>1 DEF HoldInv
<1> QED BY <1>2, <1>3, <1>4, <1>5, <1>6, MeantUnder

LEMMA LeadsIntoItself ==
    ASSUME TypeInv, ReadInv, LateInv, status = "linking", NEW l, NEW d, Due(l, d),
           real(l) # Loops, real(l) \in Active
    PROVE  TooMany \/ Dangling \/ Overlaid
<1> DEFINE s == real(l)
<1> SUFFICES ASSUME ~TooMany, ~Dangling, ~Overlaid PROVE FALSE
  OBVIOUS
<1>1. tar \in Tars /\ s \in Path
  BY DueFacts DEF TypeInv
<1>2. PICK i \in DOMAIN frames : frames[i].src = s
  BY DEF Active
<1>3. PICK y \in Path \ {<<>>} : Carries(Least, s \o y, s)
  BY <1>2, DueNests
<1>4. PICK z \in Path, e \in KeptFiles : At(s \o z, e) \in Least
  BY DueMeans
<1> HIDE DEF s
<1> DEFINE S == {f \in Least : Inside(s, f.path)}
<1>5. S # {}
  <2>1. At(s \o z, e).path = s \o z /\ Inside(s, s \o z)
    BY <1>1, PathCat DEF At
  <2>2. At(s \o z, e) \in S
    BY <1>4, <2>1
  <2> QED BY <2>2
<1>6. S \subseteq Universe /\ IsFiniteSet(S) /\ S \subseteq Least
  <2>1. IsFiniteSet(Least)
    BY <1>1, RoundsGather
  <2>2. S \subseteq Least /\ Least \subseteq Universe
    BY DEF Least
  <2> HIDE DEF S
  <2> QED BY <2>1, <2>2, FS_Subset
<1>7. PICK g \in S : \A h \in S : Len(h.path) <= Len(g.path)
  <2> HIDE DEF S
  <2> QED BY <1>5, <1>6, Longest
<1>8. g \in Least /\ Inside(s, g.path) /\ g.path \in Path /\ g.from \in KeptFiles /\ g = At(g.path, g.from)
  BY <1>6, InUniverse
<1>9. PICK x \in Path : g.path = s \o x
  BY <1>1, <1>8, PathSplit
<1> DEFINE h == At((s \o y) \o x, g.from)
<1>10. h \in Least /\ h.path = (s \o y) \o x
  <2>1. At(s \o x, g.from) \in Least
    BY <1>8, <1>9
  <2> QED BY <1>3, <1>8, <2>1 DEF Carries, At
<1> HIDE DEF h
<1>11. /\ s \o y \in Path /\ (s \o y) \o x \in Path /\ Len(s) \in Nat /\ Len(x) \in Nat /\ Len(y) \in Nat
       /\ Len((s \o y) \o x) = Len(s) + Len(y) + Len(x) /\ Len(s \o x) = Len(s) + Len(x)
       /\ Inside(s, s \o y) /\ Inside(s \o y, (s \o y) \o x)
  <2>1. y \in Path /\ s \o y \in Path /\ Len(s \o y) = Len(s) + Len(y) /\ Len(s) \in Nat /\ Len(y) \in Nat /\ Inside(s, s \o y)
    BY <1>1, PathCat
  <2>2. (s \o y) \o x \in Path /\ Len((s \o y) \o x) = Len(s \o y) + Len(x) /\ Inside(s \o y, (s \o y) \o x)
    BY <2>1, PathCat
  <2>3. Len(s \o x) = Len(s) + Len(x) /\ Len(x) \in Nat
    BY <1>1, PathCat
  <2> QED BY <2>1, <2>2, <2>3
<1>12. Len(y) # 0
  BY EmptySeq DEF Path
<1>13. h \in S
  BY <1>1, <1>10, <1>11, PathDown
<1> QED BY <1>7, <1>9, <1>10, <1>11, <1>12, <1>13

(* Copies are as many as what is copied.                                   *)
LEMMA AsManyCopies ==
    ASSUME TypeInv, ~Repeated, NEW d, d \in Clean, NEW s, s \in Path
    PROVE  Cardinality(Copies(d, s)) = Cardinality(Found(s))
<1> DEFINE h == [g \in Found(s) |-> At(d \o Rel(s, g.path), g.from)]
<1>1. IsFiniteSet(Found(s)) /\ \A g \in Found(s) : g \in tree /\ h[g] \in Copies(d, s)
  BY CopiesAre
<1>2. \A f \in Copies(d, s) : \E g \in Found(s) : h[g] = f
  <2> TAKE f \in Copies(d, s)
  <2>1. PICK g \in Found(s), y \in Path :
           g = At(s \o y, f.from) /\ f = At(d \o y, f.from)
    BY CopiesAre
  <2>2. g.path = s \o y /\ g.from = f.from
    BY <2>1 DEF At
  <2>3. Rel(s, g.path) = y
    BY <2>2, PathCat
  <2> QED BY <2>1, <2>2, <2>3
<1>3. \A g, k \in Found(s) : h[g] = h[k] => g = k
  <2> SUFFICES ASSUME NEW g \in Found(s), NEW k \in Found(s), h[g] = h[k] PROVE g = k
    OBVIOUS
  <2>1. g.from = k.from
    BY DEF At
  <2>2. g = At(g.from.path, g.from) /\ k = At(k.from.path, k.from)
    <3>1. g \in tree /\ k \in tree
      BY <1>1
    <3> QED BY <3>1, TreePaths
  <2> QED BY <2>1, <2>2
<1> HIDE DEF h
<1>4. h \in Bijection(Found(s), Copies(d, s))
  <2>1. h \in [Found(s) -> Copies(d, s)]
    BY <1>1 DEF h
  <2> QED BY <1>2, <1>3, <2>1 DEF Bijection, Injection, Surjection, IsInjective
<1>5. \E b : b \in Bijection(Found(s), Copies(d, s))
  BY <1>4
<1> QED BY <1>1, <1>5, FS_Bijection DEF ExistsBijection

LEMMA NoRoom ==
    ASSUME TypeInv, ReadInv, LateInv, status = "linking", NEW l, NEW d, Due(l, d), real(l) # Loops,
           Len(files) >= MaxEntries \/ Len(files) + Cardinality(Found(real(l))) > MaxEntries
    PROVE  TooMany \/ Dangling \/ Overlaid
<1> DEFINE s == real(l)
           C == Copies(d, s)
<1> SUFFICES ASSUME ~TooMany, ~Dangling, ~Overlaid PROVE FALSE
  OBVIOUS
<1>1. d \in Clean /\ d \in Path /\ s \in Path
  BY DueFacts
<1>2. HoldInv /\ FreshInv /\ ~Repeated /\ tar \in Tars
  BY LateFacts DEF Late, LateInv, TypeInv
<1>3. /\ IsFiniteSet(Filed) /\ Cardinality(Filed) = Len(files) /\ Len(files) \in Nat /\ MaxEntries \in Nat
  BY <1>2, FiledCount, LimitsAssumption DEF FreshInv
<1>4. IsFiniteSet(Least) /\ Cardinality(Least) \in Nat /\ Cardinality(Least) <= MaxEntries
  <2>1. Least = MeantFiles /\ IsFiniteSet(Least)
    BY <1>2, RoundsGather
  <2>2. Cardinality(Least) \in Nat
    BY <2>1, FS_CardinalityType
  <2> QED BY <1>3, <2>1, <2>2 DEF TooMany
<1>5. \A f \in Filed : ~Inside(d, f.path)
  BY DueFresh
<1>6. CASE Len(files) >= MaxEntries
  <2>1. PICK x \in Path, e \in KeptFiles : At(d \o x, e) \in Least
    BY DueMeans
  <2> DEFINE f == At(d \o x, e)
  <2>2. f \in Least /\ Inside(d, f.path)
    BY <1>1, <2>1, PathCat DEF At
  <2> HIDE DEF f
  <2>3. f \notin Filed /\ Filed \cup {f} \subseteq Least
    BY <1>2, <1>5, <2>2 DEF HoldInv
  <2>4. Cardinality(Filed \cup {f}) = Cardinality(Filed) + 1
    BY <1>3, <2>3, FS_AddElement
  <2>5. Cardinality(Filed \cup {f}) <= Cardinality(Least)
    BY <1>4, <2>3, FS_Subset
  <2> QED BY <1>3, <1>4, <1>6, <2>4, <2>5
<1>7. CASE Len(files) + Cardinality(Found(s)) > MaxEntries
  <2>1. IsFiniteSet(C) /\ Cardinality(C) = Cardinality(Found(s)) /\ Cardinality(C) \in Nat
    <3>1. IsFiniteSet(C)
      BY <1>1, CopiesAre
    <3> QED BY <1>1, <1>2, <3>1, AsManyCopies, FS_CardinalityType
  <2>2. C \subseteq Least
    BY DueCopies
  <2>3. Filed \cap C = {}
    <3> SUFFICES ASSUME NEW f \in C PROVE f \notin Filed
      OBVIOUS
    <3>1. PICK y \in Path : f = At(d \o y, f.from)
      BY <1>1, CopiesAre
    <3>2. f.path = d \o y
      BY <3>1 DEF At
    <3>3. Inside(d, f.path)
      BY <1>1, <3>2, PathCat
    <3> QED BY <1>5, <3>3
  <2> HIDE DEF C, s
  <2>4. IsFiniteSet(Filed \cup C) /\ Cardinality(Filed \cup C) = Cardinality(Filed) + Cardinality(C)
    <3>1. Cardinality(Filed \cap C) = 0
      BY <2>3, FS_EmptySet
    <3>2. /\ IsFiniteSet(Filed \cup C)
          /\ Cardinality(Filed \cup C) = Cardinality(Filed) + Cardinality(C) - Cardinality(Filed \cap C)
      BY <1>3, <2>1, FS_Union
    <3> QED BY <1>3, <2>1, <3>1, <3>2
  <2>5. Filed \cup C \subseteq Least
    BY <1>2, <2>2 DEF HoldInv
  <2>6. Cardinality(Filed \cup C) <= Cardinality(Least)
    BY <1>4, <2>5, FS_Subset
  <2> QED BY <1>3, <1>4, <1>7, <2>1, <2>4, <2>6
<1> QED BY <1>6, <1>7

LEMMA VainStep ==
    ASSUME TypeInv, ReadInv, LateInv, NEW l, NEW d, CalledInVain(l, d)
    PROVE  TypeInv' /\ ReadInv' /\ LateInv' /\ RefusedHasFault'
<1> DEFINE s == real(l)
<1>1. /\ status = "linking" /\ Due(l, d) /\ ExpandError(s) # "none" /\ status' = ExpandError(s)
      /\ tar' = tar /\ todo' = todo /\ files' = files /\ links' = links /\ total' = total
      /\ tree' = tree /\ pending' = pending /\ frames' = frames /\ checked' = checked
  BY DEF CalledInVain, Refuse, linkVars
<1>2. /\ KeptFiles' = KeptFiles /\ KeptLinks' = KeptLinks /\ Universe' = Universe /\ Start' = Start
      /\ TooMany' = TooMany /\ Dangling' = Dangling /\ Overlaid' = Overlaid
  BY <1>1, TarFixed
<1>3. CASE s = Loops
  <2>1. LongChain /\ status' = "path"
    BY <1>1, <1>3, DueFacts DEF ExpandError
  <2>2. LongChain'
    BY <1>1, <2>1 DEF LongChain, real
  <2>3. TypeInv'
    BY <1>1, <1>2, <2>1 DEF TypeInv, Filed, Frame, LinksUnder, Statuses, Refusals
  <2> QED BY <2>1, <2>2, <2>3 DEF ReadInv, LateInv, Late, RefusedHasFault
<1>4. CASE s # Loops
  <2>1. TooMany \/ Dangling \/ Overlaid
    <3>1. \/ Len(files) >= MaxEntries
          \/ s \in Active
          \/ Len(files) + Cardinality(Found(s)) > MaxEntries
          \/ Found(s) = {} /\ LinksUnder(s) = {}
      BY <1>1, <1>4 DEF ExpandError
    <3> QED BY <1>1, <1>4, <3>1, NoRoom, LeadsIntoItself, NothingFound
  <2>2. status' = "path" \/ status' = "entries"
    BY <1>1 DEF ExpandError
  <2>3. TypeInv'
    BY <1>1, <1>2, <2>2 DEF TypeInv, Filed, Frame, LinksUnder, Statuses, Refusals
  <2> QED BY <1>2, <2>1, <2>2, <2>3 DEF ReadInv, LateInv, Late, RefusedHasFault
<1> QED BY <1>3, <1>4

-----------------------------------------------------------------------------
(* Any step from what holds leads to what holds.                           *)

IInv == TypeInv /\ ReadInv /\ LateInv /\ RefusedHasFault

LEMMA InitHolds == Init => IInv
<1> SUFFICES ASSUME Init PROVE IInv
  OBVIOUS
<1>1. TypeInv /\ ReadInv
  BY TypesInit
<1>2. status = "reading"
  BY DEF Init
<1> QED BY <1>1, <1>2 DEF IInv, LateInv, Late, RefusedHasFault

LEMMA ReadingStep ==
    ASSUME TypeInv, ReadInv, ReadEntry
    PROVE  TypeInv' /\ ReadInv' /\ LateInv' /\ RefusedHasFault'
<1>1. status = "reading"
  BY DEF ReadEntry
<1>2. PICK e \in todo : todo' = todo \ {e} /\ (SkipEntry(e) \/ RefuseEntry(e) \/ ReadFile(e) \/ ReadLink(e))
  BY DEF ReadEntry
<1>3. CASE RefuseEntry(e)
  <2>1. TypeInv' /\ ReadInv' /\ status' \in Refusals /\ RefusedHasFault'
    BY <1>1, <1>2, <1>3, RefuseStep
  <2>2. ~Late'
    BY <2>1 DEF Late, Refusals
  <2> QED BY <2>1, <2>2 DEF LateInv
<1>4. CASE SkipEntry(e) \/ ReadFile(e) \/ ReadLink(e)
  <2>1. TypeInv' /\ ReadInv' /\ status' = status
    BY <1>1, <1>2, <1>4, SkipStep, FileStep, LinkStep
  <2> QED BY <1>1, <2>1 DEF LateInv, Late, RefusedHasFault
<1> QED BY <1>2, <1>3, <1>4

LEMMA StartingStep ==
    ASSUME TypeInv, ReadInv, StartLinks
    PROVE  TypeInv' /\ ReadInv' /\ LateInv' /\ RefusedHasFault'
<1>1. /\ TypeInv' /\ ReadInv' /\ LateInv'
      /\ status' \in Refusals => status' = "empty" /\ KeptFiles' = {}
  BY StartStep
<1>2. status' \in {"linking", "empty", "done"}
  BY DEF StartLinks
<1> QED BY <1>1, <1>2 DEF RefusedHasFault, Refusals

LEMMA ExpandingStep ==
    ASSUME TypeInv, ReadInv, LateInv, ResolveLink \/ ResolveInner
    PROVE  TypeInv' /\ ReadInv' /\ LateInv' /\ RefusedHasFault'
<1>1. CASE \E l, d : Called(l, d)
  <2>1. PICK l, d : Called(l, d)
    BY <1>1
  <2>2. TypeInv' /\ ReadInv' /\ LateInv' /\ status' = status /\ status = "linking"
    BY <2>1, CallStep DEF Called
  <2> QED BY <2>2 DEF RefusedHasFault
<1>2. CASE \E l, d : CalledInVain(l, d)
  BY <1>2, VainStep
<1> QED BY <1>1, <1>2, ResolveIs

LEMMA StillHolds ==
    ASSUME IInv, UNCHANGED vars
    PROVE  IInv'
<1>1. /\ tar' = tar /\ todo' = todo /\ files' = files /\ links' = links /\ total' = total
      /\ tree' = tree /\ pending' = pending /\ frames' = frames /\ checked' = checked /\ status' = status
  BY DEF vars, linkVars
<1>2. /\ KeptFiles' = KeptFiles /\ KeptLinks' = KeptLinks /\ Kept' = Kept /\ Carried' = Carried
      /\ Universe' = Universe /\ Start' = Start
      /\ TooMany' = TooMany /\ Dangling' = Dangling /\ Overlaid' = Overlaid
      /\ Repeated' = Repeated /\ Escaping' = Escaping /\ MeantFiles' = MeantFiles
  BY <1>1, TarFixed DEF Carried
<1>3. TypeInv'
  BY <1>1, <1>2 DEF IInv, TypeInv, Filed, Frame, LinksUnder
<1>4. ReadInv'
  <2>1. /\ SoundRead => SoundRead'
        /\ OnceRead => OnceRead'
        /\ LinksRead => LinksRead'
    BY <1>1, <1>2 DEF SoundRead, OnceRead, LinksRead, Read
  <2>2. FilesRead => FilesRead'
    <3>1. Filed' = Filed /\ Read' = Read /\ Bytes(Filed)' = Bytes(Filed)
      BY <1>1 DEF Filed, Read, Bytes
    <3> QED BY <1>1, <1>2, <3>1 DEF FilesRead, Distinct
  <2> QED BY <1>1, <2>1, <2>2 DEF IInv, ReadInv, Untouched, Late
<1>5. LateInv'
  <2>1. CheckInv => CheckInv'
    BY <1>1 DEF CheckInv, Filed, Bytes, Distinct
  <2> QED BY <1>1, <2>1, LateFixed DEF IInv, LateInv, Late
<1>6. RefusedHasFault'
  BY <1>1, <1>2 DEF IInv, RefusedHasFault, LongChain, real, Bytes
<1> QED BY <1>3, <1>4, <1>5, <1>6 DEF IInv

LEMMA StepHolds == IInv /\ [Next]_vars => IInv'
<1> SUFFICES ASSUME IInv, [Next]_vars PROVE IInv'
  OBVIOUS
<1>1. TypeInv /\ ReadInv /\ LateInv
  BY DEF IInv
<1>2. CASE ReadEntry
  BY <1>1, <1>2, ReadingStep DEF IInv
<1>3. CASE StartLinks
  BY <1>1, <1>3, StartingStep DEF IInv
<1>4. CASE ResolveLink \/ ResolveInner
  BY <1>1, <1>4, ExpandingStep DEF IInv
<1>5. CASE ReturnFromExpand
  <2>1. TypeInv' /\ ReadInv' /\ LateInv' /\ status' = status /\ status = "linking"
    BY <1>1, <1>5, ReturnStep DEF ReturnFromExpand
  <2> QED BY <2>1 DEF IInv, RefusedHasFault
<1>6. CASE LinksReplaced
  <2>1. TypeInv' /\ ReadInv' /\ LateInv' /\ status' = "checking"
    BY <1>1, <1>6, ReplacedStep
  <2> QED BY <2>1 DEF IInv, RefusedHasFault
<1>7. CASE CheckFile
  <2>1. TypeInv' /\ ReadInv' /\ LateInv' /\ (status' \in Refusals => RefusedHasFault')
    BY <1>1, <1>7, CheckStep
  <2>2. status' \notin Refusals => RefusedHasFault'
    BY DEF Refusals, RefusedHasFault
  <2> QED BY <2>1, <2>2 DEF IInv
<1>8. CASE FinishLinks
  <2>1. TypeInv' /\ ReadInv' /\ LateInv' /\ status' = "done"
    BY <1>1, <1>8, FinishStep
  <2> QED BY <2>1 DEF IInv, RefusedHasFault
<1>9. CASE UNCHANGED vars
  BY <1>9, StillHolds
<1> QED BY <1>2, <1>3, <1>4, <1>5, <1>6, <1>7, <1>8, <1>9 DEF Next

LEMMA AlwaysHolds == Spec => []IInv
<1>1. Init => IInv
  BY InitHolds
<1>2. IInv /\ [Next]_vars => IInv'
  BY StepHolds
<1> QED BY <1>1, <1>2, PTL DEF Spec

(* Normalize keeps its state well formed whatever tar arrives and in       *)
(* whatever order: names kept are never ignored ones, a file kept is one   *)
(* of the tar's, and neither cap is passed.                                *)
THEOREM NormalizeTypes == Spec => []NormalizeTypeOK
<1>1. IInv => NormalizeTypeOK
  BY TypesGive DEF IInv
<1> QED BY <1>1, AlwaysHolds, PTL

(* A tar accepted is normalised to the tree it means, whatever order its   *)
(* entries come in: every link's path holds a copy of all that its target  *)
(* means, through any links on the way and inside, and nothing else.       *)
THEOREM NormalizeIsTheTree == Spec => []NormalizedIsTheTree
<1>1. IInv => NormalizedIsTheTree
  BY DoneIsTheTree DEF IInv
<1> QED BY <1>1, AlwaysHolds, PTL

(* What Normalize accepts has none of the faults, and what it refuses has  *)
(* one that fits the refusal: the verdict is of the tree the tar means,    *)
(* not of the order its entries came in.                                   *)
THEOREM NormalizeVerdict == Spec => []VerdictIsOfTheTree
<1>1. IInv => VerdictIsOfTheTree
  BY DoneIsTheTree DEF IInv, VerdictIsOfTheTree
<1> QED BY <1>1, AlwaysHolds, PTL

-----------------------------------------------------------------------------
(* What Untar lays out: directories above everything, and an object for    *)
(* every entry it has read.                                                *)

LEMMA ParentIs ==
    ASSUME NEW p \in Path, p # <<>>
    PROVE  /\ Parent(p) \in Path /\ StrictlyInside(Parent(p), p)
           /\ \A q \in Path : StrictlyInside(q, p) => Inside(q, Parent(p))
<1>1. Len(p) \in Nat \ {0} /\ p \in Seq(Name)
  BY LenProperties, EmptySeq DEF Path
<1> DEFINE n == Len(p) - 1
<1>2. n \in Nat /\ n <= Len(p) /\ 0 \in Nat /\ n # Len(p)
  BY <1>1
<1>3. SubSeq(p, 1, n) \in Path /\ Len(SubSeq(p, 1, n)) = n
  <2>1. SubSeq(p, 0 + 1, n) \in Path
    BY <1>2, PathPart
  <2>2. \A i \in 1 .. n : p[i] \in Name
    BY <1>1, <1>2, ElementOfSeq
  <2>3. Len(SubSeq(p, 1, n)) = IF 1 <= n THEN n - 1 + 1 ELSE 0
    <3> HIDE DEF n
    <3>1. 1 \in Int /\ n \in Int
      BY <1>2
    <3> QED BY <2>2, <3>1, SubSeqProperties
  <2> QED BY <1>2, <2>1, <2>3
<1>4. Parent(p) = SubSeq(p, 1, n)
  BY DEF Parent
<1>5. StrictlyInside(Parent(p), p)
  BY <1>2, <1>3, <1>4 DEF StrictlyInside, Inside, IsPathPrefix
<1>6. ASSUME NEW q \in Path, StrictlyInside(q, p) PROVE Inside(q, Parent(p))
  <2>1. Len(q) \in Nat /\ q \in Seq(Name) /\ Len(q) <= Len(p) /\ SubSeq(p, 1, Len(q)) = q /\ q # p
    BY <1>6, LenProperties DEF StrictlyInside, Inside, IsPathPrefix, Path
  <2>2. Len(q) # Len(p)
    <3> SUFFICES ASSUME Len(q) = Len(p) PROVE FALSE
      OBVIOUS
    <3>1. SubSeq(p, 1, Len(p)) = p
      BY <1>1, SubSeqFull
    <3> QED BY <2>1, <3>1
  <2>3. Len(q) <= n
    BY <1>1, <2>1, <2>2
  <2>4. SubSeq(SubSeq(p, 1, n), 1, Len(q)) = SubSeq(p, 1, Len(q))
    BY <1>1, <1>2, <2>1, <2>3
  <2> QED BY <1>3, <1>4, <2>1, <2>3, <2>4 DEF Inside, IsPathPrefix
<1> QED BY <1>3, <1>4, <1>5, <1>6

(* What MkdirAll(p) makes when nothing is there.                           *)
Dirs(p) == {SubSeq(p, 1, i) : i \in DOMAIN p}

LEMMA DirsAre ==
    ASSUME NEW p \in Path
    PROVE  /\ \A q : q \in Dirs(p) <=> q \in Path /\ q # <<>> /\ Inside(q, p)
           /\ IsFiniteSet(Dirs(p))
<1>1. p \in Seq(Name) /\ Len(p) \in Nat /\ DOMAIN p = 1 .. Len(p)
  BY LenProperties DEF Path
<1>2. ASSUME NEW i \in 1 .. Len(p)
      PROVE  SubSeq(p, 1, i) \in Path /\ SubSeq(p, 1, i) # <<>> /\ Inside(SubSeq(p, 1, i), p)
  <2>1. SubSeq(p, 1, i) \in Path /\ Len(SubSeq(p, 1, i)) = i
    BY <1>1 DEF Path
  <2>2. SubSeq(p, 1, i) # <<>>
    BY <2>1
  <2> QED BY <1>1, <2>1, <2>2 DEF Inside, IsPathPrefix
<1>3. ASSUME NEW q \in Path, q # <<>>, Inside(q, p) PROVE q \in Dirs(p)
  <2>1. Len(q) \in 1 .. Len(p) /\ SubSeq(p, 1, Len(q)) = q
    <3>1. Len(q) \in Nat /\ Len(q) # 0
      BY <1>3, LenProperties, EmptySeq DEF Path
    <3> QED BY <1>1, <1>3, <3>1 DEF Inside, IsPathPrefix
  <2> QED BY <1>1, <2>1 DEF Dirs
<1>4. IsFiniteSet(Dirs(p))
  <2> DEFINE I == 1 .. Len(p)
             g == [i \in I |-> SubSeq(p, 1, i)]
  <2>1. IsFiniteSet(I)
    <3>1. 1 \in Int /\ Len(p) \in Int
      BY <1>1
    <3> QED BY <3>1, FS_Interval, Zenon
  <2>2. DOMAIN g = I /\ g = [i \in I |-> g[i]]
    OBVIOUS
  <2>3. Dirs(p) = {g[i] : i \in I}
    BY <1>1 DEF Dirs
  <2> HIDE DEF g, I
  <2> QED BY <2>1, <2>2, <2>3, ImageFinite
<1> QED BY <1>1, <1>2, <1>3, <1>4 DEF Dirs

LEMMA LinkedMeans ==
    ASSUME NEW to, OnPaths(to), NEW p \in Path
    PROVE  LinkedAt(p, to) = {} <=> \A l \in DOMAIN to : ~Inside(l, p)
<1>1. DOMAIN p = 1 .. Len(p) /\ Len(p) \in Nat /\ p \in Seq(Name)
  BY LenProperties DEF Path
<1>2. ASSUME NEW i \in LinkedAt(p, to) PROVE \E l \in DOMAIN to : Inside(l, p)
  <2>1. i \in DOMAIN p /\ SubSeq(p, 1, i) \in DOMAIN to
    BY DEF LinkedAt
  <2>2. SubSeq(p, 1, i) \in Dirs(p)
    BY <2>1 DEF Dirs
  <2> QED BY <2>1, <2>2, DirsAre
<1>3. ASSUME NEW l \in DOMAIN to, Inside(l, p) PROVE LinkedAt(p, to) # {}
  <2>1. l \in Path /\ l # <<>>
    BY DEF OnPaths
  <2>2. l \in Dirs(p)
    BY <1>3, <2>1, DirsAre
  <2>3. PICK i \in DOMAIN p : l = SubSeq(p, 1, i)
    BY <2>2 DEF Dirs
  <2> QED BY <2>3 DEF LinkedAt
<1> QED BY <1>2, <1>3

LEMMA FollowNothing ==
    ASSUME NEW to, OnPaths(to), NEW p \in Path, NEW limit \in Nat
    PROVE  /\ LinkedAt(p, to) = {} => Followed(p, to, limit) = p
           /\ Followed(p, to, limit) # Loops =>
                /\ Followed(p, to, limit) \in Path
                /\ LinkedAt(Followed(p, to, limit), to) = {}
<1>1. PICK c \in [0 .. limit -> Path] :
             /\ c[0] = p
             /\ \A i \in 1 .. limit :
                  c[i] = IF LinkedAt(c[i - 1], to) = {} THEN c[i - 1] ELSE FollowFirst(c[i - 1], to)
             /\ Followed(p, to, limit) = IF LinkedAt(c[limit], to) = {} THEN c[limit] ELSE Loops
  <2>1. \E c : Way(c, p, to, limit)
    BY FollowedIs
  <2> QED BY <2>1 DEF Way
<1>2. limit \in 0 .. limit /\ c[limit] \in Path
  OBVIOUS
<1>3. ASSUME LinkedAt(p, to) = {} PROVE \A i \in 0 .. limit : c[i] = p
  <2> DEFINE T == {i \in 0 .. limit : c[i] = p}
  <2>1. 0 \in T /\ 0 \in Nat
    BY <1>1
  <2>2. ASSUME NEW i \in 0 .. limit, i \in T, i < limit PROVE i + 1 \in T
    <3>1. i + 1 \in 1 .. limit /\ i + 1 - 1 = i /\ i + 1 \in 0 .. limit
      BY <2>2
    <3>2. \A h \in 1 .. limit : LinkedAt(c[h - 1], to) = {} => c[h] = c[h - 1]
      BY <1>1
    <3>3. c[i] = p
      BY <2>2
    <3> QED BY <1>3, <3>1, <3>2, <3>3
  <2> HIDE DEF T
  <2>3. \A i \in 0 .. limit : i \in T
    BY <2>1, <2>2, Upwards
  <2> QED BY <2>3 DEF T
<1> QED BY <1>1, <1>2, <1>3

(* Every object lies in directories.                                       *)
Rooted(d) ==
    \A x \in DOMAIN d :
        /\ x \in Path /\ x # <<>>
        /\ \A y \in Path : y # <<>> /\ StrictlyInside(y, x) => y \in DOMAIN d /\ d[y].type = "dir"

(* And each is there for an entry that has been read.                      *)
Makes == {"dir", "file", "link"}
MadeFor(p, object, S) ==
    \/ /\ object.type = "dir"
       /\ \E e \in S : e.type \in Makes /\ e.path # BadName /\ Inside(p, e.path)
    \/ /\ object.type = "link"
       /\ \E e \in S : /\ e.type = "link" /\ e.path # BadName /\ e.path = p
                       /\ object.up = e.up /\ object.down = e.down
    \/ /\ object.type = "file"
       /\ object.from \in S /\ object.from.type = "file" /\ object.from.path \notin {<<>>, BadName}
       /\ object.from.path = p \/ WrittenThrough
Disk(S) ==
    /\ tar \in Tars /\ S \subseteq tar
    /\ Rooted(disk)
    /\ \A p \in DOMAIN disk : MadeFor(p, disk[p], S)
DiskLink(p) == p \in DOMAIN disk /\ disk[p].type = "link"
LinkOn(p) == \E l \in DOMAIN disk : DiskLink(l) /\ Inside(l, p)

LEMMA EntryIs ==
    ASSUME tar \in Tars, NEW e \in tar
    PROVE  /\ IsEntry(e) /\ e.size \in Nat /\ e.up \in Nat
           /\ e.path # BadName => e.path \in Path /\ PointsTo(e) \in Path
<1>1. IsEntry(e) /\ e.size \in Nat /\ e.up \in Nat /\ e.down \in Path
  BY TarsAssumption DEF IsEntry, Path
<1>2. ASSUME e.path # BadName PROVE e.path \in Path /\ PointsTo(e) \in Path
  <2>1. e.path \in Path
    BY <1>2, TarsAssumption DEF Path
  <2> DEFINE d == Parent(e.path)
  <2>2. d \in Path
    <3>1. CASE e.path = <<>>
      <4>1. Len(<<>>) = 0 /\ SubSeq(<<>>, 1, -1) = <<>>
        BY SubSeqEmpty
      <4>2. Parent(<<>>) = <<>>
        BY <4>1 DEF Parent
      <4> QED BY <3>1, <4>2, PathEmpty
    <3>2. CASE e.path # <<>>
      BY <2>1, <3>2, ParentIs
    <3> QED BY <3>1, <3>2
  <2>3. SubSeq(d, 0 + 1, Len(d) - e.up) \in Path
    <3>1. Len(d) - e.up \in Int /\ Len(d) - e.up <= Len(d) /\ 0 \in Nat
      BY <1>1, <2>2, LenProperties DEF Path
    <3> HIDE DEF d
    <3> QED BY <2>2, <3>1, PathPart
  <2>4. PointsTo(e) = SubSeq(d, 0 + 1, Len(d) - e.up) \o e.down
    BY DEF PointsTo, JoinSource
  <2> HIDE DEF d
  <2> QED BY <1>1, <2>1, <2>3, <2>4, PathCat
<1> QED BY <1>1, <1>2

LEMMA MadeForMore ==
    ASSUME NEW S, NEW T, S \subseteq T, NEW p, NEW object, MadeFor(p, object, S)
    PROVE  MadeFor(p, object, T) /\ object.type \in Makes
BY DEF MadeFor, Makes

LEMMA DiskLinksAre ==
    ASSUME NEW S, Disk(S)
    PROVE  /\ OnPaths(DiskLinks)
           /\ \A l : l \in DOMAIN DiskLinks <=> DiskLink(l)
           /\ \A l \in DOMAIN DiskLinks : \E e \in S :
                e.type = "link" /\ e.path # BadName /\ e.path = l /\ DiskLinks[l] = PointsTo(e)
<1>1. \A l : l \in DOMAIN DiskLinks <=> DiskLink(l)
  BY DEF DiskLinks, DiskLink
<1>2. ASSUME NEW l \in DOMAIN DiskLinks
      PROVE  /\ l \in Path /\ l # <<>> /\ DiskLinks[l] \in Path
             /\ \E e \in S : e.type = "link" /\ e.path # BadName /\ e.path = l /\ DiskLinks[l] = PointsTo(e)
  <2>1. l \in DOMAIN disk /\ disk[l].type = "link" /\ MadeFor(l, disk[l], S) /\ l \in Path /\ l # <<>>
    BY <1>1 DEF DiskLink, Disk, Rooted
  <2>2. PICK e \in S : e.type = "link" /\ e.path # BadName /\ e.path = l
                       /\ disk[l].up = e.up /\ disk[l].down = e.down
    BY <2>1 DEF MadeFor
  <2>3. DiskLinks[l] = JoinSource(Parent(l), disk[l].up, disk[l].down)
    BY <2>1 DEF DiskLinks
  <2>4. DiskLinks[l] = PointsTo(e)
    BY <2>2, <2>3 DEF PointsTo
  <2>5. PointsTo(e) \in Path
    BY <2>2, EntryIs DEF Disk
  <2> QED BY <2>1, <2>2, <2>4, <2>5
<1> QED BY <1>1, <1>2 DEF OnPaths

LEMMA DiskFollows ==
    ASSUME NEW S, Disk(S), NEW p \in Path
    PROVE  /\ ~LinkOn(p) => Follow(p) = p
           /\ Follow(p) # Loops => Follow(p) \in Path /\ ~LinkOn(Follow(p))
<1>1. OnPaths(DiskLinks) /\ \A l : l \in DOMAIN DiskLinks <=> DiskLink(l)
  BY DiskLinksAre
<1>2. \A q : LinkOn(q) <=> \E l \in DOMAIN DiskLinks : Inside(l, q)
  BY <1>1 DEF LinkOn, DiskLink
<1>3. \A q \in Path : LinkOn(q) <=> LinkedAt(q, DiskLinks) # {}
  BY <1>1, <1>2, LinkedMeans
<1> QED BY <1>1, <1>3, FollowNothing, MaxSymlinksAssumption DEF Follow

(* Below a file or a link nothing lies, and no link is on the way to what  *)
(* is there.                                                               *)
LEMMA NothingBelow ==
    ASSUME Rooted(disk), NEW p \in DOMAIN disk
    PROVE  /\ \A q \in DOMAIN disk : StrictlyInside(p, q) => disk[p].type = "dir"
           /\ disk[p].type # "link" => ~LinkOn(p)
<1>1. \A q \in DOMAIN disk : StrictlyInside(p, q) => disk[p].type = "dir"
  BY DEF Rooted
<1>2. ASSUME LinkOn(p) PROVE disk[p].type = "link"
  <2>1. PICK l \in DOMAIN disk : disk[l].type = "link" /\ Inside(l, p)
    BY <1>2 DEF LinkOn, DiskLink
  <2>2. l \in Path /\ l # <<>>
    BY DEF Rooted
  <2>3. l = p
    BY <2>1, <2>2 DEF Rooted, StrictlyInside
  <2> QED BY <2>1, <2>3
<1> QED BY <1>1, <1>2

LEMMA WhatIsThere ==
    ASSUME NEW S, Disk(S), NEW p \in DOMAIN disk
    PROVE  /\ disk[p].type \in Makes
           /\ p \in Path /\ p # <<>>
           /\ disk[p].type # "link" => Follow(p) = p
           /\ IsDirectory(p) <=> disk[p].type = "dir"
           /\ IsFile(p) <=> disk[p].type = "file"
<1>1. p \in Path /\ p # <<>> /\ Rooted(disk) /\ disk[p].type \in Makes
  BY MadeForMore DEF Disk, Rooted
<1>2. disk[p].type # "link" => Follow(p) = p
  BY <1>1, NothingBelow, DiskFollows
<1> QED BY <1>1, <1>2 DEF IsDirectory, IsFile

(* What Untar finds in its way is there for another entry, of a name that  *)
(* the entry at hand lies below.                                           *)
LEMMA ConflictAt ==
    ASSUME NEW S, Disk(S), NEW e \in tar, e \notin S, e.path # BadName, e.type \in Makes,
           NEW q \in DOMAIN disk, disk[q].type # "dir", Inside(q, e.path)
    PROVE  Conflict
<1>1. MadeFor(q, disk[q], S) /\ S \subseteq tar
  BY DEF Disk
<1>2. CASE \E l \in S : l.type = "link" /\ l.path # BadName /\ l.path = q
  BY <1>1, <1>2 DEF Conflict, Makes
<1>3. CASE disk[q].type = "file" /\ disk[q].from.path = q
  <2> DEFINE f == disk[q].from
  <2>1. f \in tar /\ f # e /\ f.type = "file" /\ f.path # BadName /\ f.path = q
    BY <1>1, <1>3 DEF MadeFor
  <2> HIDE DEF f
  <2> QED BY <2>1 DEF Conflict, Makes
<1>4. CASE WrittenThrough
  <2>1. PICK l, f \in tar : l.type = "link" /\ f.type = "file" /\ l.path = f.path /\ l.path \notin {<<>>, BadName}
    BY <1>4 DEF WrittenThrough
  <2>2. l.path \in Path /\ f.path = l.path
    BY <2>1, EntryIs DEF Disk
  <2>3. Inside(l.path, f.path)
    BY <2>2, InsideItself
  <2> QED BY <2>1, <2>2, <2>3 DEF Conflict
<1> QED BY <1>1, <1>2, <1>3, <1>4 DEF MadeFor

LEMMA ConflictUnder ==
    ASSUME NEW S, Disk(S), NEW e \in tar, e \notin S, e.path # BadName, e.type \in {"file", "link"},
           e.path \in DOMAIN disk
    PROVE  Conflict
<1>1. e.path \in Path /\ Inside(e.path, e.path) /\ MadeFor(e.path, disk[e.path], S) /\ S \subseteq tar
  <2>1. e.path \in Path
    BY EntryIs DEF Disk
  <2> QED BY <2>1, InsideItself DEF Disk
<1>2. CASE disk[e.path].type = "dir"
  <2>1. PICK f \in S : f.type \in Makes /\ f.path # BadName /\ Inside(e.path, f.path)
    BY <1>1, <1>2 DEF MadeFor
  <2> QED BY <1>1, <2>1 DEF Conflict, Makes
<1>3. CASE disk[e.path].type # "dir"
  BY <1>1, <1>3, ConflictAt DEF Makes
<1> QED BY <1>2, <1>3

LEMMA ConflictOn ==
    ASSUME NEW S, Disk(S), NEW e \in tar, e \notin S, e.path # BadName, e.type \in Makes, LinkOn(e.path)
    PROVE  Conflict
<1>1. PICK l \in DOMAIN disk : disk[l].type = "link" /\ Inside(l, e.path)
  BY DEF LinkOn, DiskLink
<1> QED BY <1>1, ConflictAt

LEMMA CannotMake ==
    ASSUME NEW S, Disk(S), NEW e \in tar, e \notin S, e.path # BadName, e.type \in Makes,
           NEW p \in Path, Inside(p, e.path), ~CanMake(p)
    PROVE  Conflict
<1>1. PICK i \in DOMAIN p : SubSeq(p, 1, i) \in DOMAIN disk /\ ~IsDirectory(Follow(SubSeq(p, 1, i)))
  BY DEF CanMake
<1> DEFINE q == SubSeq(p, 1, i)
<1>2. q \in Path /\ Inside(q, p) /\ q \in DOMAIN disk /\ ~IsDirectory(Follow(q))
  <2>1. q \in Dirs(p)
    BY DEF Dirs
  <2> QED BY <1>1, <2>1, DirsAre
<1> HIDE DEF q
<1>3. disk[q].type # "dir"
  <2> SUFFICES ASSUME disk[q].type = "dir" PROVE FALSE
    OBVIOUS
  <2> QED BY <1>2, WhatIsThere
<1>4. Inside(q, e.path)
  BY <1>2, PathDown, EntryIs DEF Disk
<1> QED BY <1>2, <1>3, <1>4, ConflictAt

LEMMA CannotWrite ==
    ASSUME NEW S, Disk(S), NEW e \in tar, e \notin S, e.path # BadName, e.path # <<>>, e.type = "file",
           ~CanWrite(e.path)
    PROVE  Conflict
<1>1. e.path \in Path /\ e.type \in Makes /\ Parent(e.path) \in Path /\ Inside(Parent(e.path), e.path)
  BY EntryIs, ParentIs DEF Disk, Makes, StrictlyInside
<1>2. CASE LinkOn(e.path)
  BY <1>1, <1>2, ConflictOn
<1>3. CASE ~CanMake(Parent(e.path))
  BY <1>1, <1>3, CannotMake
<1>4. CASE ~LinkOn(e.path) /\ CanMake(Parent(e.path))
  <2>1. Follow(e.path) = e.path
    BY <1>1, <1>4, DiskFollows
  <2>2. e.path # Loops
    <3>1. Loops \notin Path
      BY LoopsIsNoPath
    <3> QED BY <1>1, <3>1
  <2>3. IsDirectory(e.path)
    BY <1>4, <2>1, <2>2 DEF CanWrite
  <2>4. e.path \in DOMAIN disk
    BY <2>3 DEF IsDirectory
  <2> QED BY <2>4, ConflictUnder
<1> QED BY <1>2, <1>3, <1>4

LEMMA InsideBoth ==
    ASSUME NEW p \in Path, NEW q \in Path, Inside(p, q), Inside(q, p)
    PROVE  p = q
<1>1. Len(p) \in Nat /\ Len(q) \in Nat /\ Len(p) <= Len(q) /\ Len(q) <= Len(p) /\ SubSeq(q, 1, Len(p)) = p
  BY LenProperties DEF Inside, IsPathPrefix, Path
<1>2. Len(p) = Len(q)
  BY <1>1
<1> QED BY <1>1, <1>2, SubSeqFull DEF Path

(* Making directories on the way to an entry leaves directories above      *)
(* everything: nothing else can be on the way, the tar being Plain.        *)
LEMMA DirsMade ==
    ASSUME NEW S, Disk(S), Plain(tar), NEW e \in tar, e.path # BadName, e.type \in Makes,
           NEW p \in Path, Inside(p, e.path), CanMake(p)
    PROVE  LET d == WithDirs(p) IN
           /\ DOMAIN d = DOMAIN disk \cup Dirs(p)
           /\ \A x \in DOMAIN disk : d[x] = disk[x]
           /\ \A x \in Dirs(p) : x # e.path => d[x].type = "dir"
           /\ Rooted(d)
           /\ \A x \in DOMAIN d : MadeFor(x, d[x], S \cup {e})
<1> DEFINE d == WithDirs(p)
<1>1. /\ DOMAIN d = DOMAIN disk \cup Dirs(p)
      /\ \A x \in DOMAIN disk : d[x] = disk[x]
      /\ \A x \in Dirs(p) : x \notin DOMAIN disk => d[x].type = "dir"
  BY DEF WithDirs, Dirs
<1>2. e.path \in Path /\ Rooted(disk) /\ S \subseteq tar /\ S \subseteq S \cup {e}
  BY EntryIs DEF Disk
<1>3. ASSUME NEW x \in Dirs(p)
      PROVE  /\ x \in Path /\ x # <<>> /\ Inside(x, p) /\ Inside(x, e.path)
             /\ x # e.path => StrictlyInside(x, e.path)
  BY <1>2, DirsAre, PathDown DEF StrictlyInside
<1>4. ASSUME NEW x \in Dirs(p), x # e.path, x \in DOMAIN disk PROVE disk[x].type = "dir"
  <2>1. disk[x].type # "link"
    <3> SUFFICES ASSUME disk[x].type = "link" PROVE FALSE
      OBVIOUS
    <3>1. MadeFor(x, disk[x], S)
      BY <1>4 DEF Disk
    <3>2. PICK l \in S : l.type = "link" /\ l.path # BadName /\ l.path = x
      BY <3>1 DEF MadeFor
    <3> QED BY <1>2, <1>3, <1>4, <3>2 DEF Plain
  <2>2. PICK i \in DOMAIN p : x = SubSeq(p, 1, i)
    BY DEF Dirs
  <2>3. IsDirectory(Follow(x))
    BY <1>4, <2>2 DEF CanMake
  <2> QED BY <1>4, <2>1, <2>3, WhatIsThere
<1> HIDE DEF d
<1>5. \A x \in Dirs(p) : x # e.path => d[x].type = "dir"
  BY <1>1, <1>4
<1>6. Rooted(d)
  <2> SUFFICES ASSUME NEW x \in DOMAIN d
               PROVE  /\ x \in Path /\ x # <<>>
                      /\ \A y \in Path : y # <<>> /\ StrictlyInside(y, x) => y \in DOMAIN d /\ d[y].type = "dir"
    BY DEF Rooted
  <2>1. CASE x \in DOMAIN disk
    BY <1>1, <1>2, <2>1 DEF Rooted
  <2>2. CASE x \in Dirs(p)
    <3>1. ASSUME NEW y \in Path, y # <<>>, StrictlyInside(y, x) PROVE y \in Dirs(p) /\ y # e.path
      <4>1. Inside(y, x) /\ y # x
        BY <3>1 DEF StrictlyInside
      <4>2. y \in Dirs(p)
        BY <1>3, <2>2, <3>1, <4>1, PathDown, DirsAre
      <4>3. y # e.path
        BY <1>2, <1>3, <2>2, <4>1, InsideBoth
      <4> QED BY <4>2, <4>3
    <3> QED BY <1>1, <1>3, <1>5, <2>2, <3>1
  <2> QED BY <1>1, <2>1, <2>2
<1>7. ASSUME NEW x \in DOMAIN d PROVE MadeFor(x, d[x], S \cup {e})
  <2>1. CASE x \in DOMAIN disk
    <3>1. MadeFor(x, disk[x], S)
      BY <2>1 DEF Disk
    <3> QED BY <1>1, <1>2, <2>1, <3>1, MadeForMore
  <2>2. CASE x \notin DOMAIN disk
    <3>1. x \in Dirs(p) /\ d[x].type = "dir"
      BY <1>1, <2>2
    <3>2. Inside(x, e.path)
      BY <1>3, <3>1
    <3> QED BY <3>1, <3>2 DEF MadeFor
  <2> QED BY <2>1, <2>2
<1> QED BY <1>1, <1>5, <1>6, <1>7 DEF d

LEMMA ObjectMade ==
    ASSUME NEW d, Rooted(d), NEW p \in Path, p # <<>>, NEW object,
           p \in DOMAIN d => d[p].type # "dir",
           \A y \in Path : y # <<>> /\ StrictlyInside(y, p) => y \in DOMAIN d /\ d[y].type = "dir"
    PROVE  LET n == WithObject(d, p, object) IN
           /\ DOMAIN n = DOMAIN d \cup {p}
           /\ n[p] = object
           /\ \A x \in DOMAIN d : x # p => n[x] = d[x]
           /\ Rooted(n)
<1> DEFINE n == WithObject(d, p, object)
<1>1. DOMAIN n = DOMAIN d \cup {p} /\ n[p] = object /\ \A x \in DOMAIN d : x # p => n[x] = d[x]
  BY DEF WithObject
<1> HIDE DEF n
<1>2. ASSUME NEW x \in DOMAIN n, NEW y \in Path, y # <<>>, StrictlyInside(y, x)
      PROVE  y \in DOMAIN n /\ n[y].type = "dir"
  <2>1. y \in DOMAIN d /\ d[y].type = "dir"
    BY <1>1, <1>2 DEF Rooted
  <2> QED BY <1>1, <2>1
<1>3. \A x \in DOMAIN n : x \in Path /\ x # <<>>
  BY <1>1 DEF Rooted
<1> QED BY <1>1, <1>2, <1>3 DEF Rooted, n

-----------------------------------------------------------------------------
(* What holds as Untar reads.                                              *)

Laid == tar \ unread
SizedOf(S) == {AsFile(e) : e \in {f \in S : f.path \notin {<<>>, BadName} /\ f.type = "file"}}
Stands(d, S) ==
    \A e \in S :
        /\ e.path # BadName
        /\ e.path # <<>> =>
             /\ e.type # "other"
             /\ e.type = "link" => e.path \in DOMAIN d /\ d[e.path].type = "link"
             /\ e.type = "file" => WrittenThrough \/ (e.path \in DOMAIN d /\ d[e.path].type = "file")
Going == unpacked \in {"reading", "done"}

DiskShape ==
    /\ unread \subseteq tar
    /\ written \in 0 .. MaxBytes
    /\ unpacked \in {"reading", "done", "path", "kind", "large", "entries", "io"}
    /\ chart \in {"none", "handed", "removed", "not unpacked"}
    /\ IsFiniteSet(DOMAIN disk)
ChartInv ==
    /\ chart # "not unpacked" => Plain(tar)
    /\ chart = "not unpacked" => unpacked = "reading"
    /\ chart = "handed" => unpacked = "done" /\ Cardinality(TopLevel) = 1
GoingInv ==
    /\ unpacked = "done" => unread = {}
    /\ Going => /\ Stands(disk, Laid)
                /\ Cardinality(Laid) <= MaxEntries
                /\ written = Bytes(SizedOf(Laid))
RefusedInv ==
    /\ unpacked = "entries" => Cardinality(tar) > MaxEntries
    /\ unpacked = "large" => Bytes(Sized) > MaxBytes
    /\ unpacked = "io" => Conflict
    /\ unpacked = "path" => \E e \in tar : e.path = BadName \/ (e.type = "link" /\ e.path # <<>> /\ ~LinkStaysInside(e))
    /\ unpacked = "kind" => \E e \in tar : e.type = "other" /\ e.path \notin {<<>>, BadName}
DiskInv == DiskShape /\ Disk(Laid) /\ ChartInv /\ GoingInv /\ RefusedInv

AtHand(e) ==
    /\ DiskInv /\ unpacked = "reading" /\ chart = "none"
    /\ e \in unread /\ unread' = unread \ {e}
    /\ UNCHANGED vars /\ chart' = chart

LEMMA TarUnmoved ==
    ASSUME tar' = tar
    PROVE  /\ WrittenThrough' = WrittenThrough /\ Sized' = Sized /\ Conflict' = Conflict
           /\ \A p, object, S : MadeFor(p, object, S)' = MadeFor(p, object, S)
           /\ \A d, S : Stands(d, S)' = Stands(d, S)
<1>1. WrittenThrough' = WrittenThrough
  BY DEF WrittenThrough
<1>2. Sized' = Sized /\ Conflict' = Conflict
  BY DEF Sized, Conflict, AsFile
<1> QED BY <1>1, <1>2 DEF MadeFor, Stands

LEMMA AtHandIs ==
    ASSUME NEW e, AtHand(e)
    PROVE  /\ e \in tar /\ e \notin Laid /\ Laid' = Laid \cup {e} /\ Laid \cup {e} \subseteq tar /\ tar' = tar
           /\ Plain(tar) /\ Disk(Laid) /\ Stands(disk, Laid)
           /\ IsFiniteSet(tar) /\ IsFiniteSet(Laid)
           /\ Cardinality(Laid) \in Nat /\ Counted(e) = Cardinality(Laid \cup {e})
           /\ Cardinality(Laid \cup {e}) <= Cardinality(tar) /\ Cardinality(tar) \in Nat
           /\ written = Bytes(SizedOf(Laid))
           /\ e.path # BadName => e.path \in Path /\ PointsTo(e) \in Path
<1>1. /\ DiskInv /\ unpacked = "reading" /\ chart = "none" /\ e \in unread /\ unread' = unread \ {e} /\ tar' = tar
  BY DEF AtHand, vars
<1>2. unread \subseteq tar /\ Disk(Laid) /\ Plain(tar) /\ Stands(disk, Laid) /\ written = Bytes(SizedOf(Laid))
  BY <1>1 DEF DiskInv, DiskShape, ChartInv, GoingInv, Going
<1>3. e \in tar /\ e \notin Laid /\ Laid' = Laid \cup {e} /\ Laid \cup {e} \subseteq tar
  BY <1>1, <1>2 DEF Laid
<1>4. tar \in Tars /\ IsFiniteSet(tar)
  BY <1>2, TarFinite DEF Disk
<1>5. IsFiniteSet(Laid) /\ Cardinality(Laid) \in Nat /\ Cardinality(Laid \cup {e}) = Cardinality(Laid) + 1
  BY <1>3, <1>4, FS_Subset, FS_AddElement, FS_CardinalityType
<1>6. Cardinality(Laid \cup {e}) <= Cardinality(tar) /\ Cardinality(tar) \in Nat
  BY <1>3, <1>4, FS_Subset, FS_CardinalityType
<1>7. Counted(e) = Cardinality(Laid \cup {e})
  BY <1>5 DEF Counted, Laid
<1> QED BY <1>1, <1>2, <1>3, <1>4, <1>5, <1>6, <1>7, EntryIs

LEMMA SizedIs ==
    ASSUME tar \in Tars, NEW S, S \subseteq tar
    PROVE  /\ IsFiniteSet(SizedOf(S)) /\ Weighed(SizedOf(S)) /\ Bytes(SizedOf(S)) \in Nat
           /\ SizedOf(S) \subseteq Sized /\ SizedOf(tar) = Sized
           /\ Bytes(SizedOf(S)) <= Bytes(Sized) /\ Bytes(Sized) \in Nat
           /\ \A e \in tar \ S : e.type = "file" /\ e.path \notin {<<>>, BadName} =>
                Bytes(SizedOf(S \cup {e})) = Bytes(SizedOf(S)) + e.size
           /\ \A e : ~(e.type = "file" /\ e.path \notin {<<>>, BadName}) => SizedOf(S \cup {e}) = SizedOf(S)
<1>1. \A e : AsFile(e).from = e
  BY DEF AsFile
<1>2. \A T \in SUBSET tar : IsFiniteSet(SizedOf(T)) /\ Weighed(SizedOf(T))
  <2> SUFFICES ASSUME NEW T, T \subseteq tar PROVE IsFiniteSet(SizedOf(T)) /\ Weighed(SizedOf(T))
    OBVIOUS
  <2> DEFINE F == {f \in T : f.path \notin {<<>>, BadName} /\ f.type = "file"}
             g == [f \in F |-> AsFile(f)]
  <2>1. IsFiniteSet(F)
    <3>1. F \subseteq tar /\ IsFiniteSet(tar)
      BY TarFinite
    <3> QED BY <3>1, FS_Subset
  <2>2. DOMAIN g = F /\ g = [f \in F |-> g[f]] /\ SizedOf(T) = {g[f] : f \in F}
    BY DEF SizedOf
  <2>3. IsFiniteSet(SizedOf(T))
    <3> HIDE DEF g, F
    <3> QED BY <2>1, <2>2, ImageFinite
  <2>4. ASSUME NEW f \in SizedOf(T) PROVE f.from.size \in Nat
    <3>1. PICK h \in T : f = AsFile(h)
      BY DEF SizedOf
    <3> QED BY <1>1, <3>1, EntryIs
  <2> QED BY <2>3, <2>4 DEF Weighed
<1>3. SizedOf(S) \subseteq Sized /\ SizedOf(tar) = Sized
  BY DEF SizedOf, Sized
<1>4. /\ IsFiniteSet(SizedOf(S)) /\ Weighed(SizedOf(S))
      /\ IsFiniteSet(Sized) /\ Weighed(Sized)
  BY <1>2, <1>3
<1>5. Bytes(SizedOf(S)) \in Nat /\ Bytes(SizedOf(S)) <= Bytes(Sized) /\ Bytes(Sized) \in Nat
  BY <1>3, <1>4, WeighMore
<1>6. ASSUME NEW e \in tar, e \notin S, e.type = "file", e.path \notin {<<>>, BadName}
      PROVE  Bytes(SizedOf(S \cup {e})) = Bytes(SizedOf(S)) + e.size
  <2> DEFINE f == AsFile(e)
  <2>1. SizedOf(S \cup {e}) = SizedOf(S) \cup {f}
    BY <1>6 DEF SizedOf
  <2>2. f.from = e
    BY <1>1
  <2>3. f \notin SizedOf(S)
    <3> SUFFICES ASSUME f \in SizedOf(S) PROVE FALSE
      OBVIOUS
    <3>1. PICK h \in S : f = AsFile(h)
      BY DEF SizedOf
    <3> QED BY <1>1, <1>6, <3>1
  <2>4. f.from.size \in Nat /\ f.from.size = e.size
    BY <2>2, EntryIs
  <2> HIDE DEF f
  <2> QED BY <1>4, <2>1, <2>3, <2>4, WeighAdd
<1>7. \A e : ~(e.type = "file" /\ e.path \notin {<<>>, BadName}) => SizedOf(S \cup {e}) = SizedOf(S)
  BY DEF SizedOf
<1> QED BY <1>3, <1>4, <1>5, <1>6, <1>7

LEMMA NoError ==
    ASSUME NEW e, AtHand(e), UntarError(e) = "none"
    PROVE  /\ e.path # BadName /\ Counted(e) <= MaxEntries
           /\ e.path # <<>> =>
                /\ e.type # "other"
                /\ e.type = "dir" => CanMake(e.path)
                /\ e.type = "link" => CanMake(Parent(e.path)) /\ e.path \notin DOMAIN disk
                /\ e.type = "file" => written + e.size <= MaxBytes /\ CanWrite(e.path)
<1>1. Counted(e) \in Nat /\ MaxEntries \in Nat /\ MaxBytes \in Nat /\ written \in Nat /\ e.size \in Nat
  <2>1. Counted(e) \in Nat /\ e \in tar /\ Disk(Laid)
    <3>1. Cardinality(Laid) \in Nat /\ e \in tar /\ Disk(Laid)
      BY AtHandIs
    <3> QED BY <3>1 DEF Counted, Laid
  <2>2. written \in Nat
    BY LimitsAssumption DEF AtHand, DiskInv, DiskShape
  <2> QED BY <2>1, <2>2, LimitsAssumption, EntryIs DEF Disk
<1>2. Counted(e) <= MaxEntries \/ Counted(e) > MaxEntries
  BY <1>1
<1>3. Counted(e) <= MaxEntries
  BY <1>1, <1>2 DEF UntarError
<1>4. ~(Counted(e) > MaxEntries)
  BY <1>1, <1>3
<1>5. e.path # BadName
  BY <1>3, <1>4 DEF UntarError
<1>6. ASSUME e.path # <<>>, e.type \in {"other", "dir", "link", "file"}
      PROVE  /\ e.type # "other"
             /\ e.type = "dir" => CanMake(e.path)
             /\ e.type = "link" => CanMake(Parent(e.path)) /\ e.path \notin DOMAIN disk
             /\ e.type = "file" => ~(written + e.size > MaxBytes) /\ CanWrite(e.path)
  BY <1>3, <1>4, <1>5, <1>6 DEF UntarError
<1>7. ~(written + e.size > MaxBytes) => written + e.size <= MaxBytes
  BY <1>1
<1> QED BY <1>3, <1>5, <1>6, <1>7

(* Whatever an entry read leads to, if all before stays and it stands.     *)
LEMMA Lays ==
    ASSUME NEW e, AtHand(e), UntarError(e) = "none", unpacked' = unpacked,
           Rooted(disk'), IsFiniteSet(DOMAIN disk'),
           \A x \in DOMAIN disk' : MadeFor(x, disk'[x], Laid \cup {e}),
           \A x \in DOMAIN disk : x \in DOMAIN disk' /\ disk'[x].type = disk[x].type,
           e.path # <<>> =>
               /\ e.type = "link" => e.path \in DOMAIN disk' /\ disk'[e.path].type = "link"
               /\ e.type = "file" => WrittenThrough \/ (e.path \in DOMAIN disk' /\ disk'[e.path].type = "file"),
           written' = IF e.type = "file" /\ e.path # <<>> THEN written + e.size ELSE written
    PROVE  DiskInv'
<1>1. /\ e \in tar /\ e \notin Laid /\ Laid' = Laid \cup {e} /\ Laid \cup {e} \subseteq tar /\ tar' = tar
      /\ Plain(tar) /\ Disk(Laid) /\ Stands(disk, Laid)
      /\ Counted(e) = Cardinality(Laid \cup {e})
      /\ written = Bytes(SizedOf(Laid))
  BY AtHandIs
<1>2. /\ e.path # BadName /\ Counted(e) <= MaxEntries
      /\ e.path # <<>> => e.type # "other" /\ (e.type = "file" => written + e.size <= MaxBytes)
  BY NoError
<1>3. /\ unpacked' = "reading" /\ chart' = "none" /\ unread' \subseteq tar /\ tar \in Tars
      /\ written \in 0 .. MaxBytes
  BY <1>1 DEF AtHand, DiskInv, DiskShape, Disk
<1>4. \A S : SizedOf(S)' = SizedOf(S)
  BY DEF SizedOf, AsFile
<1>5. written' = Bytes(SizedOf(Laid \cup {e})) /\ written' \in 0 .. MaxBytes
  <2>1. written' = Bytes(SizedOf(Laid \cup {e}))
    <3>1. Laid \subseteq tar /\ e \in tar \ Laid
      BY <1>1 DEF Laid
    <3>2. CASE e.type = "file" /\ e.path # <<>>
      BY <1>1, <1>2, <1>3, <3>1, <3>2, SizedIs
    <3>3. CASE ~(e.type = "file" /\ e.path # <<>>)
      BY <1>1, <1>2, <1>3, <3>1, <3>3, SizedIs
    <3> QED BY <3>2, <3>3
  <2>2. e.size \in Nat
    BY <1>1, <1>3, EntryIs
  <2> QED BY <1>2, <1>3, <2>1, <2>2, LimitsAssumption
<1>6. DiskShape'
  BY <1>3, <1>5, <1>1 DEF DiskShape
<1>7. Disk(Laid)'
  <2>1. WrittenThrough' = WrittenThrough
    BY <1>1, TarUnmoved
  <2>2. (\A x \in DOMAIN disk : MadeFor(x, disk[x], Laid))'
    BY <1>1, <2>1 DEF MadeFor
  <2>3. Rooted(disk)'
    BY DEF Rooted
  <2> QED BY <1>1, <1>3, <2>2, <2>3 DEF Disk
<1>8. ChartInv'
  BY <1>1, <1>3 DEF ChartInv, Plain
<1>9. Stands(disk, Laid)'
  <2>1. Stands(disk', Laid \cup {e})
    <3>1. ASSUME NEW f \in Laid
          PROVE  /\ f.path # BadName
                 /\ f.path # <<>> =>
                      /\ f.type # "other"
                      /\ f.type = "link" => f.path \in DOMAIN disk' /\ disk'[f.path].type = "link"
                      /\ f.type = "file" => WrittenThrough \/ (f.path \in DOMAIN disk' /\ disk'[f.path].type = "file")
      BY <1>1 DEF Stands
    <3> QED BY <1>2, <3>1 DEF Stands
  <2> QED BY <1>1, <2>1, TarUnmoved
<1>10. GoingInv'
  <2>1. Bytes(SizedOf(Laid))' = Bytes(SizedOf(Laid \cup {e}))
    BY <1>1, <1>4 DEF Bytes
  <2>2. Cardinality(Laid)' <= MaxEntries
    BY <1>1, <1>2
  <2> QED BY <1>3, <1>5, <1>9, <2>1, <2>2 DEF GoingInv, Going
<1>11. RefusedInv'
  BY <1>3 DEF RefusedInv
<1> QED BY <1>6, <1>7, <1>8, <1>10, <1>11 DEF DiskInv

LEMMA PassStep ==
    ASSUME NEW e, AtHand(e), PassOver(e)
    PROVE  DiskInv'
<1>1. /\ UntarError(e) = "none" /\ unpacked' = unpacked /\ disk' = disk /\ written' = written
      /\ e.path = <<>> \/ e.type = "header"
  BY DEF PassOver
<1>2. Disk(Laid) /\ IsFiniteSet(DOMAIN disk)
  BY AtHandIs DEF AtHand, DiskInv, DiskShape
<1>3. \A x \in DOMAIN disk : MadeFor(x, disk[x], Laid \cup {e})
  BY <1>2, MadeForMore DEF Disk
<1> QED BY <1>1, <1>2, <1>3, Lays DEF Disk

LEMMA DirStep ==
    ASSUME NEW e, AtHand(e), MakeDirectory(e)
    PROVE  DiskInv'
<1>1. /\ UntarError(e) = "none" /\ unpacked' = unpacked /\ disk' = WithDirs(e.path) /\ written' = written
      /\ e.path # <<>> /\ e.type = "dir"
  BY DEF MakeDirectory
<1>2. e \in tar /\ Disk(Laid) /\ Plain(tar) /\ IsFiniteSet(DOMAIN disk)
  BY AtHandIs DEF AtHand, DiskInv, DiskShape
<1>3. e.path # BadName /\ CanMake(e.path) /\ e.path \in Path /\ Inside(e.path, e.path)
  <2>1. e.path # BadName /\ CanMake(e.path)
    BY <1>1, NoError
  <2>2. e.path \in Path
    BY <2>1, AtHandIs
  <2> QED BY <2>1, <2>2, InsideItself
<1>4. /\ DOMAIN disk' = DOMAIN disk \cup Dirs(e.path)
      /\ \A x \in DOMAIN disk : disk'[x] = disk[x]
      /\ Rooted(disk')
      /\ \A x \in DOMAIN disk' : MadeFor(x, disk'[x], Laid \cup {e})
  BY <1>1, <1>2, <1>3, DirsMade DEF Makes
<1>5. IsFiniteSet(DOMAIN disk')
  BY <1>2, <1>3, <1>4, DirsAre, FS_Union
<1> QED BY <1>1, <1>4, <1>5, Lays

LEMMA MadeLinkStep ==
    ASSUME NEW e, AtHand(e), MakeLink(e)
    PROVE  DiskInv'
<1> DEFINE p == Parent(e.path)
           d == WithDirs(p)
           link == [type |-> "link", up |-> e.up, down |-> e.down]
<1>1. /\ UntarError(e) = "none" /\ unpacked' = unpacked /\ written' = written
      /\ disk' = WithObject(d, e.path, link)
      /\ e.path # <<>> /\ e.type = "link"
  BY DEF MakeLink
<1>2. e \in tar /\ Disk(Laid) /\ Plain(tar) /\ IsFiniteSet(DOMAIN disk)
  BY AtHandIs DEF AtHand, DiskInv, DiskShape
<1>3. e.path # BadName /\ CanMake(p) /\ e.path \in Path /\ e.path \notin DOMAIN disk
  <2>1. e.path # BadName /\ CanMake(p) /\ e.path \notin DOMAIN disk
    BY <1>1, NoError
  <2> QED BY <2>1, AtHandIs
<1>4. /\ p \in Path /\ StrictlyInside(p, e.path) /\ Inside(p, e.path)
      /\ \A q \in Path : StrictlyInside(q, e.path) => Inside(q, p)
  BY <1>1, <1>3, ParentIs DEF StrictlyInside
<1>5. e.path \notin Dirs(p)
  BY <1>3, <1>4, DirsAre, InsideBoth DEF StrictlyInside
<1> HIDE DEF p
<1>6. /\ DOMAIN d = DOMAIN disk \cup Dirs(p)
      /\ \A x \in DOMAIN disk : d[x] = disk[x]
      /\ \A x \in Dirs(p) : x # e.path => d[x].type = "dir"
      /\ Rooted(d)
      /\ \A x \in DOMAIN d : MadeFor(x, d[x], Laid \cup {e})
  BY <1>1, <1>2, <1>3, <1>4, DirsMade DEF Makes
<1> HIDE DEF d
<1>7. \A y \in Path : y # <<>> /\ StrictlyInside(y, e.path) => y \in DOMAIN d /\ d[y].type = "dir"
  BY <1>4, <1>5, <1>6, DirsAre
<1>8. e.path \notin DOMAIN d
  BY <1>3, <1>5, <1>6
<1>9. link.type = "link" /\ link.up = e.up /\ link.down = e.down
  OBVIOUS
<1> HIDE DEF link
<1>10. /\ DOMAIN disk' = DOMAIN d \cup {e.path}
       /\ disk'[e.path] = link
       /\ \A x \in DOMAIN d : x # e.path => disk'[x] = d[x]
       /\ Rooted(disk')
  <2>1. e.path \in Path /\ e.path # <<>> /\ Rooted(d)
    BY <1>1, <1>3, <1>6
  <2> DEFINE n == WithObject(d, e.path, link)
  <2>2. /\ DOMAIN n = DOMAIN d \cup {e.path}
        /\ n[e.path] = link
        /\ \A x \in DOMAIN d : x # e.path => n[x] = d[x]
        /\ Rooted(n)
    BY <1>7, <1>8, <2>1, ObjectMade
  <2> QED BY <1>1, <2>2
<1>11. IsFiniteSet(DOMAIN disk')
  <2>1. IsFiniteSet(DOMAIN disk \cup Dirs(p))
    BY <1>2, <1>4, DirsAre, FS_Union
  <2> QED BY <1>6, <1>10, <2>1, FS_AddElement
<1>12. MadeFor(e.path, link, Laid \cup {e})
  BY <1>1, <1>3, <1>9 DEF MadeFor
<1>13. \A x \in DOMAIN disk' : MadeFor(x, disk'[x], Laid \cup {e})
  BY <1>6, <1>10, <1>12
<1>14. \A x \in DOMAIN disk : x \in DOMAIN disk' /\ disk'[x].type = disk[x].type
  BY <1>3, <1>6, <1>10
<1>15. e.path \in DOMAIN disk' /\ disk'[e.path].type = "link"
  BY <1>9, <1>10
<1> QED BY <1>1, <1>10, <1>11, <1>13, <1>14, <1>15, Lays

(* In a Plain tar a link on an entry's path is of the entry's own name.    *)
LEMMA LinkInItsPlace ==
    ASSUME NEW S, Disk(S), Plain(tar), NEW e \in tar, e.path # BadName, LinkOn(e.path)
    PROVE  /\ DiskLink(e.path)
           /\ \E l \in S : l.type = "link" /\ l.path = e.path
<1>1. PICK l \in DOMAIN disk : disk[l].type = "link" /\ Inside(l, e.path)
  BY DEF LinkOn, DiskLink
<1>2. MadeFor(l, disk[l], S) /\ S \subseteq tar
  BY DEF Disk
<1>3. PICK f \in S : f.type = "link" /\ f.path # BadName /\ f.path = l
  BY <1>1, <1>2 DEF MadeFor
<1>4. f.path = e.path
  BY <1>1, <1>2, <1>3 DEF Plain, StrictlyInside
<1> QED BY <1>1, <1>3, <1>4 DEF DiskLink

LEMMA FileStepOnDisk ==
    ASSUME NEW e, AtHand(e), WriteFile(e)
    PROVE  DiskInv'
<1> DEFINE p == Parent(e.path)
           q == Follow(e.path)
           d == WithDirs(p)
           file == [type |-> "file", from |-> e]
<1>1. /\ UntarError(e) = "none" /\ unpacked' = unpacked /\ written' = written + e.size
      /\ disk' = WithObject(d, q, file)
      /\ e.path # <<>> /\ e.type = "file"
  BY DEF WriteFile
<1>2. e \in tar /\ Disk(Laid) /\ Rooted(disk) /\ Plain(tar) /\ IsFiniteSet(DOMAIN disk)
  BY AtHandIs DEF AtHand, DiskInv, DiskShape, Disk
<1>3. e.path # BadName /\ CanWrite(e.path) /\ e.path \in Path
  <2>1. e.path # BadName /\ CanWrite(e.path)
    BY <1>1, NoError
  <2> QED BY <2>1, AtHandIs
<1>4. /\ CanMake(p) /\ q # Loops /\ ~IsDirectory(q)
      /\ IsFile(q) \/ q = e.path \/ IsDirectory(Parent(q))
  BY <1>3 DEF CanWrite
<1>5. /\ p \in Path /\ StrictlyInside(p, e.path) /\ Inside(p, e.path)
      /\ \A x \in Path : StrictlyInside(x, e.path) => Inside(x, p)
  BY <1>1, <1>3, ParentIs DEF StrictlyInside
<1>6. e.path \notin Dirs(p)
  BY <1>3, <1>5, DirsAre, InsideBoth DEF StrictlyInside
<1>7. q \in Path /\ ~LinkOn(q) /\ q # <<>>
  BY <1>2, <1>3, <1>4, DiskFollows DEF IsDirectory
<1>8. q = e.path \/ (DiskLink(e.path) /\ WrittenThrough)
  <2>1. CASE ~LinkOn(e.path)
    BY <1>2, <1>3, <2>1, DiskFollows
  <2>2. CASE LinkOn(e.path)
    <3>1. DiskLink(e.path) /\ \E l \in Laid : l.type = "link" /\ l.path = e.path
      BY <1>2, <1>3, <2>2, LinkInItsPlace
    <3> QED BY <1>1, <1>2, <1>3, <3>1 DEF WrittenThrough, Laid
  <2> QED BY <2>1, <2>2
<1> HIDE DEF p, q
<1>9. /\ DOMAIN d = DOMAIN disk \cup Dirs(p)
      /\ \A x \in DOMAIN disk : d[x] = disk[x]
      /\ \A x \in Dirs(p) : x # e.path => d[x].type = "dir"
      /\ Rooted(d)
      /\ \A x \in DOMAIN d : MadeFor(x, d[x], Laid \cup {e})
  BY <1>1, <1>2, <1>3, <1>4, <1>5, DirsMade DEF Makes
<1> HIDE DEF d
<1>10. q \in DOMAIN disk => disk[q].type = "file"
  <2> SUFFICES ASSUME q \in DOMAIN disk PROVE disk[q].type = "file"
    OBVIOUS
  <2>1. disk[q].type \in Makes /\ disk[q].type # "dir"
    BY <1>2, <1>4, WhatIsThere
  <2>2. disk[q].type # "link"
    <3>1. Inside(q, q)
      BY <1>7, InsideItself
    <3> QED BY <1>7, <3>1 DEF LinkOn, DiskLink
  <2> QED BY <2>1, <2>2 DEF Makes
<1>11. q \in Dirs(p) => q \in DOMAIN disk
  <2> SUFFICES ASSUME q \in Dirs(p) PROVE q \in DOMAIN disk
    OBVIOUS
  <2>1. e.path \in DOMAIN disk
    BY <1>6, <1>8 DEF DiskLink
  <2>2. Inside(q, p) /\ q # e.path
    BY <1>5, <1>6, DirsAre
  <2>3. StrictlyInside(q, e.path)
    BY <1>3, <1>5, <1>7, <2>2, PathDown DEF StrictlyInside
  <2> QED BY <1>2, <1>7, <2>1, <2>3 DEF Rooted
<1>12. q \in DOMAIN d => d[q].type # "dir"
  BY <1>9, <1>10, <1>11
<1>13. ASSUME NEW y \in Path, y # <<>>, StrictlyInside(y, q)
       PROVE  y \in DOMAIN d /\ d[y].type = "dir"
  <2>1. CASE q = e.path
    <3>1. y \in Dirs(p)
      BY <1>5, <1>13, <2>1, DirsAre
    <3> QED BY <1>6, <1>9, <3>1
  <2>2. CASE IsFile(q)
    BY <1>2, <1>9, <1>13, <2>2 DEF IsFile, Rooted
  <2>3. CASE IsDirectory(Parent(q))
    <3>1. Parent(q) \in Path /\ Inside(y, Parent(q))
      BY <1>7, <1>13, ParentIs
    <3>2. Parent(q) # <<>>
      <4> SUFFICES ASSUME Parent(q) = <<>> PROVE FALSE
        OBVIOUS
      <4>1. Inside(<<>>, y)
        <5>1. Len(y) \in Nat /\ Len(<<>>) = 0 /\ SubSeq(y, 1, 0) = <<>>
          BY LenProperties, SubSeqEmpty DEF Path
        <5> QED BY <5>1 DEF Inside, IsPathPrefix
      <4>2. y = <<>>
        BY <3>1, <4>1, PathEmpty, InsideBoth
      <4> QED BY <1>13, <4>2
    <3>3. Parent(q) \in DOMAIN disk /\ disk[Parent(q)].type = "dir"
      BY <2>3, <3>2 DEF IsDirectory
    <3>4. y \in DOMAIN disk /\ disk[y].type = "dir"
      BY <1>2, <1>13, <3>1, <3>3 DEF Rooted, StrictlyInside
    <3> QED BY <1>9, <3>4
  <2> QED BY <1>4, <2>1, <2>2, <2>3
<1>14. file.type = "file" /\ file.from = e
  OBVIOUS
<1> HIDE DEF file
<1>15. /\ DOMAIN disk' = DOMAIN d \cup {q}
       /\ disk'[q] = file
       /\ \A x \in DOMAIN d : x # q => disk'[x] = d[x]
       /\ Rooted(disk')
  <2>1. Rooted(d)
    BY <1>9
  <2> DEFINE n == WithObject(d, q, file)
  <2>2. /\ DOMAIN n = DOMAIN d \cup {q}
        /\ n[q] = file
        /\ \A x \in DOMAIN d : x # q => n[x] = d[x]
        /\ Rooted(n)
    BY <1>7, <1>12, <1>13, <2>1, ObjectMade
  <2> QED BY <1>1, <2>2
<1>16. IsFiniteSet(DOMAIN disk')
  <2>1. IsFiniteSet(DOMAIN disk \cup Dirs(p))
    BY <1>2, <1>5, DirsAre, FS_Union
  <2> QED BY <1>9, <1>15, <2>1, FS_AddElement
<1>17. MadeFor(q, file, Laid \cup {e})
  BY <1>1, <1>3, <1>8, <1>14 DEF MadeFor
<1>18. \A x \in DOMAIN disk' : MadeFor(x, disk'[x], Laid \cup {e})
  BY <1>9, <1>15, <1>17
<1>19. \A x \in DOMAIN disk : x \in DOMAIN disk' /\ disk'[x].type = disk[x].type
  BY <1>9, <1>10, <1>14, <1>15
<1>20. WrittenThrough \/ (e.path \in DOMAIN disk' /\ disk'[e.path].type = "file")
  BY <1>8, <1>14, <1>15
<1> QED BY <1>1, <1>15, <1>16, <1>18, <1>19, <1>20, Lays

LEMMA SomeError ==
    ASSUME NEW e, AtHand(e), NEW why, why = UntarError(e), why # "none"
    PROVE  /\ why \in {"path", "kind", "large", "entries", "io"}
           /\ why = "entries" => Cardinality(tar) > MaxEntries
           /\ why = "large" => Bytes(Sized) > MaxBytes
           /\ why = "io" => Conflict
           /\ why = "path" => e.path = BadName \/ (e.type = "link" /\ e.path # <<>> /\ ~LinkStaysInside(e))
           /\ why = "kind" => e.type = "other" /\ e.path \notin {<<>>, BadName}
<1>1. /\ e \in tar /\ e \notin Laid /\ Laid \cup {e} \subseteq tar /\ Disk(Laid) /\ IsEntry(e) /\ tar \in Tars
      /\ e.size \in Nat
  BY AtHandIs, EntryIs DEF Disk
<1>2. Counted(e) \in Nat /\ MaxEntries \in Nat /\ MaxBytes \in Nat /\ written \in Nat
  <2>1. Cardinality(Laid) \in Nat
    BY AtHandIs
  <2>2. written \in Nat
    BY LimitsAssumption DEF AtHand, DiskInv, DiskShape
  <2> QED BY <2>1, <2>2, LimitsAssumption DEF Counted, Laid
<1>3. CASE Counted(e) > MaxEntries
  <2>1. why = "entries"
    BY <1>2, <1>3 DEF UntarError
  <2>2. Cardinality(tar) > MaxEntries
    <3>1. Counted(e) <= Cardinality(tar) /\ Cardinality(tar) \in Nat
      BY AtHandIs
    <3> QED BY <1>2, <1>3, <3>1
  <2> QED BY <2>1, <2>2
<1>4. CASE Counted(e) <= MaxEntries /\ e.path = BadName
  <2>1. ~(Counted(e) > MaxEntries)
    BY <1>2, <1>4
  <2>2. why = "path"
    BY <1>4, <2>1 DEF UntarError
  <2> QED BY <1>4, <2>2
<1>5. CASE Counted(e) <= MaxEntries /\ e.path # BadName
  <2>1. ~(Counted(e) > MaxEntries)
    BY <1>2, <1>5
  <2>2. e.path # <<>>
    BY <1>5, <2>1 DEF UntarError
  <2>3. e.path \in Path /\ Parent(e.path) \in Path /\ Inside(Parent(e.path), e.path) /\ Inside(e.path, e.path)
    <3>1. e.path \in Path
      BY <1>1, <1>5, EntryIs
    <3> QED BY <2>2, <3>1, ParentIs, InsideItself DEF StrictlyInside
  <2>4. why = CASE e.type = "header" -> "none"
                [] e.type = "other" -> "kind"
                [] e.type = "dir" -> IF CanMake(e.path) THEN "none" ELSE "io"
                [] e.type = "link" ->
                     IF ~LinkStaysInside(e) THEN "path"
                     ELSE IF CanMake(Parent(e.path)) /\ e.path \notin DOMAIN disk THEN "none" ELSE "io"
                [] e.type = "file" ->
                     IF written + e.size > MaxBytes THEN "large"
                     ELSE IF CanWrite(e.path) THEN "none" ELSE "io"
    BY <1>5, <2>1, <2>2 DEF UntarError
  <2>5. CASE e.type = "header"
    BY <2>4, <2>5
  <2>6. CASE e.type = "other"
    BY <1>5, <2>2, <2>4, <2>6
  <2>7. CASE e.type = "dir"
    <3>1. why = "io" /\ ~CanMake(e.path)
      BY <2>4, <2>7
    <3> QED BY <1>1, <1>5, <2>3, <2>7, <3>1, CannotMake DEF Makes
  <2>8. CASE e.type = "link"
    <3>1. \/ why = "path" /\ ~LinkStaysInside(e)
          \/ why = "io" /\ (~CanMake(Parent(e.path)) \/ e.path \in DOMAIN disk)
      <4>1. why = IF ~LinkStaysInside(e) THEN "path"
                  ELSE IF CanMake(Parent(e.path)) /\ e.path \notin DOMAIN disk THEN "none" ELSE "io"
        BY ONLY <2>4, <2>8
      <4> QED BY <4>1
    <3>2. ~CanMake(Parent(e.path)) => Conflict
      BY <1>1, <1>5, <2>3, <2>8, CannotMake DEF Makes
    <3>3. e.path \in DOMAIN disk => Conflict
      BY <1>1, <1>5, <2>8, ConflictUnder
    <3> QED BY <2>2, <2>8, <3>1, <3>2, <3>3
  <2>9. CASE e.type = "file"
    <3>1. (why = "large" /\ written + e.size > MaxBytes) \/ (why = "io" /\ ~CanWrite(e.path))
      <4>1. why = IF written + e.size > MaxBytes THEN "large" ELSE IF CanWrite(e.path) THEN "none" ELSE "io"
        BY ONLY <2>4, <2>9
      <4> QED BY <4>1
    <3>2. ~CanWrite(e.path) => Conflict
      BY <1>1, <1>5, <2>2, <2>9, CannotWrite
    <3>3. written + e.size > MaxBytes => Bytes(Sized) > MaxBytes
      <4>1. written = Bytes(SizedOf(Laid))
        BY AtHandIs
      <4>2. Bytes(SizedOf(Laid \cup {e})) = Bytes(SizedOf(Laid)) + e.size
        BY <1>1, <1>5, <2>2, <2>9, SizedIs
      <4>3. Bytes(SizedOf(Laid \cup {e})) <= Bytes(Sized) /\ Bytes(Sized) \in Nat
        BY <1>1, SizedIs
      <4> QED BY <1>1, <1>2, <4>1, <4>2, <4>3
    <3> QED BY <3>1, <3>2, <3>3
  <2> QED BY <1>1, <2>5, <2>6, <2>7, <2>8, <2>9 DEF IsEntry
<1> QED BY <1>2, <1>3, <1>4, <1>5

LEMMA RefuseUnpackStep ==
    ASSUME NEW e, AtHand(e), RefuseToUnpack(e)
    PROVE  DiskInv'
<1>1. UntarError(e) # "none" /\ unpacked' = UntarError(e) /\ disk' = disk /\ written' = written
  BY DEF RefuseToUnpack
<1>2. /\ e \in tar /\ Laid' = Laid \cup {e} /\ Laid \cup {e} \subseteq tar /\ tar' = tar
      /\ Plain(tar) /\ Disk(Laid)
  BY AtHandIs
<1>3. /\ chart' = "none" /\ unread' \subseteq tar /\ written \in 0 .. MaxBytes /\ IsFiniteSet(DOMAIN disk)
  BY DEF AtHand, DiskInv, DiskShape
<1>4. /\ unpacked' \in {"path", "kind", "large", "entries", "io"}
      /\ unpacked' = "entries" => Cardinality(tar) > MaxEntries
      /\ unpacked' = "large" => Bytes(Sized) > MaxBytes
      /\ unpacked' = "io" => Conflict
      /\ unpacked' = "path" => e.path = BadName \/ (e.type = "link" /\ e.path # <<>> /\ ~LinkStaysInside(e))
      /\ unpacked' = "kind" => e.type = "other" /\ e.path \notin {<<>>, BadName}
  BY <1>1, SomeError
<1>5. DiskShape'
  BY <1>1, <1>2, <1>3, <1>4 DEF DiskShape
<1>6. Disk(Laid)'
  <2>1. WrittenThrough' = WrittenThrough
    BY <1>2, TarUnmoved
  <2>2. \A x \in DOMAIN disk : MadeFor(x, disk[x], Laid \cup {e})
    BY <1>2, MadeForMore DEF Disk
  <2>3. (\A x \in DOMAIN disk : MadeFor(x, disk[x], Laid))'
    BY <1>1, <1>2, <2>1, <2>2 DEF MadeFor
  <2>4. Rooted(disk)'
    BY <1>1, <1>2 DEF Rooted, Disk
  <2> QED BY <1>2, <2>3, <2>4 DEF Disk
<1>7. ChartInv'
  BY <1>2, <1>3 DEF ChartInv, Plain
<1>8. GoingInv'
  BY <1>4 DEF GoingInv, Going
<1>9. RefusedInv'
  <2>1. Sized' = Sized /\ Conflict' = Conflict
    BY <1>2, TarUnmoved
  <2>2. Bytes(Sized)' = Bytes(Sized)
    BY <2>1 DEF Bytes
  <2> QED BY <1>2, <1>4, <2>1, <2>2 DEF RefusedInv, LinkStaysInside
<1> QED BY <1>5, <1>6, <1>7, <1>8, <1>9 DEF DiskInv

LEMMA EntryStepOnDisk ==
    ASSUME DiskInv, UntarEntry
    PROVE  DiskInv'
<1>1. PICK e \in unread : /\ unread' = unread \ {e}
                          /\ RefuseToUnpack(e) \/ PassOver(e) \/ MakeDirectory(e) \/ MakeLink(e) \/ WriteFile(e)
  BY DEF UntarEntry
<1>2. AtHand(e)
  BY <1>1 DEF AtHand, UntarEntry
<1> QED BY <1>1, <1>2, RefuseUnpackStep, PassStep, DirStep, MadeLinkStep, FileStepOnDisk

(* What does not touch the tar nor what is on disk.                        *)
LEMMA DiskStays ==
    ASSUME DiskInv, tar' = tar, disk' = disk, unread' = unread, written' = written
    PROVE  /\ Disk(Laid)' /\ TopLevel' = TopLevel /\ Laid' = Laid
           /\ Stands(disk, Laid)' = Stands(disk, Laid)
           /\ Bytes(SizedOf(Laid))' = Bytes(SizedOf(Laid))
           /\ (unpacked' = unpacked => RefusedInv')
           /\ Plain(tar)' = Plain(tar)
           /\ IsFiniteSet(DOMAIN disk)'
<1>1. Laid' = Laid /\ WrittenThrough' = WrittenThrough
  BY TarUnmoved DEF Laid
<1>2. Disk(Laid)'
  <2>1. Disk(Laid)
    BY DEF DiskInv
  <2>2. (\A x \in DOMAIN disk : MadeFor(x, disk[x], Laid))'
    BY <1>1, <2>1 DEF MadeFor, Disk
  <2>3. Rooted(disk)'
    BY <2>1 DEF Rooted, Disk
  <2> QED BY <1>1, <2>1, <2>2, <2>3 DEF Disk
<1>3. TopLevel' = TopLevel /\ Plain(tar)' = Plain(tar) /\ IsFiniteSet(DOMAIN disk)'
  BY DEF TopLevel, Plain, DiskInv, DiskShape
<1>4. Stands(disk, Laid)' = Stands(disk, Laid)
  BY <1>1 DEF Stands
<1>5. Bytes(SizedOf(Laid))' = Bytes(SizedOf(Laid))
  BY <1>1 DEF Bytes, SizedOf, AsFile
<1>6. ASSUME unpacked' = unpacked PROVE RefusedInv'
  <2>1. Sized' = Sized /\ Conflict' = Conflict
    BY TarUnmoved
  <2>2. Bytes(Sized)' = Bytes(Sized)
    BY <2>1 DEF Bytes
  <2> QED BY <1>6, <2>1, <2>2 DEF DiskInv, RefusedInv, LinkStaysInside
<1> QED BY <1>1, <1>2, <1>3, <1>4, <1>5, <1>6

LEMMA EndStep ==
    ASSUME DiskInv, UntarEnds
    PROVE  DiskInv'
<1>1. /\ unpacked = "reading" /\ unread = {} /\ unpacked' = "done"
      /\ tar' = tar /\ disk' = disk /\ unread' = unread /\ written' = written /\ chart' = chart /\ chart = "none"
  BY DEF UntarEnds, vars
<1>2. /\ Disk(Laid)' /\ Laid' = Laid
      /\ Stands(disk, Laid)' = Stands(disk, Laid)
      /\ Bytes(SizedOf(Laid))' = Bytes(SizedOf(Laid))
      /\ Plain(tar)' = Plain(tar) /\ IsFiniteSet(DOMAIN disk)'
  BY <1>1, DiskStays
<1>3. DiskShape'
  BY <1>1, <1>2 DEF DiskInv, DiskShape
<1>4. ChartInv'
  BY <1>1, <1>2 DEF DiskInv, ChartInv
<1>5. GoingInv'
  <2>1. Stands(disk, Laid) /\ Cardinality(Laid) <= MaxEntries /\ written = Bytes(SizedOf(Laid))
    BY <1>1 DEF DiskInv, GoingInv, Going
  <2>2. Stands(disk, Laid)' /\ (Cardinality(Laid) <= MaxEntries)' /\ (written = Bytes(SizedOf(Laid)))'
    BY <1>1, <1>2, <2>1
  <2>3. unread' = {}
    BY <1>1
  <2> QED BY <2>2, <2>3 DEF GoingInv
<1>6. RefusedInv'
  BY <1>1 DEF RefusedInv
<1> QED BY <1>2, <1>3, <1>4, <1>5, <1>6 DEF DiskInv

LEMMA ChartStep ==
    ASSUME DiskInv, UNCHANGED <<tar, disk, unread, written, unpacked>>, chart' = chart \/ UnpackChart
    PROVE  DiskInv'
<1>1. tar' = tar /\ disk' = disk /\ unread' = unread /\ written' = written /\ unpacked' = unpacked
  OBVIOUS
<1>2. /\ Disk(Laid)' /\ Laid' = Laid /\ TopLevel' = TopLevel
      /\ Stands(disk, Laid)' = Stands(disk, Laid)
      /\ Bytes(SizedOf(Laid))' = Bytes(SizedOf(Laid))
      /\ Plain(tar)' = Plain(tar) /\ IsFiniteSet(DOMAIN disk)' /\ RefusedInv'
  BY <1>1, DiskStays
<1>3. DiskShape'
  BY <1>1, <1>2 DEF DiskInv, DiskShape, UnpackChart
<1>4. ChartInv'
  BY <1>1, <1>2 DEF DiskInv, ChartInv, UnpackChart
<1>5. GoingInv'
  <2>1. /\ Stands(disk, Laid) => Stands(disk, Laid)'
        /\ Cardinality(Laid) <= MaxEntries => (Cardinality(Laid) <= MaxEntries)'
        /\ written = Bytes(SizedOf(Laid)) => (written = Bytes(SizedOf(Laid)))'
    BY <1>1, <1>2
  <2> QED BY <1>1, <2>1 DEF DiskInv, GoingInv, Going
<1> QED BY <1>2, <1>3, <1>4, <1>5 DEF DiskInv

LEMMA TarNeverMoves == Next => tar' = tar
BY DEF Next, ReadEntry, SkipEntry, RefuseEntry, ReadFile, ReadLink, Refuse, StartLinks, ResolveLink, ResolveInner,
       Expand, ReturnFromExpand, LinksReplaced, CheckFile, FinishLinks

LEMMA UntarStarts == UntarInit => IInv /\ DiskInv
<1> SUFFICES ASSUME UntarInit PROVE IInv /\ DiskInv
  OBVIOUS
<1>1. /\ Init /\ DOMAIN disk = {} /\ unread = tar /\ written = 0 /\ unpacked = "reading"
      /\ chart = IF Plain(tar) THEN "none" ELSE "not unpacked"
  BY DEF UntarInit
<1>2. IInv /\ tar \in Tars
  BY <1>1, InitHolds DEF Init
<1>3. Laid = {} /\ SizedOf({}) = {}
  BY <1>1 DEF Laid, SizedOf
<1>4. Bytes({}) = 0 /\ Cardinality({}) = 0 /\ IsFiniteSet({})
  <2>1. UNION {{f} \X (1 .. f.from.size) : f \in {}} = {}
    OBVIOUS
  <2> QED BY <2>1, FS_EmptySet DEF Bytes
<1>5. DiskShape
  <2>1. unread \subseteq tar /\ written \in 0 .. MaxBytes
    <3>1. 0 \in 0 .. MaxBytes
      BY LimitsAssumption
    <3> QED BY <1>1, <3>1
  <2>2. IsFiniteSet(DOMAIN disk)
    BY <1>1, <1>4
  <2>3. chart \in {"none", "handed", "removed", "not unpacked"}
    BY <1>1
  <2> QED BY <1>1, <2>1, <2>2, <2>3 DEF DiskShape
<1>6. Disk(Laid)
  BY <1>1, <1>2, <1>3 DEF Disk, Rooted
<1>7. ChartInv
  BY <1>1 DEF ChartInv
<1>8. GoingInv
  <2>1. Stands(disk, {})
    BY DEF Stands
  <2>2. 0 <= MaxEntries
    BY LimitsAssumption
  <2>3. written = Bytes(SizedOf(Laid)) /\ Cardinality(Laid) <= MaxEntries
    BY <1>1, <1>3, <1>4, <2>2
  <2> QED BY <1>1, <1>3, <2>1, <2>3 DEF GoingInv
<1>9. RefusedInv
  BY <1>1 DEF RefusedInv
<1> QED BY <1>2, <1>5, <1>6, <1>7, <1>8, <1>9 DEF DiskInv

LEMMA UntarStepHolds == IInv /\ DiskInv /\ [UntarNext]_allVars => IInv' /\ DiskInv'
<1> SUFFICES ASSUME IInv, DiskInv, [UntarNext]_allVars PROVE IInv' /\ DiskInv'
  OBVIOUS
<1>1. CASE UntarEntry
  <2>1. UNCHANGED vars
    BY <1>1 DEF UntarEntry
  <2> QED BY <1>1, <2>1, EntryStepOnDisk, StillHolds
<1>2. CASE UntarEnds
  <2>1. UNCHANGED vars
    BY <1>2 DEF UntarEnds
  <2> QED BY <1>2, <2>1, EndStep, StillHolds
<1>3. CASE UnpackChart
  <2>1. UNCHANGED vars
    BY <1>3 DEF UnpackChart
  <2>2. UNCHANGED <<tar, disk, unread, written, unpacked>>
    BY <1>3 DEF UnpackChart, vars
  <2> QED BY <1>3, <2>1, <2>2, ChartStep, StillHolds
<1>4. CASE Next /\ UNCHANGED untarVars
  <2>1. UNCHANGED <<tar, disk, unread, written, unpacked>> /\ chart' = chart
    BY <1>4, TarNeverMoves DEF untarVars
  <2> QED BY <1>4, <2>1, ChartStep, StepHolds
<1>5. CASE UNCHANGED allVars
  <2>1. UNCHANGED vars
    BY <1>5 DEF allVars
  <2>2. UNCHANGED <<tar, disk, unread, written, unpacked>> /\ chart' = chart
    BY <1>5 DEF allVars, vars, untarVars
  <2> QED BY <2>1, <2>2, ChartStep, StillHolds
<1> QED BY <1>1, <1>2, <1>3, <1>4, <1>5 DEF UntarNext

-----------------------------------------------------------------------------
(* The two readers agree.                                                  *)

LEMMA DiskTypes == IInv /\ DiskInv => UntarTypeOK
<1> SUFFICES ASSUME IInv, DiskInv PROVE UntarTypeOK
  OBVIOUS
<1>1. NormalizeTypeOK
  BY TypesGive DEF IInv
<1>2. Disk(Laid) /\ DiskShape
  BY DEF DiskInv
<1>3. ASSUME NEW p \in DOMAIN disk
      PROVE  p \in Seq(Name) \ {<<>>} /\ IsDirectory(Parent(p)) /\ disk[p].type \in {"dir", "file", "link"}
  <2>1. p \in Path /\ p # <<>> /\ disk[p].type \in {"dir", "file", "link"} /\ Rooted(disk)
    BY <1>2, WhatIsThere DEF Makes, Disk
  <2>2. Parent(p) \in Path /\ StrictlyInside(Parent(p), p)
    BY <2>1, ParentIs
  <2>3. IsDirectory(Parent(p))
    BY <2>1, <2>2 DEF IsDirectory, Rooted
  <2> QED BY <2>1, <2>3 DEF Path
<1> QED BY <1>1, <1>2, <1>3 DEF UntarTypeOK, DiskShape

LEMMA CapsHold ==
    ASSUME DiskInv, unpacked = "done"
    PROVE  Cardinality(tar) <= MaxEntries /\ Bytes(Sized) <= MaxBytes
<1>1. Laid = tar
  BY DEF DiskInv, GoingInv, Laid
<1>2. Cardinality(Laid) <= MaxEntries /\ written = Bytes(SizedOf(Laid)) /\ written \in 0 .. MaxBytes /\ tar \in Tars
  BY DEF DiskInv, GoingInv, Going, DiskShape, Disk
<1>3. SizedOf(tar) = Sized
  BY <1>2, SizedIs
<1> QED BY <1>1, <1>2, <1>3, LimitsAssumption

LEMMA RefusesMore == IInv /\ DiskInv => RefusedMore
<1> SUFFICES ASSUME IInv, DiskInv, status = "done" PROVE RefusedMore
  BY DEF RefusedMore
<1>1. (\A e \in tar : e.path # BadName) /\ (\A e \in Kept : e.type # "other") /\ ~Escaping
  BY DoneIsTheTree DEF IInv, AcceptedHasNoFault
<1>2. ASSUME unpacked = "path" PROVE \E e \in tar : Dropped(e) /\ e.type \in {"link", "other"}
  <2>1. PICK e \in tar : e.path = BadName \/ (e.type = "link" /\ e.path # <<>> /\ ~LinkStaysInside(e))
    BY <1>2 DEF DiskInv, RefusedInv
  <2>2. e \notin KeptLinks
    BY <1>1, <2>1 DEF Escaping
  <2> QED BY <1>1, <2>1, <2>2 DEF KeptLinks, Kept
<1>3. ASSUME unpacked = "kind" PROVE \E e \in tar : Dropped(e) /\ e.type \in {"link", "other"}
  <2>1. PICK e \in tar : e.type = "other" /\ e.path \notin {<<>>, BadName}
    BY <1>3 DEF DiskInv, RefusedInv
  <2> QED BY <1>1, <2>1 DEF Kept
<1> QED BY <1>2, <1>3 DEF RefusedMore, DiskInv, RefusedInv

(* Both have read the tar, and no name in it is both a link and a file.    *)
Both == IInv /\ DiskInv /\ unpacked = "done" /\ status = "done" /\ ~WrittenThrough

LEMMA BothAre ==
    ASSUME Both
    PROVE  /\ TypeInv /\ ReadInv /\ LateInv /\ LinksAgree /\ ~Repeated
           /\ tar \in Tars /\ Disk(tar) /\ Stands(disk, tar) /\ Plain(tar)
           /\ \A e \in Kept : e.path # BadName /\ e.path # <<>> /\ e \in tar
           /\ \A e \in KeptLinks : DiskLink(e.path)
           /\ \A e \in KeptFiles : IsFile(e.path)
<1>1. TypeInv /\ ReadInv /\ LateInv /\ Late /\ tar \in Tars
  BY DEF Both, IInv, Late, TypeInv
<1>2. LinksAgree /\ ~Repeated
  BY <1>1, LateFacts
<1>3. Laid = tar /\ Plain(tar)
  BY DEF Both, DiskInv, GoingInv, Laid, ChartInv
<1>4. Disk(tar) /\ Stands(disk, tar)
  BY <1>3 DEF Both, DiskInv, GoingInv, Going
<1>5. \A e \in Kept : e.path # BadName /\ e.path # <<>> /\ e \in tar
  BY DEF Kept, Dropped
<1>6. \A e \in KeptLinks : DiskLink(e.path)
  BY <1>4, <1>5 DEF KeptLinks, Stands, DiskLink
<1>7. \A e \in KeptFiles : IsFile(e.path)
  BY <1>4, <1>5 DEF KeptFiles, Stands, IsFile, Both
<1> QED BY <1>1, <1>2, <1>3, <1>4, <1>5, <1>6, <1>7

(* What is on disk under a name that is kept is the entry of that name.    *)
LEMMA SameEntry ==
    ASSUME Both, NEW p \in DOMAIN disk, p \in Clean
    PROVE  /\ IsFile(p) => /\ disk[p].from \in KeptFiles /\ disk[p].from.path = p
                           /\ \A e \in KeptFiles : e.path = p => disk[p].from = e
           /\ DiskLink(p) => p \in DOMAIN links /\ DiskLinks[p] = links[p]
<1>1. Disk(tar) /\ MadeFor(p, disk[p], tar) /\ p # <<>> /\ LinksAgree /\ ~Repeated /\ p \in Path
  BY BothAre DEF Disk, Rooted
<1>2. ~IsIgnored(p)
  <2>1. DOMAIN p = 1 .. Len(p) /\ \A i \in 1 .. Len(p) : p[i] \in Name \ IgnoredNames
    BY ElementOfSeq, LenProperties DEF Clean
  <2> QED BY <2>1 DEF IsIgnored
<1>3. ASSUME NEW e \in tar, e.path = p, e.path # BadName PROVE e \in Kept
  BY <1>1, <1>2, <1>3 DEF Kept, Dropped
<1>4. ASSUME IsFile(p)
      PROVE  /\ disk[p].from \in KeptFiles /\ disk[p].from.path = p
             /\ \A e \in KeptFiles : e.path = p => disk[p].from = e
  <2>1. disk[p].type = "file"
    BY <1>4 DEF IsFile
  <2> DEFINE f == disk[p].from
  <2>2. f \in tar /\ f.type = "file" /\ f.path # BadName /\ f.path = p
    BY <1>1, <2>1 DEF MadeFor, Both
  <2> HIDE DEF f
  <2>3. f \in KeptFiles
    BY <1>3, <2>2 DEF KeptFiles
  <2>4. \A e \in KeptFiles : e.path = p => f = e
    BY <1>1, <2>2, <2>3 DEF Repeated
  <2> QED BY <2>2, <2>3, <2>4 DEF f
<1>5. ASSUME DiskLink(p) PROVE p \in DOMAIN links /\ DiskLinks[p] = links[p]
  <2>1. PICK e \in tar : e.type = "link" /\ e.path # BadName /\ e.path = p /\ DiskLinks[p] = PointsTo(e)
    BY <1>1, <1>5, DiskLinksAre
  <2>2. e \in KeptLinks
    BY <1>3, <2>1 DEF KeptLinks
  <2> QED BY <1>1, <2>1, <2>2 DEF LinksAgree
<1> QED BY <1>4, <1>5

LEMMA BothMean ==
    ASSUME Both
    PROVE  ~Overlaid /\ ~Blocked /\ Least = Filed
<1>1. Disk(tar) /\ Plain(tar) /\ (\A e \in Kept : e.path # BadName /\ e.path # <<>> /\ e \in tar)
  BY BothAre
<1>2. ~Overlaid
  BY <1>1 DEF Overlaid, KeptLinks, KeptFiles, Plain
<1>3. ~Blocked
  <2> SUFFICES ASSUME NEW f \in KeptFiles, NEW e \in KeptFiles \cup KeptLinks, StrictlyInside(f.path, e.path)
               PROVE  FALSE
    BY DEF Blocked
  <2>1. IsFile(f.path) /\ e.path \in DOMAIN disk
    BY BothAre DEF IsFile, DiskLink
  <2>2. f.path \in DOMAIN disk /\ disk[f.path].type = "file" /\ Rooted(disk)
    BY <1>1, <2>1 DEF IsFile, Disk
  <2>3. disk[f.path].type = "dir"
    BY <2>1, <2>2, NothingBelow
  <2> QED BY <2>2, <2>3
<1> QED BY <1>2, <1>3, BothAre, AllFiled DEF Both

(* Links on disk lead to what the tar means at their paths.                *)
LEMMA LeadsThere ==
    ASSUME Both, NEW p \in Path, NEW e \in KeptFiles, At(p, e) \in Least, LinkedAt(p, DiskLinks) # {}
    PROVE  FollowFirst(p, DiskLinks) \in Path /\ At(FollowFirst(p, DiskLinks), e) \in Least
<1>1. /\ tar \in Tars /\ Disk(tar) /\ LinksAgree /\ ~Repeated /\ ~Overlaid /\ Least = Filed
      /\ \A f \in Filed : f.path \in Clean
  BY BothAre, BothMean DEF TypeInv
<1>2. OnPaths(DiskLinks) /\ \A l : l \in DOMAIN DiskLinks <=> DiskLink(l)
  BY <1>1, DiskLinksAre
<1>3. PICK l \in DOMAIN DiskLinks, x \in Path : p = l \o x /\ FollowFirst(p, DiskLinks) = DiskLinks[l] \o x
  BY <1>2, FirstFollowed
<1>4. l \in Path /\ DiskLinks[l] \in Path
  BY <1>2 DEF OnPaths
<1>5. p \in Clean
  <2>1. At(p, e).path = p
    BY AtInUniverse
  <2> QED BY <1>1, <2>1
<1>6. l \in Clean
  <2>1. l \o x \in Clean
    BY <1>3, <1>5
  <2>2. Len(l) \in Nat /\ Len(x) \in Nat /\ \A i \in 1 .. Len(l) : (l \o x)[i] = l[i] /\ i \in 1 .. Len(l \o x)
    BY <1>4, ConcatProperties, LenProperties DEF Path
  <2>3. \A i \in 1 .. Len(l) : l[i] \in Name \ IgnoredNames
    BY <2>1, <2>2, ElementOfSeq DEF Clean
  <2>4. SubSeq(l, 1, Len(l)) \in Seq(Name \ IgnoredNames)
    <3>1. 1 \in Int /\ Len(l) \in Int
      BY <2>2
    <3> QED BY <2>3, <3>1, SubSeqProperties
  <2> QED BY <1>4, <2>4, SubSeqFull DEF Clean, Path
<1>7. l \in DOMAIN links /\ DiskLinks[l] = links[l]
  <2>1. DiskLink(l) /\ l \in DOMAIN disk
    BY <1>2 DEF DiskLink
  <2> QED BY <1>6, <2>1, SameEntry
<1>8. Carries(Least, links[l], l)
  BY <1>1, <1>7, LinkBrings
<1>9. Carries(Least, l, links[l])
  BY <1>1, <1>7, LinkCarries
<1>10. At(links[l] \o x, e) \in Least
  BY <1>3, <1>8 DEF Carries
<1> QED BY <1>3, <1>4, <1>7, <1>10, PathCat

LEMMA ReadThere ==
    ASSUME Both, NEW f \in Filed, Follow(f.path) # Loops
    PROVE  IsFile(Follow(f.path)) /\ disk[Follow(f.path)].from = f.from
<1>1. /\ tar \in Tars /\ Disk(tar) /\ LinksAgree /\ Least = Filed /\ Filed \subseteq Universe
      /\ \A g \in Filed : g.path \in Clean
      /\ \A k \in KeptLinks : DiskLink(k.path)
      /\ \A k \in KeptFiles : IsFile(k.path)
  BY BothAre, BothMean, FiledCount DEF TypeInv
<1> DEFINE e == f.from
           D == MaxSymlinks
<1>2. f.path \in Path /\ e \in KeptFiles /\ f = At(f.path, e)
  BY <1>1, InUniverse
<1>3. OnPaths(DiskLinks) /\ (\A l : l \in DOMAIN DiskLinks <=> DiskLink(l)) /\ D \in Nat
  BY <1>1, DiskLinksAre, MaxSymlinksAssumption
<1>4. PICK c \in [0 .. D -> Path] :
             /\ c[0] = f.path
             /\ \A i \in 1 .. D :
                  c[i] = IF LinkedAt(c[i - 1], DiskLinks) = {} THEN c[i - 1] ELSE FollowFirst(c[i - 1], DiskLinks)
             /\ Followed(f.path, DiskLinks, D) = IF LinkedAt(c[D], DiskLinks) = {} THEN c[D] ELSE Loops
  <2>1. \E c : Way(c, f.path, DiskLinks, D)
    BY <1>2, <1>3, FollowedIs
  <2> QED BY <2>1 DEF Way
<1> HIDE DEF e
<1>5. \A i \in 0 .. D : At(c[i], e) \in Least
  <2> DEFINE T == {i \in 0 .. D : At(c[i], e) \in Least}
  <2>1. 0 \in T /\ 0 \in Nat
    BY <1>1, <1>2, <1>3, <1>4
  <2>2. ASSUME NEW i \in 0 .. D, i \in T, i < D PROVE i + 1 \in T
    <3>1. i + 1 \in 1 .. D /\ i + 1 - 1 = i /\ i + 1 \in 0 .. D /\ c[i] \in Path
      BY <1>3, <1>4, <2>2
    <3>2. \A h \in 1 .. D :
             /\ LinkedAt(c[h - 1], DiskLinks) = {} => c[h] = c[h - 1]
             /\ LinkedAt(c[h - 1], DiskLinks) # {} => c[h] = FollowFirst(c[h - 1], DiskLinks)
      BY <1>4
    <3>3. /\ LinkedAt(c[i], DiskLinks) = {} => c[i + 1] = c[i]
          /\ LinkedAt(c[i], DiskLinks) # {} => c[i + 1] = FollowFirst(c[i], DiskLinks)
      BY <3>1, <3>2
    <3>4. At(c[i], e) \in Least
      BY <2>2
    <3>5. LinkedAt(c[i], DiskLinks) # {} => At(FollowFirst(c[i], DiskLinks), e) \in Least
      BY <1>2, <3>1, <3>4, LeadsThere
    <3> QED BY <3>1, <3>3, <3>4, <3>5
  <2> HIDE DEF T
  <2>3. \A i \in 0 .. D : i \in T
    BY <1>3, <2>1, <2>2, Upwards
  <2> QED BY <2>3 DEF T
<1> DEFINE p == Follow(f.path)
<1>6. p = c[D] /\ LinkedAt(p, DiskLinks) = {} /\ p \in Path /\ At(p, e) \in Least
  <2>1. D \in 0 .. D /\ p = Followed(f.path, DiskLinks, D) /\ p # Loops
    BY <1>3 DEF Follow
  <2> QED BY <1>4, <1>5, <2>1
<1> HIDE DEF p, D
<1>7. At(p, e) \in Universe /\ At(p, e).path = p /\ At(p, e).from = e
  BY <1>2, <1>6, AtInUniverse
<1>8. LinkedAt(p, links) = {}
  <2>1. OnPaths(links) /\ DOMAIN links = {k.path : k \in KeptLinks}
    BY <1>1, LinksArePaths DEF LinksAgree
  <2>2. \A l \in DOMAIN links : l \in DOMAIN DiskLinks
    BY <1>1, <1>3, <2>1
  <2> QED BY <1>3, <1>6, <2>1, <2>2, LinkedMeans
<1>9. At(p, e) \in Start
  <2> SUFFICES ASSUME At(p, e) \notin Start PROVE FALSE
    OBVIOUS
  <2> DEFINE g == At(p, e)
  <2>1. Inside(p, p)
    BY <1>6, InsideItself
  <2>2. g \in Least /\ g \notin Start /\ g.path = p
    BY <1>6, <1>7
  <2> HIDE DEF g
  <2>3. PICK l \in LinksUnder(p), x \in Path : g = At(l \o x, g.from) /\ g.from \in KeptFiles
    BY <1>1, <1>6, <1>8, <2>1, <2>2, MeantUnder
  <2>4. l \in Path /\ StrictlyInside(p, l)
    BY <1>1, LinksArePaths DEF LinksUnder
  <2>5. p = l \o x
    <3>1. At(l \o x, g.from).path = l \o x
      BY DEF At
    <3> QED BY <2>2, <2>3, <3>1
  <2>6. Inside(l, p)
    BY <2>4, <2>5, PathCat
  <2> QED BY <1>6, <2>4, <2>6, InsideBoth DEF StrictlyInside
<1>10. p = e.path
  BY <1>1, <1>7, <1>9, StartInUniverse
<1>11. IsFile(p) /\ p \in DOMAIN disk /\ p \in Clean
  <2>1. IsFile(p)
    BY <1>1, <1>2, <1>10
  <2>2. p \in Clean
    BY <1>1, <1>6, <1>7
  <2> QED BY <2>1, <2>2 DEF IsFile
<1>12. disk[p].from = e
  BY <1>2, <1>10, <1>11, SameEntry
<1> QED BY <1>11, <1>12 DEF p, e

LEMMA NoneMissing ==
    ASSUME Both, NEW p \in DOMAIN disk, IsFile(p), ~IsIgnored(p)
    PROVE  \E i \in DOMAIN files : files[i].path = p
<1>1. /\ TypeInv /\ LateInv /\ Late /\ Disk(tar)
      /\ p \in Path
  BY BothAre DEF Disk, Rooted, Both, Late
<1>2. Start \subseteq Filed
  BY <1>1 DEF LateInv, HoldInv
<1>3. disk[p].from \in tar /\ disk[p].from.type = "file" /\ disk[p].from.path \notin {<<>>, BadName} /\ disk[p].from.path = p
  <2>1. MadeFor(p, disk[p], tar) /\ disk[p].type = "file"
    BY <1>1 DEF Disk, IsFile
  <2> QED BY <2>1 DEF MadeFor, Both
<1>4. disk[p].from \in KeptFiles
  BY <1>3 DEF KeptFiles, Kept, Dropped
<1>5. AsFile(disk[p].from) \in Filed /\ AsFile(disk[p].from).path = p
  BY <1>2, <1>3, <1>4 DEF Start, AsFile
<1> QED BY <1>5 DEF Filed

LEMMA UnderTheTop ==
    ASSUME Both, NEW f \in Filed
    PROVE  <<f.path[1]>> \in TopLevel
<1>1. /\ tar \in Tars /\ Disk(tar) /\ Rooted(disk) /\ LinksAgree /\ Least = Filed /\ Filed \subseteq Universe
      /\ \A k \in KeptLinks : DiskLink(k.path)
      /\ \A k \in KeptFiles : IsFile(k.path)
  BY BothAre, BothMean, FiledCount DEF Disk
<1>2. f.path \in Path
  BY <1>1, InUniverse
<1>3. PICK y \in DOMAIN disk : Inside(y, f.path)
  <2>1. CASE f \in Start
    <3>1. f.from \in KeptFiles /\ f.path = f.from.path
      BY <1>1, <2>1, StartInUniverse, InUniverse
    <3>2. Inside(f.path, f.path)
      BY <1>2, InsideItself
    <3> QED BY <1>1, <3>1, <3>2 DEF IsFile
  <2>2. CASE f \notin Start
    <3>1. PICK l \in KeptLinks, x \in Path : f = At(l.path \o x, f.from)
      BY <1>1, <2>2, Origin
    <3>2. f.path = l.path \o x /\ l.path \in DOMAIN disk /\ l.path \in Path
      <4>1. At(l.path \o x, f.from).path = l.path \o x
        BY DEF At
      <4>2. l.path \in DOMAIN disk
        BY <1>1 DEF DiskLink
      <4> QED BY <1>1, <3>1, <4>1, <4>2 DEF Rooted
    <3> QED BY <3>2, PathCat
  <2> QED BY <2>1, <2>2
<1>4. y \in Path /\ y # <<>>
  BY <1>1 DEF Rooted
<1>5. /\ Len(y) \in Nat \ {0} /\ Len(f.path) \in Nat /\ Len(y) <= Len(f.path)
      /\ f.path \in Seq(Name) /\ 1 \in 1 .. Len(f.path)
  BY <1>2, <1>3, <1>4, LenProperties, EmptySeq DEF Inside, IsPathPrefix, Path
<1> DEFINE t == <<f.path[1]>>
<1>6. t \in Path /\ t # <<>> /\ Len(t) = 1 /\ Inside(t, f.path)
  <2>1. f.path[1] \in Name
    BY <1>5, ElementOfSeq
  <2>2. t \in Path /\ Len(t) = 1 /\ t # <<>>
    BY <2>1 DEF Path
  <2>3. SubSeq(f.path, 1, 1) = t
    <3> DEFINE s == SubSeq(f.path, 1, 1)
    <3>1. \A i \in 1 .. 1 : f.path[i] \in Name
      BY <2>1
    <3>2. s \in Seq(Name) /\ Len(s) = 1 /\ \A i \in 1 .. 1 : s[i] = f.path[1 + i - 1]
      BY <3>1, SubSeqProperties
    <3>3. t \in Seq(Name) /\ t[1] = f.path[1]
      BY <2>2 DEF Path
    <3>4. \A i \in 1 .. Len(s) : s[i] = t[i]
      BY <3>2, <3>3
    <3> HIDE DEF s, t
    <3> QED BY <2>2, <3>2, <3>3, <3>4, SeqEqual
  <2> QED BY <1>5, <2>2, <2>3 DEF Inside, IsPathPrefix
<1> HIDE DEF t
<1>7. Inside(t, y)
  <2>1. Inside(t, y) \/ Inside(y, t)
    BY <1>2, <1>3, <1>4, <1>6, PathChain
  <2>2. ASSUME Inside(y, t) PROVE Inside(t, y)
    <3>1. Len(y) = Len(t) /\ SubSeq(t, 1, Len(y)) = y
      BY <1>5, <1>6, <2>2 DEF Inside, IsPathPrefix
    <3>2. y = t
      BY <1>6, <3>1, SubSeqFull DEF Path
    <3> QED BY <2>2, <3>2
  <2> QED BY <2>1, <2>2
<1>8. t \in DOMAIN disk
  BY <1>1, <1>3, <1>6, <1>7 DEF Rooted, StrictlyInside
<1> QED BY <1>6, <1>8 DEF TopLevel, t

LEMMA TreesAgree == IInv /\ DiskInv => SameTree
<1> SUFFICES ASSUME IInv, DiskInv, unpacked = "done", status = "done", ~WrittenThrough
             PROVE  /\ \A i \in DOMAIN files :
                         LET p == Follow(files[i].path) IN p # Loops => IsFile(p) /\ disk[p].from = files[i].from
                    /\ \A p \in DOMAIN disk : IsFile(p) /\ ~IsIgnored(p) => \E i \in DOMAIN files : files[i].path = p
                    /\ chart = "handed" => \A i, j \in DOMAIN files : files[i].path[1] = files[j].path[1]
  BY DEF SameTree
<1>1. Both
  BY DEF Both
<1>2. ASSUME NEW i \in DOMAIN files, Follow(files[i].path) # Loops
      PROVE  IsFile(Follow(files[i].path)) /\ disk[Follow(files[i].path)].from = files[i].from
  <2> DEFINE f == files[i]
  <2>1. f \in Filed
    BY DEF Filed
  <2> HIDE DEF f
  <2>2. Follow(f.path) # Loops
    BY <1>2 DEF f
  <2>3. IsFile(Follow(f.path)) /\ disk[Follow(f.path)].from = f.from
    BY <1>1, <2>1, <2>2, ReadThere
  <2> QED BY <2>3 DEF f
<1>3. \A p \in DOMAIN disk : IsFile(p) /\ ~IsIgnored(p) => \E i \in DOMAIN files : files[i].path = p
  BY <1>1, NoneMissing
<1>4. ASSUME chart = "handed", NEW i \in DOMAIN files, NEW j \in DOMAIN files
      PROVE  files[i].path[1] = files[j].path[1]
  <2>1. Cardinality(TopLevel) = 1 /\ IsFiniteSet(TopLevel)
    <3>1. IsFiniteSet(DOMAIN disk) /\ TopLevel \subseteq DOMAIN disk
      BY DEF DiskInv, DiskShape, TopLevel
    <3>2. Cardinality(TopLevel) = 1
      BY <1>4 DEF DiskInv, ChartInv
    <3> QED BY <3>1, <3>2, FS_Subset
  <2>2. PICK top : TopLevel = {top}
    BY <2>1, FS_Singleton
  <2>3. <<files[i].path[1]>> \in TopLevel /\ <<files[j].path[1]>> \in TopLevel
    BY <1>1, UnderTheTop DEF Filed
  <2>4. <<files[i].path[1]>> = <<files[j].path[1]>>
    BY <2>2, <2>3
  <2> QED BY <2>4
<1> QED BY <1>2, <1>3, <1>4

LEMMA BothAlwaysHold == UntarSpec => []IInv /\ []DiskInv
<1>1. UntarInit => IInv /\ DiskInv
  BY UntarStarts
<1>2. IInv /\ DiskInv /\ [UntarNext]_allVars => IInv' /\ DiskInv'
  BY UntarStepHolds
<1> QED BY <1>1, <1>2, PTL DEF UntarSpec

(* What either reader keeps is well formed, whatever tar it is and in      *)
(* whatever order it comes: on disk every object lies in directories, and  *)
(* neither cap is passed.                                                  *)
THEOREM UntarTypes == UntarSpec => []UntarTypeOK
<1>1. IInv /\ DiskInv => UntarTypeOK
  BY DiskTypes
<1> QED BY <1>1, BothAlwaysHold, PTL

(* Untar lays out nothing past the caps, and where it and Normalize both   *)
(* accept an archive they read the same tree out of it; what it alone      *)
(* refuses is for what it alone counts or creates.                         *)
THEOREM TheTwoAgree == UntarSpec => []UntarAgrees
<1>1. IInv /\ DiskInv => UntarAgrees
  BY TreesAgree, RefusesMore, CapsHold DEF UntarAgrees
<1> QED BY <1>1, BothAlwaysHold, PTL

(* Untar does not disturb Normalize: laying an archive out first, or not   *)
(* at all, Normalize does what it does alone, so all that is proved of it  *)
(* holds beside Untar too.                                                 *)
THEOREM NormalizeUndisturbed == UntarSpec => Spec
<1>1. UntarInit => Init
  BY DEF UntarInit
<1>2. [UntarNext]_allVars => [Next]_vars
  BY DEF UntarNext, UntarEntry, UntarEnds, UnpackChart, allVars
<1> QED BY <1>1, <1>2, PTL DEF UntarSpec, Spec

(* Beside Untar an accepted tar is still normalised to the tree it means.  *)
COROLLARY NormalizedBeside == UntarSpec => []NormalizedIsTheTree
BY NormalizeUndisturbed, NormalizeIsTheTree

(* And is still refused only for a fault that fits the refusal.            *)
COROLLARY VerdictBeside == UntarSpec => []VerdictIsOfTheTree
BY NormalizeUndisturbed, NormalizeVerdict
=============================================================================
