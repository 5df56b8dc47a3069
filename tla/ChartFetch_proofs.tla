------------------------- MODULE ChartFetch_proofs -------------------------
(***************************************************************************)
(* What holds of a chart packed from any working copy: however charts nest *)
(* and name each other, whatever was under charts/ already, and, where the *)
(* downloads are followed, whatever surrounds them.                        *)
(*                                                                         *)
(* The disk never changes, so what the proofs say about it is said of a    *)
(* world w, and of a stage and frames that are named: the steps then only  *)
(* put the names together.                                                 *)
(***************************************************************************)
EXTENDS ChartFetch, Paths_proofs

Path == Seq(Name)
FrameSet == [src : Path \ {<<>>}, at : Path, next : Nat]

World(w) ==
    /\ RootChart \in DOMAIN w
    /\ \A d \in DOMAIN w : d \in Path /\ d # <<>> /\ Chart(w[d])
IsChartDir(e) == e = [from |-> e.from, tgz |-> e.tgz]
Staged(w, st) == \A p \in DOMAIN st : p \in Path /\ IsChartDir(st[p]) /\ st[p].from \in DOMAIN w

ChartOn(w, d) == d \in DOMAIN w /\ w[d].chart
ChartAt(w, st, p) == p \in DOMAIN st /\ w[st[p].from].chart

-----------------------------------------------------------------------------
(* Paths.                                                                  *)

LEMMA ConcatOne ==
    ASSUME NEW p \in Path, NEW n \in Name
    PROVE  /\ p \o <<n>> \in Path /\ Len(p \o <<n>>) = Len(p) + 1
           /\ (p \o <<n>>)[Len(p) + 1] = n
           /\ Inside(p, p \o <<n>>)
<1>1. <<n>> \in Seq(Name) /\ Len(<<n>>) = 1 /\ <<n>>[1] = n
  OBVIOUS
<1>2. Inside(p, p \o <<n>>)
  BY <1>1, RelOfConcat DEF Path
<1>3. /\ p \o <<n>> \in Seq(Name) /\ Len(p \o <<n>>) = Len(p) + 1
      /\ \A i \in 1 .. Len(p) + 1 : (p \o <<n>>)[i] = IF i <= Len(p) THEN p[i] ELSE <<n>>[i - Len(p)]
  BY <1>1, ConcatProperties DEF Path
<1>4. Len(p) \in Nat
  BY DEF Path
<1>5. Len(p) + 1 \in 1 .. Len(p) + 1 /\ ~(Len(p) + 1 <= Len(p)) /\ Len(p) + 1 - Len(p) = 1
  BY <1>4
<1> QED BY <1>1, <1>2, <1>3, <1>5 DEF Path

LEMMA ConcatThrough ==
    ASSUME NEW p \in Path, NEW n \in Name, NEW y \in Path
    PROVE  <<n>> \o y \in Path /\ (p \o <<n>>) \o y = p \o (<<n>> \o y)
<1>1. <<n>> \in Seq(Name)
  OBVIOUS
<1>2. <<n>> \o y \in Seq(Name)
  BY <1>1, ConcatProperties DEF Path
<1> QED BY <1>1, <1>2, ConcatAssociative DEF Path

LEMMA InsideItself ==
    ASSUME NEW p \in Path
    PROVE  Inside(p, p)
BY SubSeqFull DEF Inside, IsPathPrefix, Path

(* The next name on the way from a directory to one in it.                 *)
LEMMA ChildOf ==
    ASSUME NEW a \in Path, NEW p \in Path, Inside(a, p), a # p
    PROVE  /\ Len(p) >= Len(a) + 1
           /\ p[Len(a) + 1] \in Name
           /\ Inside(a \o <<p[Len(a) + 1]>>, p)
<1> DEFINE x == Rel(a, p)
<1>1. x \in Seq(Name) /\ p = a \o x
  BY InsideSplits DEF Path
<1> HIDE DEF x
<1>2. x # <<>>
  BY <1>1 DEF Path
<1>3. Len(x) \in Nat /\ Len(x) >= 1 /\ Len(a) \in Nat
  BY <1>1, <1>2, EmptySeq DEF Path
<1>4. /\ Len(p) = Len(a) + Len(x)
      /\ \A i \in 1 .. Len(a) + Len(x) : p[i] = IF i <= Len(a) THEN a[i] ELSE x[i - Len(a)]
  BY <1>1, ConcatProperties DEF Path
<1>5. p[Len(a) + 1] = x[1] /\ x[1] \in Name
  <2>1. Len(a) + 1 \in 1 .. Len(a) + Len(x) /\ ~(Len(a) + 1 <= Len(a)) /\ Len(a) + 1 - Len(a) = 1
    BY <1>3
  <2>2. 1 \in 1 .. Len(x)
    BY <1>3
  <2>3. x[1] \in Name
    BY <1>1, <2>2, ElementOfSeq
  <2> QED BY <1>4, <2>1, <2>3
<1>6. x = <<x[1]>> \o Tail(x) /\ Tail(x) \in Seq(Name)
  BY <1>1, <1>2, HeadTailProperties, HeadTailAppend
<1>7. p = (a \o <<x[1]>>) \o Tail(x)
  BY <1>1, <1>5, <1>6, ConcatAssociative DEF Path
<1>8. Inside(a \o <<x[1]>>, (a \o <<x[1]>>) \o Tail(x))
  <2>1. a \o <<x[1]>> \in Seq(Name)
    BY <1>5, ConcatOne DEF Path
  <2> QED BY <1>6, <2>1, RelOfConcat
<1> QED BY <1>3, <1>4, <1>5, <1>7, <1>8

LEMMA ChildSplits ==
    ASSUME NEW a \in Path, NEW n \in Name, NEW p \in Path, Inside(a \o <<n>>, p)
    PROVE  Inside(a, p) /\ a # p /\ Len(p) >= Len(a) + 1 /\ p[Len(a) + 1] = n
<1> DEFINE c == a \o <<n>>
<1>1. c \in Seq(Name) /\ Len(c) = Len(a) + 1 /\ c[Len(a) + 1] = n /\ Inside(a, c)
  BY ConcatOne DEF Path
<1> HIDE DEF c
<1>2. Inside(c, p)
  BY DEF c
<1>3. Inside(a, p)
  BY <1>1, <1>2, InsideTransitive DEF Path
<1>4. Len(p) >= Len(a) + 1 /\ Len(a) \in Nat /\ Len(p) \in Nat /\ SubSeq(p, 1, Len(c)) = c
  BY <1>1, <1>2 DEF Inside, IsPathPrefix, Path
<1>5. a # p
  BY <1>4
<1>6. \A i \in 1 .. Len(c) : SubSeq(p, 1, Len(c))[i] = p[i]
  <2>1. \A i \in 1 .. Len(c) : p[i] \in Name
    BY <1>1, <1>4 DEF Path
  <2>2. 1 \in Int /\ Len(c) \in Int
    BY <1>1, <1>4
  <2>3. \A i \in 1 .. Len(c) - 1 + 1 : SubSeq(p, 1, Len(c))[i] = p[1 + i - 1]
    BY <2>1, <2>2, SubSeqProperties
  <2>4. Len(c) - 1 + 1 = Len(c) /\ \A i \in 1 .. Len(c) : 1 + i - 1 = i
    BY <1>1, <1>4
  <2> QED BY <2>3, <2>4
<1>7. Len(a) + 1 \in 1 .. Len(c)
  BY <1>1, <1>4
<1> QED BY <1>1, <1>3, <1>4, <1>5, <1>6, <1>7

LEMMA OneChild ==
    ASSUME NEW a \in Path, NEW k \in Name, NEW n \in Name, NEW p \in Path,
           Inside(a \o <<k>>, p), Inside(a \o <<n>>, p)
    PROVE  k = n
<1>1. p[Len(a) + 1] = k
  BY ChildSplits
<1>2. p[Len(a) + 1] = n
  BY ChildSplits
<1> QED BY <1>1, <1>2

(* The beginnings of a path from a directory, seen from the top.           *)
LEMMA BeginningOfConcat ==
    ASSUME NEW a \in Path, NEW x \in Path, NEW n \in 0 .. Len(x)
    PROVE  /\ SubSeq(x, 1, n) \in Path
           /\ SubSeq(a \o x, 1, Len(a) + n) = a \o SubSeq(x, 1, n)
<1>1. Len(a) \in Nat /\ Len(x) \in Nat /\ n \in Nat /\ n <= Len(x)
  BY DEF Path
<1>2. SubSeq(x, 1, n) \in Seq(Name) /\ Len(SubSeq(x, 1, n)) = n /\ \A i \in 1 .. n : SubSeq(x, 1, n)[i] = x[i]
  <2>1. \A i \in 1 .. n : x[i] \in Name
    BY <1>1 DEF Path
  <2> QED BY <1>1, <2>1, SubSeqProperties
<1> DEFINE y == SubSeq(x, 1, n)
           l == SubSeq(a \o x, 1, Len(a) + n)
           r == a \o y
<1>3. /\ a \o x \in Seq(Name) /\ Len(a \o x) = Len(a) + Len(x)
      /\ \A i \in 1 .. Len(a) + Len(x) : (a \o x)[i] = IF i <= Len(a) THEN a[i] ELSE x[i - Len(a)]
  BY ConcatProperties DEF Path
<1>4. /\ r \in Seq(Name) /\ Len(r) = Len(a) + n
      /\ \A i \in 1 .. Len(a) + n : r[i] = IF i <= Len(a) THEN a[i] ELSE y[i - Len(a)]
  <2>1. y \in Seq(Name) /\ Len(y) = n
    BY <1>2
  <2> HIDE DEF y
  <2> QED BY <2>1, ConcatProperties DEF Path
<1>5. l \in Seq(Name) /\ Len(l) = Len(a) + n /\ \A i \in 1 .. Len(a) + n : l[i] = (a \o x)[i]
  <2>1. \A i \in 1 .. Len(a) + n : (a \o x)[i] \in Name
    BY <1>1, <1>3
  <2>2. 1 \in Int /\ Len(a) + n \in Int /\ Len(a) + n - 1 + 1 = Len(a) + n
        /\ \A i \in 1 .. Len(a) + n : 1 + i - 1 = i
    BY <1>1
  <2>3. /\ l \in Seq(Name)
        /\ Len(l) = IF 1 <= Len(a) + n THEN Len(a) + n - 1 + 1 ELSE 0
        /\ \A i \in 1 .. Len(a) + n - 1 + 1 : l[i] = (a \o x)[1 + i - 1]
    BY <2>1, <2>2, SubSeqProperties
  <2> QED BY <1>1, <2>2, <2>3
<1>6. ASSUME NEW i \in 1 .. Len(a) + n PROVE l[i] = r[i]
  <2>1. i \in 1 .. Len(a) + Len(x)
    BY <1>1
  <2>2. ~(i <= Len(a)) => i - Len(a) \in 1 .. n
    BY <1>1
  <2>3. l[i] = IF i <= Len(a) THEN a[i] ELSE x[i - Len(a)]
    BY <1>3, <1>5, <2>1
  <2> QED BY <1>2, <1>4, <2>2, <2>3
<1> HIDE DEF l, r
<1>7. l = r
  BY <1>4, <1>5, <1>6, SeqEqual
<1> QED BY <1>2, <1>7 DEF l, r, Path

-----------------------------------------------------------------------------
(* copyTree.                                                               *)

(* st2 is st with the tree at src copied to dst.                           *)
Lands(w, src, dst, p) == \E x \in Path : src \o x \in DOMAIN w /\ p = dst \o x
Copied(w, st, src, dst, st2) ==
    /\ \A p : p \in DOMAIN st2 <=> p \in DOMAIN st \/ Lands(w, src, dst, p)
    /\ \A x \in Path : src \o x \in DOMAIN w =>
          /\ IsChartDir(st2[dst \o x])
          /\ st2[dst \o x].from = IF ChartAt(w, st, dst \o x) /\ ~w[src \o x].chart
                                    THEN st[dst \o x].from ELSE src \o x
          /\ st2[dst \o x].tgz =
               w[src \o x].tgz \cup (IF dst \o x \in DOMAIN st THEN st[dst \o x].tgz ELSE {})
    /\ \A p \in DOMAIN st : ~Lands(w, src, dst, p) => st2[p] = st[p]

LEMMA CopyCopies ==
    ASSUME World(disk), NEW st, NEW src \in Path, NEW dst \in Path
    PROVE  Copied(disk, st, src, dst, Copy(st, src, dst))
<1> DEFINE lands == {dst \o Rel(src, d) : d \in {e \in DOMAIN disk : Inside(src, e)}}
           Landing(p) ==
             LET d == src \o Rel(dst, p) IN
             [from  |-> IF IsChart(st, p) /\ ~disk[d].chart THEN st[p].from ELSE d,
              tgz   |-> disk[d].tgz \cup (IF p \in DOMAIN st THEN st[p].tgz ELSE {})]
<1>1. Copy(st, src, dst) = [p \in DOMAIN st \cup lands |-> IF p \in lands THEN Landing(p) ELSE st[p]]
  BY DEF Copy
<1>2. ASSUME NEW x \in Path, src \o x \in DOMAIN disk
      PROVE  /\ dst \o x \in lands
             /\ IsChartDir(Landing(dst \o x))
             /\ Landing(dst \o x).from =
                  IF ChartAt(disk, st, dst \o x) /\ ~disk[src \o x].chart
                    THEN st[dst \o x].from ELSE src \o x
             /\ Landing(dst \o x).tgz =
                  disk[src \o x].tgz \cup (IF dst \o x \in DOMAIN st THEN st[dst \o x].tgz ELSE {})
  <2>1. Inside(src, src \o x) /\ Rel(src, src \o x) = x /\ Rel(dst, dst \o x) = x
    BY RelOfConcat DEF Path
  <2>2. PICK from : from = IF ChartAt(disk, st, dst \o x) /\ ~disk[src \o x].chart
                             THEN st[dst \o x].from ELSE src \o x
    OBVIOUS
  <2>3. PICK tgz : tgz = disk[src \o x].tgz \cup
                           (IF dst \o x \in DOMAIN st THEN st[dst \o x].tgz ELSE {})
    OBVIOUS
  <2>4. Landing(dst \o x) = [from |-> from, tgz |-> tgz]
    BY <2>1, <2>2, <2>3 DEF IsChart, ChartAt
  <2>5. dst \o x \in lands
    BY <1>2, <2>1
  <2> QED BY <2>2, <2>3, <2>4, <2>5 DEF IsChartDir
<1>3. ASSUME NEW p \in lands PROVE Lands(disk, src, dst, p)
  <2>1. PICK d \in DOMAIN disk : Inside(src, d) /\ p = dst \o Rel(src, d)
    OBVIOUS
  <2>2. d \in Path
    BY DEF World
  <2>3. Rel(src, d) \in Path /\ d = src \o Rel(src, d)
    BY <2>1, <2>2, InsideSplits DEF Path
  <2> QED BY <2>1, <2>3 DEF Lands
<1>4. ASSUME NEW p, Lands(disk, src, dst, p) PROVE p \in lands
  BY <1>2, <1>4 DEF Lands
<1> HIDE DEF lands, Landing
<1>5. \A p : p \in DOMAIN Copy(st, src, dst) <=> p \in DOMAIN st \/ Lands(disk, src, dst, p)
  BY <1>1, <1>3, <1>4
<1>6. ASSUME NEW x \in Path, src \o x \in DOMAIN disk
      PROVE  Copy(st, src, dst)[dst \o x] = Landing(dst \o x)
  BY <1>1, <1>2, <1>6
<1>7. \A p \in DOMAIN st : ~Lands(disk, src, dst, p) => Copy(st, src, dst)[p] = st[p]
  BY <1>1, <1>3
<1> QED BY <1>2, <1>5, <1>6, <1>7 DEF Copied

(* What a copy keeps of what was there.                                    *)
Grows(w, st, st2) ==
    /\ \A p \in DOMAIN st : p \in DOMAIN st2 /\ st[p].tgz \subseteq st2[p].tgz
    /\ \A p : ChartAt(w, st, p) => ChartAt(w, st2, p)

LEMMA CopyGrows ==
    ASSUME NEW w, World(w), NEW st, Staged(w, st), NEW src \in Path, NEW dst \in Path,
           NEW st2, Copied(w, st, src, dst, st2)
    PROVE  /\ Staged(w, st2)
           /\ Grows(w, st, st2)
           /\ \A p \in DOMAIN st : ~Inside(dst, p) => st2[p] = st[p]
           /\ \A p \in DOMAIN st2 : ~Inside(dst, p) => p \in DOMAIN st
<1>1. ASSUME NEW p, Lands(w, src, dst, p)
      PROVE  /\ p \in Path /\ Inside(dst, p)
             /\ IsChartDir(st2[p]) /\ st2[p].from \in DOMAIN w
             /\ p \in DOMAIN st => st[p].tgz \subseteq st2[p].tgz
             /\ ChartAt(w, st, p) => w[st2[p].from].chart
  <2>1. PICK x \in Path : src \o x \in DOMAIN w /\ p = dst \o x
    BY <1>1 DEF Lands
  <2>2. p \in Path /\ Inside(dst, p)
    BY <2>1, RelOfConcat, ConcatProperties DEF Path
  <2>3. /\ IsChartDir(st2[p])
        /\ st2[p].from = IF ChartAt(w, st, p) /\ ~w[src \o x].chart THEN st[p].from ELSE src \o x
        /\ st2[p].tgz = w[src \o x].tgz \cup (IF p \in DOMAIN st THEN st[p].tgz ELSE {})
    BY <2>1 DEF Copied
  <2> QED BY <2>1, <2>2, <2>3 DEF ChartAt, Staged
<1>2. ASSUME NEW p \in DOMAIN st PROVE p \in DOMAIN st2 /\ (~Lands(w, src, dst, p) => st2[p] = st[p])
  BY DEF Copied
<1>3. ASSUME NEW p \in DOMAIN st2, ~Lands(w, src, dst, p) PROVE p \in DOMAIN st /\ st2[p] = st[p]
  BY <1>3 DEF Copied
<1>4. Staged(w, st2)
  BY <1>1, <1>3 DEF Staged
<1>5. Grows(w, st, st2)
  BY <1>1, <1>2 DEF Grows, ChartAt
<1> QED BY <1>1, <1>2, <1>3, <1>4, <1>5

-----------------------------------------------------------------------------
(* A chart and the place it is staged at.                                  *)

(* Charts that are under charts all the way from src are staged at at, as  *)
(* they nest.                                                              *)
Follows(w, st, at, src) ==
    \A x \in Path : (\A n \in 0 .. Len(x) : ChartOn(w, src \o SubSeq(x, 1, n))) =>
        at \o x \in DOMAIN st /\ st[at \o x].from = src \o x

LEMMA BeginningsAgree ==
    ASSUME NEW y \in Path, NEW x \in Path, Inside(y, x), NEW n \in 0 .. Len(y)
    PROVE  n \in 0 .. Len(x) /\ SubSeq(x, 1, n) = SubSeq(y, 1, n)
<1> DEFINE z == Rel(y, x)
<1>1. z \in Path /\ x = y \o z
  BY InsideSplits DEF Path
<1> HIDE DEF z
<1>2. Len(y) \in Nat /\ Len(x) \in Nat /\ Len(y) <= Len(x)
  BY DEF Path, Inside, IsPathPrefix
<1>3. CASE n = 0
  BY <1>2, <1>3, SubSeqEmpty
<1>4. CASE n # 0
  <2>1. 1 \in 1 .. Len(y) /\ n \in 1 .. Len(y)
    BY <1>2, <1>4
  <2> QED BY <1>1, <1>2, <2>1, SubSeqOfConcat1 DEF Path
<1> QED BY <1>3, <1>4

LEMMA FollowsHere ==
    ASSUME NEW w, NEW st, NEW at \in Path, NEW src \in Path, Follows(w, st, at, src), ChartOn(w, src)
    PROVE  at \in DOMAIN st /\ st[at].from = src /\ ChartAt(w, st, at)
<1>1. <<>> \in Path /\ Len(<<>>) = 0
  BY DEF Path
<1>2. at \o <<>> = at /\ src \o <<>> = src
  BY ConcatEmptySeq DEF Path
<1>3. \A n \in 0 .. Len(<<>>) : ChartOn(w, src \o SubSeq(<<>>, 1, n))
  <2>1. \A n \in 0 .. 0 : SubSeq(<<>>, 1, n) = <<>>
    BY SubSeqEmpty
  <2> QED BY <1>1, <1>2, <2>1
<1>4. at \in DOMAIN st /\ st[at].from = src
  BY <1>1, <1>2, <1>3 DEF Follows
<1> QED BY <1>4 DEF ChartAt, ChartOn

(* A copy to a deeper place where no chart was disturbs nothing of it.     *)
LEMMA FollowsCopy ==
    ASSUME NEW w, NEW st, NEW at \in Path, NEW src \in Path, Follows(w, st, at, src),
           NEW dir \in Path, NEW into \in Path, NEW st2, Copied(w, st, dir, into, st2),
           ~ChartAt(w, st, into), Len(at) < Len(into)
    PROVE  Follows(w, st2, at, src)
<1> SUFFICES ASSUME NEW x \in Path, \A n \in 0 .. Len(x) : ChartOn(w, src \o SubSeq(x, 1, n))
             PROVE  at \o x \in DOMAIN st2 /\ st2[at \o x].from = src \o x
  BY DEF Follows
<1> DEFINE p == at \o x
<1>1. p \in DOMAIN st /\ st[p].from = src \o x
  BY DEF Follows
<1>2. ASSUME Lands(w, dir, into, p) PROVE FALSE
  <2>1. p \in Path /\ Inside(at, p) /\ Rel(at, p) = x
    BY RelOfConcat, ConcatProperties DEF Path
  <2>2. Inside(into, p)
    BY <1>2, RelOfConcat DEF Lands, Path
  <2> HIDE DEF p
  <2>3. ~Inside(into, at)
    <3>1. Len(at) \in Nat /\ Len(into) \in Nat
      BY DEF Path
    <3> QED BY <3>1 DEF Inside, IsPathPrefix
  <2>4. Inside(at, into)
    BY <2>1, <2>2, <2>3, InsideIsAChain DEF Path
  <2> DEFINE y == Rel(at, into)
             z == Rel(into, p)
  <2>5. y \in Path /\ into = at \o y
    BY <2>4, InsideSplits DEF Path
  <2>6. z \in Path /\ x = y \o z
    <3>1. z \in Path
      BY <2>1, <2>2, InsideSplits DEF Path
    <3>2. Rel(at, p) = y \o z
      BY <2>1, <2>2, <2>4, InsideTransitive DEF Path
    <3> QED BY <2>1, <3>1, <3>2
  <2> HIDE DEF y, z
  <2>7. Inside(y, x)
    BY <2>5, <2>6, RelOfConcat DEF Path
  <2>8. ASSUME NEW n \in 0 .. Len(y) PROVE ChartOn(w, src \o SubSeq(y, 1, n))
    <3>1. n \in 0 .. Len(x) /\ SubSeq(x, 1, n) = SubSeq(y, 1, n)
      BY <2>5, <2>7, BeginningsAgree
    <3>2. ChartOn(w, src \o SubSeq(x, 1, n))
      BY <3>1
    <3> QED BY <3>1, <3>2
  <2>9. into \in DOMAIN st /\ st[into].from = src \o y
    BY <2>5, <2>8 DEF Follows
  <2>10. ChartOn(w, src \o y)
    <3>1. Len(y) \in 0 .. Len(y) /\ SubSeq(y, 1, Len(y)) = y
      BY <2>5, SubSeqFull DEF Path
    <3> QED BY <2>8, <3>1
  <2> QED BY <2>9, <2>10 DEF ChartAt, ChartOn
<1>3. p \in DOMAIN st2 /\ st2[p] = st[p]
  BY <1>1, <1>2 DEF Copied
<1> QED BY <1>1, <1>3

LEMMA FollowsNew ==
    ASSUME NEW w, NEW st, NEW dir \in Path, NEW into \in Path, NEW st2, Copied(w, st, dir, into, st2)
    PROVE  Follows(w, st2, into, dir)
<1> SUFFICES ASSUME NEW x \in Path, \A n \in 0 .. Len(x) : ChartOn(w, dir \o SubSeq(x, 1, n))
             PROVE  into \o x \in DOMAIN st2 /\ st2[into \o x].from = dir \o x
  BY DEF Follows
<1>1. Len(x) \in 0 .. Len(x) /\ SubSeq(x, 1, Len(x)) = x
  BY SubSeqFull DEF Path
<1>2. ChartOn(w, dir \o x)
  BY <1>1
<1>3. Lands(w, dir, into, into \o x)
  BY <1>2 DEF Lands, ChartOn
<1> QED BY <1>2, <1>3 DEF Copied, ChartOn

LEMMA FollowsDown ==
    ASSUME NEW w, NEW st, NEW at \in Path, NEW src \in Path, Follows(w, st, at, src), ChartOn(w, src),
           NEW n \in Name
    PROVE  Follows(w, st, at \o <<n>>, src \o <<n>>)
<1> SUFFICES ASSUME NEW x \in Path,
                    \A m \in 0 .. Len(x) : ChartOn(w, (src \o <<n>>) \o SubSeq(x, 1, m))
             PROVE  /\ (at \o <<n>>) \o x \in DOMAIN st
                    /\ st[(at \o <<n>>) \o x].from = (src \o <<n>>) \o x
  BY DEF Follows
<1> DEFINE y == <<n>> \o x
<1>1. <<n>> \in Path /\ Len(<<n>>) = 1 /\ Len(x) \in Nat
  BY DEF Path
<1>2. y \in Path /\ Len(y) = 1 + Len(x)
  BY <1>1, ConcatProperties DEF Path
<1>3. (at \o <<n>>) \o x = at \o y /\ (src \o <<n>>) \o x = src \o y
  BY <1>1, ConcatAssociative, SMTT(30) DEF Path
<1>4. ASSUME NEW k \in 0 .. Len(y) PROVE ChartOn(w, src \o SubSeq(y, 1, k))
  <2>1. CASE k = 0
    <3>1. SubSeq(y, 1, k) = <<>>
      BY <2>1, SubSeqEmpty
    <3>2. src \o <<>> = src
      BY ConcatEmptySeq DEF Path
    <3> QED BY <3>1, <3>2
  <2>2. CASE k # 0
    <3>1. PICK m \in 0 .. Len(x) : k = 1 + m
      <4>1. k - 1 \in 0 .. Len(x) /\ k = 1 + (k - 1)
        BY <1>1, <1>2, <2>2
      <4> QED BY <4>1
    <3>2. SubSeq(y, 1, 1 + m) = <<n>> \o SubSeq(x, 1, m) /\ SubSeq(x, 1, m) \in Path
      BY <1>1, BeginningOfConcat
    <3>3. src \o (<<n>> \o SubSeq(x, 1, m)) = (src \o <<n>>) \o SubSeq(x, 1, m)
      <4>1. PICK v \in Seq(Name) : v = SubSeq(x, 1, m)
        BY <3>2 DEF Path
      <4>2. src \o (<<n>> \o v) = (src \o <<n>>) \o v
        <5>1. src \in Seq(Name) /\ <<n>> \in Seq(Name)
          BY <1>1 DEF Path
        <5> QED BY <5>1, ConcatAssociative, SMTT(30)
      <4> QED BY <4>1, <4>2
    <3>4. ChartOn(w, (src \o <<n>>) \o SubSeq(x, 1, m))
      OBVIOUS
    <3>5. SubSeq(y, 1, k) = <<n>> \o SubSeq(x, 1, m)
      BY <3>1, <3>2
    <3> HIDE DEF y
    <3> QED BY <3>3, <3>4, <3>5
  <2> QED BY <2>1, <2>2
<1> HIDE DEF y
<1> QED BY <1>2, <1>3, <1>4 DEF Follows

-----------------------------------------------------------------------------
(* The charts being closed.                                                *)

Depth(stk) == 1 .. Len(stk)
Popped(stk, stk2) == Len(stk2) = Len(stk) - 1 /\ \A i \in Depth(stk2) : stk2[i] = stk[i]
Moved(stk, stk2, next) ==
    /\ Len(stk2) = Len(stk)
    /\ \A i \in Depth(stk) : i # Len(stk) => stk2[i] = stk[i]
    /\ stk2[Len(stk)].src = stk[Len(stk)].src /\ stk2[Len(stk)].at = stk[Len(stk)].at
    /\ stk2[Len(stk)].next = next
Pushed(stk, stk2, f) ==
    /\ Len(stk2) = Len(stk) + 1
    /\ \A i \in Depth(stk) : stk2[i] = stk[i]
    /\ stk2[Len(stk) + 1] = f

LEMMA TopOfStack ==
    ASSUME NEW stk \in Seq(FrameSet), stk # <<>>
    PROVE  /\ Len(stk) \in Nat /\ Len(stk) >= 1 /\ Len(stk) \in Depth(stk)
           /\ stk[Len(stk)] \in FrameSet
<1>1. Len(stk) \in Nat /\ Len(stk) # 0
  BY EmptySeq
<1>2. Len(stk) \in Nat /\ Len(stk) >= 1
  BY <1>1
<1>3. Len(stk) \in 1 .. Len(stk)
  BY <1>2
<1>4. stk[Len(stk)] \in FrameSet
  BY <1>3, ElementOfSeq
<1> QED BY <1>2, <1>3, <1>4 DEF Depth

LEMMA PopStack ==
    ASSUME NEW stk \in Seq(FrameSet), stk # <<>>
    PROVE  LET stk2 == SubSeq(stk, 1, Len(stk) - 1) IN stk2 \in Seq(FrameSet) /\ Popped(stk, stk2)
<1>1. PICK n \in Nat : n + 1 = Len(stk) /\ n = Len(stk) - 1
  <2>1. Len(stk) - 1 \in Nat /\ (Len(stk) - 1) + 1 = Len(stk)
    BY TopOfStack
  <2> QED BY <2>1
<1>2. \A i \in 1 .. n : i \in 1 .. Len(stk) /\ stk[i] \in FrameSet
  <2>1. \A i \in 1 .. n : i \in 1 .. Len(stk)
    BY <1>1
  <2> QED BY <2>1, ElementOfSeq
<1>3. PICK stk2 : stk2 = SubSeq(stk, 1, n)
  OBVIOUS
<1>4. stk2 \in Seq(FrameSet) /\ Len(stk2) = n /\ \A i \in 1 .. n : stk2[i] = stk[i]
  BY <1>2, <1>3, SubSeqProperties
<1> QED BY <1>1, <1>3, <1>4 DEF Popped, Depth

LEMMA MoveStack ==
    ASSUME NEW stk \in Seq(FrameSet), stk # <<>>, NEW next \in Nat
    PROVE  LET stk2 == [stk EXCEPT ![Len(stk)].next = next] IN
           stk2 \in Seq(FrameSet) /\ Moved(stk, stk2, next)
<1>1. PICK n \in Nat : n = Len(stk) /\ n \in 1 .. n /\ stk[n] \in FrameSet
  BY TopOfStack DEF Depth
<1>2. PICK f : f = [stk[n] EXCEPT !.next = next]
  OBVIOUS
<1>3. f \in FrameSet /\ f.src = stk[n].src /\ f.at = stk[n].at /\ f.next = next
  BY <1>1, <1>2 DEF FrameSet
<1>4. [stk EXCEPT ![Len(stk)].next = next] = [stk EXCEPT ![n] = f]
  BY <1>1, <1>2
<1>5. PICK stk2 : stk2 = [stk EXCEPT ![n] = f]
  OBVIOUS
<1>6. stk2 \in Seq(FrameSet) /\ Len(stk2) = n /\ \A i \in 1 .. n : stk2[i] = IF i = n THEN f ELSE stk[i]
  BY <1>1, <1>3, <1>5, ExceptSeq
<1> QED BY <1>1, <1>3, <1>4, <1>5, <1>6 DEF Moved, Depth

LEMMA PushStack ==
    ASSUME NEW stk \in Seq(FrameSet), NEW f \in FrameSet
    PROVE  Append(stk, f) \in Seq(FrameSet) /\ Append(stk, f) # <<>> /\ Pushed(stk, Append(stk, f), f)
BY AppendProperties DEF Pushed, Depth

(* The dependency a frame is at, or was: the names before next are closed. *)
LockOf(w, f) == w[f.src].lock
NameAt(w, f, j) == w[f.src].lock[j].name

(* A chart that is entered has a lock to go through.                       *)
Ready(w, f) ==
    f.next > 0 =>
      /\ ChartOn(w, f.src) /\ w[f.src].deps # <<>> /\ LockOf(w, f) # NoLock
      /\ f.next <= Len(LockOf(w, f)) + 1

(* How the charts being closed nest: each one under the last dependency    *)
(* that the one around it came to.                                         *)
Nest(w, st, stk) ==
    /\ stk \in Seq(FrameSet)
    /\ \A i \in Depth(stk) :
          /\ stk[i].at \in DOMAIN st
          /\ Len(stk[i].at) = i - 1
          /\ Ready(w, stk[i])
          /\ stk[i].next > 0 => i - 1 <= MaxDepth
    /\ \A i, k \in Depth(stk) : i < k =>
          /\ stk[i].next >= 2
          /\ Inside(stk[i].at \o <<NameAt(w, stk[i], stk[i].next - 1)>>, stk[k].at)

(* What a lock entry is.                                                   *)
LEMMA LockEntry ==
    ASSUME NEW w, World(w), NEW src \in DOMAIN w, w[src].lock # NoLock
    PROVE  /\ Len(w[src].lock) \in Nat
           /\ DOMAIN w[src].lock = 1 .. Len(w[src].lock)
           /\ \A j \in 1 .. Len(w[src].lock) :
                 w[src].lock[j].name \in Name /\ IsDependency(w[src].lock[j])
<1>1. AreDependencies(w[src].lock)
  BY DEF World, Chart
<1>2. PICK lock : lock = w[src].lock
  OBVIOUS
<1>3. lock \in Seq({lock[i] : i \in DOMAIN lock})
  BY <1>1, <1>2 DEF AreDependencies
<1>4. Len(lock) \in Nat /\ DOMAIN lock = 1 .. Len(lock)
  BY <1>3, LenProperties
<1>5. \A j \in 1 .. Len(lock) : lock[j].name \in Name /\ IsDependency(lock[j])
  BY <1>1, <1>2, <1>4 DEF AreDependencies, IsDependency
<1> QED BY <1>2, <1>4, <1>5

LEMMA LastNamed ==
    ASSUME NEW w, World(w), NEW f \in FrameSet, Ready(w, f), f.next >= 2
    PROVE  NameAt(w, f, f.next - 1) \in Name
<1>1. f.next \in Nat
  BY DEF FrameSet
<1>2. ChartOn(w, f.src) /\ LockOf(w, f) # NoLock /\ f.next <= Len(LockOf(w, f)) + 1
  BY <1>1 DEF Ready
<1>3. PICK len \in Nat : len = Len(w[f.src].lock)
  BY <1>2, LockEntry DEF ChartOn, LockOf
<1>4. f.next - 1 \in 1 .. len
  BY <1>1, <1>2, <1>3 DEF LockOf
<1> QED BY <1>2, <1>3, <1>4, LockEntry DEF ChartOn, LockOf, NameAt

LEMMA NestPopped ==
    ASSUME NEW w, NEW st, NEW stk, Nest(w, st, stk), stk # <<>>,
           NEW stk2 \in Seq(FrameSet), Popped(stk, stk2)
    PROVE  Nest(w, st, stk2)
<1>1. PICK n \in Nat : n = Len(stk) /\ Len(stk2) = n - 1
  BY TopOfStack DEF Nest, Popped
<1>2. \A i \in Depth(stk2) : i \in Depth(stk) /\ stk2[i] = stk[i]
  BY <1>1 DEF Depth, Popped
<1> QED BY <1>2 DEF Nest

LEMMA NestMoved ==
    ASSUME NEW w, NEW st, NEW stk, Nest(w, st, stk), stk # <<>>, NEW next \in Nat,
           NEW stk2 \in Seq(FrameSet), Moved(stk, stk2, next),
           Ready(w, stk2[Len(stk)]), Len(stk) - 1 <= MaxDepth,
           NEW st2, \A p \in DOMAIN st : p \in DOMAIN st2
    PROVE  Nest(w, st2, stk2)
<1>1. PICK n \in Nat : n = Len(stk) /\ Len(stk2) = n /\ Depth(stk) = 1 .. n /\ Depth(stk2) = 1 .. n
  BY TopOfStack DEF Nest, Moved, Depth
<1>2. ASSUME NEW i \in 1 .. n
      PROVE  stk2[i].at = stk[i].at /\ (i # n => stk2[i] = stk[i])
  BY <1>1 DEF Moved
<1>3. ASSUME NEW i \in 1 .. n
      PROVE  /\ stk2[i].at \in DOMAIN st2 /\ Len(stk2[i].at) = i - 1 /\ Ready(w, stk2[i])
             /\ stk2[i].next > 0 => i - 1 <= MaxDepth
  <2>1. CASE i = n
    BY <1>1, <1>2, <2>1 DEF Nest
  <2>2. CASE i # n
    BY <1>1, <1>2, <2>2 DEF Nest
  <2> QED BY <2>1, <2>2
<1>4. ASSUME NEW i \in 1 .. n, NEW k \in 1 .. n, i < k
      PROVE  stk2[i].next >= 2 /\ Inside(stk2[i].at \o <<NameAt(w, stk2[i], stk2[i].next - 1)>>, stk2[k].at)
  <2>1. i # n
    BY <1>4
  <2>2. stk2[i] = stk[i] /\ stk2[k].at = stk[k].at
    BY <1>2, <2>1
  <2> QED BY <1>1, <1>4, <2>2 DEF Nest
<1> QED BY <1>1, <1>3, <1>4 DEF Nest

LEMMA NestPushed ==
    ASSUME NEW w, World(w), NEW st, Staged(w, st), NEW stk, Nest(w, st, stk), stk # <<>>,
           stk[Len(stk)].next >= 2,
           NEW f \in FrameSet, f.next = 0, f.at \in DOMAIN st,
           f.at = stk[Len(stk)].at \o <<NameAt(w, stk[Len(stk)], stk[Len(stk)].next - 1)>>,
           NEW stk2 \in Seq(FrameSet), Pushed(stk, stk2, f)
    PROVE  Nest(w, st, stk2)
<1>1. PICK n \in Nat \ {0} : /\ n = Len(stk) /\ Len(stk2) = n + 1
                             /\ Depth(stk) = 1 .. n /\ Depth(stk2) = 1 .. n + 1 /\ stk[n] \in FrameSet
  BY TopOfStack DEF Nest, Pushed, Depth
<1>2. PICK top \in FrameSet : top = stk[n]
  BY <1>1
<1>3. n \in 1 .. n /\ top.at \in Path /\ Len(top.at) = n - 1 /\ Ready(w, top) /\ top.next >= 2
  BY <1>1, <1>2 DEF Nest, FrameSet
<1>4. PICK name \in Name : name = NameAt(w, top, top.next - 1)
  BY <1>3, LastNamed
<1>5. f.at = top.at \o <<name>>
  BY <1>1, <1>2, <1>4
<1>6. f.at \in Path /\ Len(f.at) = n /\ Inside(top.at, f.at)
  <2>1. /\ top.at \o <<name>> \in Path /\ Len(top.at \o <<name>>) = Len(top.at) + 1
        /\ Inside(top.at, top.at \o <<name>>)
    BY <1>3, ConcatOne
  <2>2. Len(top.at) + 1 = n
    BY <1>3
  <2> QED BY <1>5, <2>1, <2>2
<1>7. \A i \in 1 .. n : stk2[i] = stk[i]
  BY <1>1 DEF Pushed
<1>8. stk2[n + 1] = f
  BY <1>1 DEF Pushed
<1>9. ASSUME NEW i \in 1 .. n + 1
      PROVE  /\ stk2[i].at \in DOMAIN st /\ Len(stk2[i].at) = i - 1 /\ Ready(w, stk2[i])
             /\ stk2[i].next > 0 => i - 1 <= MaxDepth
  <2>1. CASE i = n + 1
    <3>1. stk2[i] = f /\ i - 1 = n
      BY <1>8, <2>1
    <3>2. ~(f.next > 0)
      OBVIOUS
    <3>3. Ready(w, f)
      BY <3>2 DEF Ready
    <3> QED BY <1>6, <3>1, <3>2, <3>3
  <2>2. CASE i # n + 1
    <3>1. i \in 1 .. n
      BY <2>2
    <3> QED BY <1>1, <1>7, <3>1 DEF Nest
  <2> QED BY <2>1, <2>2
<1>10. ASSUME NEW i \in 1 .. n + 1, NEW k \in 1 .. n + 1, i < k
       PROVE  stk2[i].next >= 2 /\ Inside(stk2[i].at \o <<NameAt(w, stk2[i], stk2[i].next - 1)>>, stk2[k].at)
  <2>1. i \in 1 .. n /\ stk2[i] = stk[i]
    BY <1>7, <1>10
  <2>2. CASE k \in 1 .. n
    BY <1>1, <1>7, <1>10, <2>1, <2>2 DEF Nest
  <2>3. CASE k = n + 1 /\ i = n
    <3>1. Inside(f.at, f.at)
      BY <1>6, InsideItself
    <3>2. stk2[i] = top /\ stk2[k] = f
      BY <1>2, <1>8, <2>1, <2>3
    <3>3. top.at \o <<NameAt(w, top, top.next - 1)>> = f.at
      BY <1>4, <1>5
    <3>4. Inside(top.at \o <<NameAt(w, top, top.next - 1)>>, f.at)
      BY <3>1, <3>3
    <3> QED BY <1>3, <3>2, <3>4
  <2>4. CASE k = n + 1 /\ i # n
    <3>1. i < n /\ n \in 1 .. n
      BY <2>1, <2>4
    <3>2. PICK g \in FrameSet : g = stk[i]
      <4>1. stk \in Seq(FrameSet) /\ i \in 1 .. Len(stk)
        BY <1>1, <2>1 DEF Nest
      <4> QED BY <4>1, ElementOfSeq
    <3>3. g.next >= 2 /\ Inside(g.at \o <<NameAt(w, g, g.next - 1)>>, top.at) /\ Ready(w, g)
      BY <1>1, <1>2, <2>1, <3>1, <3>2 DEF Nest
    <3>4. PICK m \in Name : m = NameAt(w, g, g.next - 1)
      BY <3>3, LastNamed
    <3>5. g.at \o <<m>> \in Path
      BY ConcatOne DEF FrameSet
    <3>6. Inside(g.at \o <<m>>, f.at)
      BY <1>3, <1>6, <3>3, <3>4, <3>5, InsideTransitive DEF Path
    <3> QED BY <1>8, <2>1, <2>4, <3>2, <3>3, <3>4, <3>6
  <2>5. k \in 1 .. n \/ k = n + 1
    BY <1>1
  <2> QED BY <2>2, <2>3, <2>4, <2>5
<1> QED BY <1>1, <1>9, <1>10 DEF Nest

-----------------------------------------------------------------------------
(* The steps of a pack, as what they do to the stage and the frames.       *)

IsSeq(s) == \E S : s \in Seq(S)

LEMMA AppendToSeq ==
    ASSUME NEW s, IsSeq(s), NEW e
    PROVE  /\ IsSeq(Append(s, e)) /\ Len(s) \in Nat /\ DOMAIN s = 1 .. Len(s)
           /\ DOMAIN Append(s, e) = 1 .. Len(s) + 1
           /\ \A i \in 1 .. Len(s) : Append(s, e)[i] = s[i]
           /\ Append(s, e)[Len(s) + 1] = e
<1>1. PICK S : s \in Seq(S)
  BY DEF IsSeq
<1>2. PICK T : T = S \cup {e}
  OBVIOUS
<1>3. Len(s) \in Nat /\ DOMAIN s = 1 .. Len(s) /\ \A i \in 1 .. Len(s) : s[i] \in S
  BY <1>1, LenProperties, ElementOfSeq
<1>4. s \in Seq(T) /\ e \in T
  <2>1. \A i \in 1 .. Len(s) : s[i] \in T
    BY <1>2, <1>3
  <2> QED BY <1>1, <1>2, <2>1
<1>5. /\ Append(s, e) \in Seq(T) /\ Len(Append(s, e)) = Len(s) + 1
      /\ \A i \in 1 .. Len(s) : Append(s, e)[i] = s[i]
      /\ Append(s, e)[Len(s) + 1] = e
  BY <1>4, AppendProperties
<1>6. DOMAIN Append(s, e) = 1 .. Len(s) + 1
  BY <1>5, LenProperties
<1> QED BY <1>3, <1>5, <1>6 DEF IsSeq

(* An archive is put beside those of a chart.                              *)
Added(st, at, a, st2) ==
    /\ DOMAIN st2 = DOMAIN st
    /\ \A p \in DOMAIN st :
          /\ IsChartDir(st2[p]) /\ st2[p].from = st[p].from
          /\ st2[p].tgz = IF p = at THEN st[p].tgz \cup {a} ELSE st[p].tgz

LEMMA BringAdds ==
    ASSUME NEW w, NEW st, Staged(w, st), NEW at \in DOMAIN st, NEW a
    PROVE  Added(st, at, a, [st EXCEPT ![at].tgz = @ \cup {a}])
<1>1. PICK e : e = [st[at] EXCEPT !.tgz = st[at].tgz \cup {a}]
  OBVIOUS
<1>2. st[at] = [from |-> st[at].from, tgz |-> st[at].tgz]
  BY DEF Staged, IsChartDir
<1>3. PICK from, tgz : from = st[at].from /\ tgz = st[at].tgz
  OBVIOUS
<1>4. e = [from |-> from, tgz |-> tgz \cup {a}]
  <2>1. st[at] = [from |-> from, tgz |-> tgz]
    BY <1>2, <1>3
  <2>2. e = [[from |-> from, tgz |-> tgz] EXCEPT !.tgz = tgz \cup {a}]
    BY <1>1, <1>3, <2>1
  <2> QED BY <2>2
<1>5. e.from = st[at].from /\ e.tgz = st[at].tgz \cup {a} /\ IsChartDir(e)
  BY <1>3, <1>4 DEF IsChartDir
<1>6. PICK st2 : st2 = [st EXCEPT ![at] = e]
  OBVIOUS
<1>7. [st EXCEPT ![at].tgz = @ \cup {a}] = st2
  BY <1>1, <1>6
<1>8. DOMAIN st2 = DOMAIN st /\ st2[at] = e /\ \A p \in DOMAIN st : p # at => st2[p] = st[p]
  BY <1>6
<1>9. \A p \in DOMAIN st : IsChartDir(st[p])
  BY DEF Staged
<1>10. Added(st, at, a, st2)
  <2> SUFFICES ASSUME NEW p \in DOMAIN st
               PROVE  /\ IsChartDir(st2[p]) /\ st2[p].from = st[p].from
                      /\ st2[p].tgz = IF p = at THEN st[p].tgz \cup {a} ELSE st[p].tgz
    BY <1>8 DEF Added
  <2>1. CASE p = at
    BY <1>5, <1>8, <2>1
  <2>2. CASE p # at
    BY <1>8, <1>9, <2>2
  <2> QED BY <2>1, <2>2
<1> QED BY <1>7, <1>10

LEMMA AddGrows ==
    ASSUME NEW w, NEW st, Staged(w, st), NEW at, NEW a, NEW st2, Added(st, at, a, st2)
    PROVE  Staged(w, st2) /\ Grows(w, st, st2)
<1>1. Staged(w, st2)
  BY DEF Staged, Added
<1>2. \A p \in DOMAIN st : p \in DOMAIN st2 /\ st[p].tgz \subseteq st2[p].tgz
  BY DEF Added
<1>3. \A p : ChartAt(w, st, p) => ChartAt(w, st2, p)
  BY DEF Added, ChartAt
<1> QED BY <1>1, <1>2, <1>3 DEF Grows

LEMMA FollowsSame ==
    ASSUME NEW w, NEW st, NEW at, NEW src, Follows(w, st, at, src),
           NEW st2, \A p \in DOMAIN st : p \in DOMAIN st2 /\ st2[p].from = st[p].from
    PROVE  Follows(w, st2, at, src)
BY DEF Follows

(* The innermost chart comes to a dependency.                              *)
Sound(w, st, stk) == World(w) /\ Staged(w, st) /\ Nest(w, st, stk)
Coming(w, stk, top, l) ==
    /\ stk # <<>> /\ top = stk[Len(stk)] /\ top \in FrameSet
    /\ ChartOn(w, top.src) /\ w[top.src].deps # <<>> /\ LockOf(w, top) # NoLock
    /\ top.next \in 1 .. Len(LockOf(w, top))
    /\ l = LockOf(w, top)[top.next] /\ IsDependency(l) /\ l.name \in Name
    /\ Len(stk) - 1 <= MaxDepth

LEMMA ComesToDependency ==
    ASSUME Sound(disk, stage, stack), OneDependency
    PROVE  Coming(disk, stack, Top, Locked)
<1>1. /\ status = "closing" /\ stack # <<>> /\ Top.next > 0
      /\ Top = stack[Len(stack)] /\ stack \in Seq(FrameSet)
      /\ Top.next <= Len(disk[Top.src].lock) /\ Locked = disk[Top.src].lock[Top.next]
  BY DEF OneDependency, Closing, Top, Meta, Locked, Sound, Nest
<1>2. PICK top \in FrameSet : top = Top /\ top = stack[Len(stack)]
  BY <1>1, TopOfStack
<1>3. Len(stack) \in Depth(stack)
  BY <1>1, TopOfStack
<1>4. Ready(disk, top) /\ Len(stack) - 1 <= MaxDepth
  BY <1>1, <1>2, <1>3 DEF Sound, Nest
<1>5. ChartOn(disk, top.src) /\ disk[top.src].deps # <<>> /\ LockOf(disk, top) # NoLock
  BY <1>1, <1>2, <1>4 DEF Ready
<1>6. /\ Len(disk[top.src].lock) \in Nat
      /\ \A j \in 1 .. Len(disk[top.src].lock) :
            disk[top.src].lock[j].name \in Name /\ IsDependency(disk[top.src].lock[j])
  BY <1>5, LockEntry DEF ChartOn, LockOf, Sound
<1>7. top.next \in 1 .. Len(disk[top.src].lock)
  BY <1>1, <1>2, <1>6 DEF FrameSet
<1> QED BY <1>1, <1>2, <1>4, <1>5, <1>6, <1>7 DEF Coming, LockOf

(* What it is named is a directory of it, one deeper.                      *)
LEMMA ComingNamed ==
    ASSUME NEW w, NEW st, NEW stk, Sound(w, st, stk), NEW top, NEW l, Coming(w, stk, top, l)
    PROVE  /\ top.at \in Path /\ top.src \in Path /\ top.at \in DOMAIN st
           /\ Len(top.at) = Len(stk) - 1
           /\ top.at \o <<l.name>> \in Path /\ top.src \o <<l.name>> \in Path \ {<<>>}
           /\ Len(top.at \o <<l.name>>) = Len(stk) /\ Len(stk) \in Nat \ {0}
           /\ Inside(top.at, top.at \o <<l.name>>)
<1>1. PICK n \in Nat \ {0} : n = Len(stk) /\ n \in Depth(stk)
  BY TopOfStack DEF Sound, Nest, Coming
<1>2. top.at \in Path /\ top.src \in Path /\ l.name \in Name
  BY DEF Coming, FrameSet
<1>3. top.at \in DOMAIN st /\ Len(top.at) = n - 1
  BY <1>1 DEF Coming, Sound, Nest
<1>4. /\ top.at \o <<l.name>> \in Path /\ Len(top.at \o <<l.name>>) = Len(top.at) + 1
      /\ Inside(top.at, top.at \o <<l.name>>)
  BY <1>2, ConcatOne
<1>5. /\ top.src \o <<l.name>> \in Path /\ Len(top.src \o <<l.name>>) = Len(top.src) + 1
  BY <1>2, ConcatOne
<1>6. top.src \o <<l.name>> # <<>>
  <2>1. Len(top.src) \in Nat
    BY <1>2 DEF Path
  <2> QED BY <1>5, <2>1
<1> QED BY <1>1, <1>2, <1>3, <1>4, <1>5, <1>6

(* It is done with: the frame moves on.                                    *)
LEMMA NestAdvances ==
    ASSUME NEW w, NEW st, NEW stk, Sound(w, st, stk), NEW top, NEW l, Coming(w, stk, top, l),
           NEW stk2 \in Seq(FrameSet), Moved(stk, stk2, top.next + 1),
           NEW st2, \A p \in DOMAIN st : p \in DOMAIN st2
    PROVE  Nest(w, st2, stk2)
<1>1. top \in FrameSet /\ top = stk[Len(stk)] /\ top.next \in Nat /\ top.next + 1 \in Nat
  BY DEF Coming, FrameSet
<1>2. stk2[Len(stk)].src = top.src /\ stk2[Len(stk)].next = top.next + 1
  BY <1>1 DEF Moved
<1>3. PICK len \in Nat : len = Len(LockOf(w, top))
  BY LockEntry DEF Sound, Coming, ChartOn, LockOf
<1>4. top.next + 1 <= len + 1
  BY <1>1, <1>3 DEF Coming
<1>5. Ready(w, stk2[Len(stk)])
  BY <1>2, <1>3, <1>4 DEF Ready, LockOf, Coming
<1>6. Nest(w, st, stk) /\ stk # <<>> /\ Len(stk) - 1 <= MaxDepth
  BY DEF Sound, Coming
<1> QED BY <1>1, <1>5, <1>6, NestMoved

(* It is a chart to be closed: the frame moves on and the chart's is put   *)
(* on it.                                                                  *)
LEMMA NestDescends ==
    ASSUME NEW w, NEW st, NEW stk, Sound(w, st, stk), NEW top, NEW l, Coming(w, stk, top, l),
           NEW stk1 \in Seq(FrameSet), Moved(stk, stk1, top.next + 1),
           NEW st2, \A p \in DOMAIN st : p \in DOMAIN st2, Staged(w, st2),
           NEW f \in FrameSet, f.next = 0, f.at = top.at \o <<l.name>>, f.at \in DOMAIN st2,
           NEW stk2 \in Seq(FrameSet), Pushed(stk1, stk2, f)
    PROVE  Nest(w, st2, stk2)
<1>1. Nest(w, st2, stk1)
  BY NestAdvances
<1>2. PICK n \in Nat \ {0} : n = Len(stk) /\ Len(stk1) = n /\ n \in Depth(stk)
  BY TopOfStack DEF Sound, Nest, Coming, Moved
<1>3. stk1 # <<>>
  BY <1>2, EmptySeq
<1>4. PICK m \in Nat \ {0} : m = top.next
  <2>1. top.next \in Nat /\ top.next \in 1 .. Len(LockOf(w, top))
    BY DEF Coming, FrameSet
  <2> QED BY <2>1
<1>5. stk1[n].at = top.at /\ stk1[n].src = top.src /\ stk1[n].next = m + 1
  BY <1>2, <1>4 DEF Coming, Moved
<1>6. m + 1 - 1 = m /\ m + 1 >= 2
  OBVIOUS
<1>7. f.at = stk1[n].at \o <<NameAt(w, stk1[n], m)>>
  BY <1>4, <1>5 DEF Coming, NameAt, LockOf
<1>8. World(w) /\ stk1[Len(stk1)].next >= 2
  BY <1>2, <1>5, <1>6 DEF Sound
<1>9. f.at = stk1[Len(stk1)].at \o <<NameAt(w, stk1[Len(stk1)], stk1[Len(stk1)].next - 1)>>
  BY <1>2, <1>5, <1>6, <1>7
<1> QED BY <1>1, <1>3, <1>8, <1>9, NestPushed

(* The frames once a dependency is descended into.                         *)
Descended(stk, stk2, top, f) ==
    /\ Len(stk2) = Len(stk) + 1
    /\ \A i \in Depth(stk) :
          /\ stk2[i].at = stk[i].at /\ stk2[i].src = stk[i].src
          /\ i # Len(stk) => stk2[i] = stk[i]
    /\ stk2[Len(stk)].next = top.next + 1
    /\ stk2[Len(stk) + 1] = f

LEMMA DescendsTo ==
    ASSUME NEW w, NEW st, NEW stk, Sound(w, st, stk), NEW top, NEW l, Coming(w, stk, top, l),
           NEW stk1 \in Seq(FrameSet), Moved(stk, stk1, top.next + 1), NEW f,
           NEW stk2, Pushed(stk1, stk2, f)
    PROVE  Descended(stk, stk2, top, f)
<1>1. PICK n \in Nat \ {0} : n = Len(stk) /\ Len(stk1) = n /\ Depth(stk) = 1 .. n /\ Depth(stk1) = 1 .. n
  BY TopOfStack DEF Sound, Nest, Coming, Moved, Depth
<1>2. Len(stk2) = n + 1 /\ (\A i \in 1 .. n : stk2[i] = stk1[i]) /\ stk2[n + 1] = f
  BY <1>1 DEF Pushed
<1>3. /\ \A i \in 1 .. n : i # n => stk1[i] = stk[i]
      /\ stk1[n].src = stk[n].src /\ stk1[n].at = stk[n].at /\ stk1[n].next = top.next + 1
  BY <1>1 DEF Moved
<1>4. ASSUME NEW i \in 1 .. n
      PROVE  stk2[i].at = stk[i].at /\ stk2[i].src = stk[i].src /\ (i # n => stk2[i] = stk[i])
  BY <1>2, <1>3
<1>5. n \in 1 .. n /\ stk2[n].next = top.next + 1
  BY <1>2, <1>3
<1> QED BY <1>1, <1>2, <1>4, <1>5 DEF Descended

-----------------------------------------------------------------------------
(* The charts being closed are read from where they were staged from, and  *)
(* what was under charts/ is left.                                         *)

Twins(w, st, stk) == \A i \in Depth(stk) : Follows(w, st, stk[i].at, stk[i].src)
Kept(w, st) ==
    /\ Follows(w, st, <<>>, RootChart)
    /\ \A x \in Path : RootChart \o x \in DOMAIN w =>
          x \in DOMAIN st /\ w[RootChart \o x].tgz \subseteq st[x].tgz

LEMMA TwinsPopped ==
    ASSUME NEW w, NEW st, NEW stk \in Seq(FrameSet), stk # <<>>, Twins(w, st, stk),
           NEW stk2, Popped(stk, stk2)
    PROVE  Twins(w, st, stk2)
<1>1. PICK n \in Nat : n = Len(stk) /\ Len(stk2) = n - 1
  BY TopOfStack DEF Popped
<1>2. \A i \in Depth(stk2) : i \in Depth(stk) /\ stk2[i] = stk[i]
  BY <1>1 DEF Depth, Popped
<1> QED BY <1>2 DEF Twins

LEMMA TwinsMoved ==
    ASSUME NEW w, NEW st, NEW stk, Twins(w, st, stk), NEW next,
           NEW stk2, Moved(stk, stk2, next),
           NEW st2, \A p \in DOMAIN st : p \in DOMAIN st2 /\ st2[p].from = st[p].from
    PROVE  Twins(w, st2, stk2)
<1> SUFFICES ASSUME NEW i \in Depth(stk2) PROVE Follows(w, st2, stk2[i].at, stk2[i].src)
  BY DEF Twins
<1>1. i \in Depth(stk) /\ stk2[i].at = stk[i].at /\ stk2[i].src = stk[i].src
  BY DEF Depth, Moved
<1>2. Follows(w, st, stk[i].at, stk[i].src)
  BY <1>1 DEF Twins
<1>3. Follows(w, st2, stk[i].at, stk[i].src)
  BY <1>2, FollowsSame
<1> QED BY <1>1, <1>3

LEMMA TwinsDescended ==
    ASSUME NEW w, NEW st, NEW stk, Sound(w, st, stk), NEW top, NEW l, Coming(w, stk, top, l),
           Twins(w, st, stk),
           NEW f \in FrameSet, f.at = top.at \o <<l.name>>,
           NEW stk2, Descended(stk, stk2, top, f), NEW st2,
           \A i \in Depth(stk) : Follows(w, st2, stk[i].at, stk[i].src),
           Follows(w, st2, f.at, f.src)
    PROVE  Twins(w, st2, stk2)
<1>1. PICK n \in Nat \ {0} : n = Len(stk) /\ Depth(stk) = 1 .. n /\ Depth(stk2) = 1 .. n + 1
  BY TopOfStack DEF Sound, Nest, Coming, Descended, Depth
<1> SUFFICES ASSUME NEW i \in 1 .. n + 1 PROVE Follows(w, st2, stk2[i].at, stk2[i].src)
  BY <1>1 DEF Twins
<1>2. CASE i = n + 1
  BY <1>1, <1>2 DEF Descended
<1>3. CASE i # n + 1
  <2>1. i \in Depth(stk)
    BY <1>1, <1>3
  <2> QED BY <2>1 DEF Descended
<1> QED BY <1>2, <1>3

(* The chart was there and is closed from its place on disk.               *)
LEMMA TwinsDown ==
    ASSUME NEW w, NEW st, NEW stk, Sound(w, st, stk), NEW top, NEW l, Coming(w, stk, top, l),
           Twins(w, st, stk),
           NEW f \in FrameSet, f.at = top.at \o <<l.name>>, f.src = top.src \o <<l.name>>,
           NEW stk2, Descended(stk, stk2, top, f)
    PROVE  Twins(w, st, stk2)
<1>1. Len(stk) \in Depth(stk) /\ top = stk[Len(stk)] /\ ChartOn(w, top.src) /\ l.name \in Name
  BY TopOfStack DEF Sound, Nest, Coming
<1>2. Follows(w, st, top.at, top.src)
  BY <1>1 DEF Twins
<1>3. top.at \in Path /\ top.src \in Path
  BY ComingNamed
<1>4. Follows(w, st, top.at \o <<l.name>>, top.src \o <<l.name>>)
  BY <1>1, <1>2, <1>3, FollowsDown
<1>5. \A i \in Depth(stk) : Follows(w, st, stk[i].at, stk[i].src)
  BY DEF Twins
<1>6. Follows(w, st, f.at, f.src)
  BY <1>4
<1> QED BY <1>5, <1>6, TwinsDescended

(* No chart was there and one is copied.                                   *)
LEMMA TwinsCopied ==
    ASSUME NEW w, NEW st, NEW stk, Sound(w, st, stk), NEW top, NEW l, Coming(w, stk, top, l),
           Twins(w, st, stk),
           NEW f \in FrameSet, f.at = top.at \o <<l.name>>,
           NEW st2, Copied(w, st, f.src, f.at, st2), ~ChartAt(w, st, f.at),
           NEW stk2, Descended(stk, stk2, top, f)
    PROVE  Twins(w, st2, stk2)
<1>1. f.at \in Path /\ f.src \in Path /\ Len(f.at) = Len(stk) /\ Len(stk) \in Nat
  BY ComingNamed DEF FrameSet
<1>2. ASSUME NEW i \in Depth(stk) PROVE Follows(w, st2, stk[i].at, stk[i].src)
  <2>1. stk[i].at \in Path /\ stk[i].src \in Path
    <3>1. stk[i] \in FrameSet
      BY ElementOfSeq DEF Sound, Nest, Depth
    <3> QED BY <3>1 DEF FrameSet
  <2>2. Len(stk[i].at) = i - 1 /\ Len(stk[i].at) < Len(f.at)
    BY <1>1 DEF Sound, Nest, Depth
  <2>3. Follows(w, st, stk[i].at, stk[i].src)
    BY DEF Twins
  <2>4. PICK at \in Path, src \in Path : at = stk[i].at /\ src = stk[i].src
    BY <2>1
  <2>5. Follows(w, st2, at, src)
    BY <1>1, <2>2, <2>3, <2>4, FollowsCopy
  <2> QED BY <2>4, <2>5
<1>3. Follows(w, st2, f.at, f.src)
  BY <1>1, FollowsNew
<1> QED BY <1>2, <1>3, TwinsDescended

LEMMA KeptSame ==
    ASSUME NEW w, NEW st, Kept(w, st), NEW st2, Grows(w, st, st2),
           \A p \in DOMAIN st : st2[p].from = st[p].from
    PROVE  Kept(w, st2)
<1>1. \A p \in DOMAIN st : p \in DOMAIN st2 /\ st2[p].from = st[p].from /\ st[p].tgz \subseteq st2[p].tgz
  BY DEF Grows
<1>2. Follows(w, st2, <<>>, RootChart)
  BY <1>1, FollowsSame DEF Kept
<1>3. ASSUME NEW x \in Path, RootChart \o x \in DOMAIN w
      PROVE  x \in DOMAIN st2 /\ w[RootChart \o x].tgz \subseteq st2[x].tgz
  BY <1>1, <1>3 DEF Kept
<1> QED BY <1>2, <1>3 DEF Kept

LEMMA KeptCopied ==
    ASSUME NEW w, World(w), NEW st, Staged(w, st), Kept(w, st), NEW dir \in Path, NEW into \in Path,
           NEW st2, Copied(w, st, dir, into, st2), ~ChartAt(w, st, into), Len(into) > 0
    PROVE  Kept(w, st2)
<1>1. <<>> \in Path /\ RootChart \in Path /\ Len(<<>>) = 0
  BY DEF Path, World
<1>2. Len(<<>>) < Len(into)
  BY <1>1
<1>3. Follows(w, st2, <<>>, RootChart)
  BY <1>1, <1>2, FollowsCopy DEF Kept
<1>4. Grows(w, st, st2)
  BY CopyGrows
<1>5. ASSUME NEW x \in Path, RootChart \o x \in DOMAIN w
      PROVE  x \in DOMAIN st2 /\ w[RootChart \o x].tgz \subseteq st2[x].tgz
  BY <1>4, <1>5 DEF Kept, Grows
<1> QED BY <1>3, <1>5 DEF Kept

(* What the root's staging leaves.                                         *)
LEMMA KeptAtFirst ==
    ASSUME NEW w, World(w), NEW st, NEW st2, Copied(w, st, RootChart, <<>>, st2)
    PROVE  Kept(w, st2) /\ <<>> \in DOMAIN st2
<1>1. <<>> \in Path /\ RootChart \in Path /\ RootChart \in DOMAIN w
  BY DEF Path, World
<1>2. Follows(w, st2, <<>>, RootChart)
  BY <1>1, FollowsNew
<1>3. ASSUME NEW x \in Path, RootChart \o x \in DOMAIN w
      PROVE  x \in DOMAIN st2 /\ w[RootChart \o x].tgz \subseteq st2[x].tgz
  <2>1. <<>> \o x = x
    BY ConcatEmptySeq DEF Path
  <2>2. Lands(w, RootChart, <<>>, x)
    BY <1>3, <2>1 DEF Lands
  <2>3. x \in DOMAIN st2
    BY <2>2 DEF Copied
  <2>4. w[RootChart \o x].tgz \subseteq st2[<<>> \o x].tgz
    BY <1>3 DEF Copied
  <2> QED BY <2>1, <2>3, <2>4
<1>4. RootChart \o <<>> = RootChart
  BY <1>1, ConcatEmptySeq DEF Path
<1> QED BY <1>1, <1>2, <1>3, <1>4 DEF Kept

-----------------------------------------------------------------------------
(* Where names are not used twice and charts hold charts, a chart that no  *)
(* dependency brought the pack to yet is as the author nested it.          *)

Once(w) == \A d \in DOMAIN w : NamesOnce(w[d])
ChartsInCharts(w) ==
    \A d \in DOMAIN w : ChartOn(w, d) => \A n \in 2 .. Len(d) : ChartOn(w, SubSeq(d, 1, n))
Came(w, f, n) == \E j \in Nat \ {0} : j < f.next /\ NameAt(w, f, j) = n
Untouched(w, st, f) ==
    \A n \in Name, y \in Path : ~Came(w, f, n) =>
        LET p == (f.at \o <<n>>) \o y IN
        ChartAt(w, st, p) => st[p].from = (f.src \o <<n>>) \o y
Reads(w, st, f) == st[f.at].from = f.src /\ Untouched(w, st, f)
Reading(w, st, stk) == \A i \in Depth(stk) : Reads(w, st, stk[i])

LEMMA CameBefore ==
    ASSUME NEW w, NEW f, NEW f2, f2.src = f.src, f.next \in Nat, f2.next \in Nat, f2.next >= f.next,
           NEW n, ~Came(w, f2, n)
    PROVE  ~Came(w, f, n)
BY DEF Came, NameAt

LEMMA UntouchedMoves ==
    ASSUME NEW w, NEW st, NEW f, Untouched(w, st, f), f.next \in Nat,
           NEW f2, f2.at = f.at, f2.src = f.src, f2.next \in Nat, f2.next >= f.next,
           NEW st2, DOMAIN st2 = DOMAIN st, \A p \in DOMAIN st : st2[p].from = st[p].from
    PROVE  Untouched(w, st2, f2)
<1> SUFFICES ASSUME NEW n \in Name, NEW y \in Path, ~Came(w, f2, n), NEW p,
                    p = (f.at \o <<n>>) \o y, ChartAt(w, st2, p)
             PROVE  st2[p].from = (f.src \o <<n>>) \o y
  BY ZenonT(30) DEF Untouched
<1>1. ~Came(w, f, n)
  BY CameBefore
<1>2. ChartAt(w, st, p) /\ st2[p].from = st[p].from
  BY DEF ChartAt
<1> QED BY <1>1, <1>2 DEF Untouched

LEMMA ReadingPopped ==
    ASSUME NEW w, NEW st, NEW stk \in Seq(FrameSet), stk # <<>>, Reading(w, st, stk),
           NEW stk2, Popped(stk, stk2)
    PROVE  Reading(w, st, stk2)
<1>1. PICK n \in Nat : n = Len(stk) /\ Len(stk2) = n - 1
  BY TopOfStack DEF Popped
<1>2. \A i \in Depth(stk2) : i \in Depth(stk) /\ stk2[i] = stk[i]
  BY <1>1 DEF Depth, Popped
<1> QED BY <1>2 DEF Reading

LEMMA ReadingMoved ==
    ASSUME NEW w, NEW st, NEW stk, Nest(w, st, stk), stk # <<>>, Reading(w, st, stk),
           NEW next \in Nat, next >= stk[Len(stk)].next,
           NEW stk2, Moved(stk, stk2, next),
           NEW st2, DOMAIN st2 = DOMAIN st, \A p \in DOMAIN st : st2[p].from = st[p].from
    PROVE  Reading(w, st2, stk2)
<1> SUFFICES ASSUME NEW i \in Depth(stk2) PROVE Reads(w, st2, stk2[i])
  BY DEF Reading
<1>1. i \in Depth(stk) /\ stk2[i].at = stk[i].at /\ stk2[i].src = stk[i].src
  BY DEF Depth, Moved
<1>2. stk[i] \in FrameSet /\ stk[i].next \in Nat
  <2>1. stk[i] \in FrameSet
    BY <1>1, ElementOfSeq DEF Nest, Depth
  <2> QED BY <2>1 DEF FrameSet
<1>3. stk2[i].next \in Nat /\ stk2[i].next >= stk[i].next
  <2>1. CASE i = Len(stk)
    BY <2>1 DEF Moved
  <2>2. CASE i # Len(stk)
    <3>1. stk2[i] = stk[i]
      BY <1>1, <2>2 DEF Moved
    <3> QED BY <1>2, <3>1
  <2> QED BY <2>1, <2>2
<1>4. Untouched(w, st2, stk2[i])
  <2>1. Untouched(w, st, stk[i])
    BY <1>1 DEF Reading, Reads
  <2>2. PICK f, f2 : f = stk[i] /\ f2 = stk2[i]
    OBVIOUS
  <2>3. Untouched(w, st2, f2)
    BY <1>1, <1>2, <1>3, <2>1, <2>2, UntouchedMoves
  <2> QED BY <2>2, <2>3
<1>5. stk[i].at \in DOMAIN st /\ st[stk[i].at].from = stk[i].src
  BY <1>1 DEF Reading, Reads, Nest
<1> QED BY <1>1, <1>4, <1>5 DEF Reads

LEMMA ComesOnce ==
    ASSUME NEW w, World(w), Once(w), NEW stk, NEW top, NEW l, Coming(w, stk, top, l)
    PROVE  ~Came(w, top, l.name)
<1>1. top.src \in DOMAIN w /\ w[top.src].lock # NoLock
  BY DEF Coming, ChartOn, LockOf
<1>2. PICK lock : lock = w[top.src].lock
  OBVIOUS
<1>3. \A i, j \in DOMAIN lock : lock[i].name = lock[j].name => i = j
  BY <1>1, <1>2 DEF Once, NamesOnce
<1>4. Len(lock) \in Nat /\ DOMAIN lock = 1 .. Len(lock)
  BY <1>1, <1>2, LockEntry
<1>5. PICK m \in 1 .. Len(lock) : m = top.next /\ lock[m].name = l.name
  BY <1>2 DEF Coming, LockOf
<1> SUFFICES ASSUME NEW j \in Nat \ {0}, j < m, lock[j].name = l.name PROVE FALSE
  BY <1>2, <1>5 DEF Came, NameAt
<1>6. j \in 1 .. Len(lock) /\ j # m
  BY <1>4
<1> QED BY <1>3, <1>4, <1>5, <1>6

(* No chart is staged in a directory that is none.                         *)
LEMMA NoneInside ==
    ASSUME NEW w, ChartsInCharts(w), Once(w), NEW st, NEW stk, Sound(w, st, stk),
           NEW top, NEW l, Coming(w, stk, top, l),
           Twins(w, st, stk), Reading(w, st, stk),
           ~ChartAt(w, st, top.at \o <<l.name>>),
           NEW p, ChartAt(w, st, p), Inside(top.at \o <<l.name>>, p)
    PROVE  FALSE
<1> DEFINE c == top.src \o <<l.name>>
           into == top.at \o <<l.name>>
<1>1. /\ into \in Path /\ c \in Path /\ top.at \in Path /\ top.src \in Path /\ top.src # <<>>
      /\ l.name \in Name /\ p \in Path /\ Len(c) = Len(top.src) + 1
  <2>1. top.src \in Path \ {<<>>} /\ l.name \in Name /\ p \in Path
    BY DEF Coming, FrameSet, Sound, Staged, ChartAt
  <2> QED BY <2>1, ComingNamed, ConcatOne
<1>2. /\ Len(stk) \in Depth(stk) /\ Reads(w, st, top) /\ Follows(w, st, top.at, top.src)
      /\ ChartOn(w, top.src)
  BY TopOfStack DEF Sound, Nest, Coming, Reading, Twins
<1> DEFINE y == Rel(into, p)
<1>3. y \in Path /\ p = into \o y
  BY <1>1, InsideSplits DEF Path
<1> HIDE DEF y
<1>4. ~Came(w, top, l.name)
  BY ComesOnce DEF Sound
<1>5. st[p].from = c \o y
  BY <1>1, <1>2, <1>3, <1>4 DEF Reads, Untouched
<1>6. ChartOn(w, c \o y)
  BY <1>5 DEF Sound, Staged, ChartAt, ChartOn
<1> HIDE DEF c, into
<1>7. SubSeq(c \o y, 1, Len(c)) = c
  <2>1. Len(y) \in Nat /\ Len(c) \in Nat /\ 0 \in 0 .. Len(y) /\ Len(c) + 0 = Len(c)
    BY <1>1, <1>3 DEF Path
  <2>2. SubSeq(c \o y, 1, Len(c) + 0) = c \o SubSeq(y, 1, 0)
    BY <1>1, <1>3, <2>1, BeginningOfConcat
  <2>3. SubSeq(y, 1, 0) = <<>> /\ c \o <<>> = c
    BY <1>1, SubSeqEmpty, ConcatEmptySeq DEF Path
  <2> QED BY <2>1, <2>2, <2>3
<1>8. Len(c) \in 2 .. Len(c \o y)
  <2>1. Len(top.src) \in Nat \ {0}
    BY <1>1, EmptySeq DEF Path
  <2>2. Len(y) \in Nat
    BY <1>3 DEF Path
  <2>3. Len(c \o y) = Len(c) + Len(y)
    BY <1>1, <1>3, ConcatProperties DEF Path
  <2> QED BY <1>1, <2>1, <2>2, <2>3
<1>9. ChartOn(w, c)
  <2>1. PICK d : d = c \o y
    OBVIOUS
  <2>2. d \in DOMAIN w /\ \A n \in 2 .. Len(d) : ChartOn(w, SubSeq(d, 1, n))
    BY <1>6, <2>1 DEF ChartsInCharts, ChartOn
  <2> QED BY <1>7, <1>8, <2>1, <2>2
<1>10. Follows(w, st, into, c)
  BY <1>1, <1>2, FollowsDown DEF into, c
<1>11. ChartAt(w, st, into)
  BY <1>1, <1>9, <1>10, FollowsHere
<1> QED BY <1>11 DEF into

(* The chart that was there is the author's.                               *)
LEMMA ReadingDown ==
    ASSUME NEW w, Once(w), NEW st, NEW stk, Sound(w, st, stk), NEW top, NEW l, Coming(w, stk, top, l),
           Reading(w, st, stk), ChartAt(w, st, top.at \o <<l.name>>)
    PROVE  \A f \in FrameSet :
             f.at = top.at \o <<l.name>> /\ f.src = top.src \o <<l.name>> /\ f.next = 0 =>
               Reads(w, st, f)
<1> TAKE f \in FrameSet
<1> HAVE f.at = top.at \o <<l.name>> /\ f.src = top.src \o <<l.name>> /\ f.next = 0
<1>1. /\ f.at \in Path /\ f.src \in Path /\ l.name \in Name
  BY DEF FrameSet, Coming
<1>2. Untouched(w, st, top)
  BY TopOfStack DEF Sound, Nest, Coming, Reading, Reads
<1>3. ~Came(w, top, l.name)
  BY ComesOnce DEF Sound
<1>4. ASSUME NEW x \in Path, ChartAt(w, st, f.at \o x)
      PROVE  st[f.at \o x].from = f.src \o x
  BY <1>1, <1>2, <1>3, <1>4 DEF Untouched
<1>5. st[f.at].from = f.src
  <2>1. <<>> \in Path /\ f.at \o <<>> = f.at /\ f.src \o <<>> = f.src
    BY <1>1, ConcatEmptySeq DEF Path
  <2>2. ChartAt(w, st, f.at)
    OBVIOUS
  <2> QED BY <1>4, <2>1, <2>2
<1>6. Untouched(w, st, f)
  <2> SUFFICES ASSUME NEW n \in Name, NEW y \in Path, NEW p,
                      p = (f.at \o <<n>>) \o y, ChartAt(w, st, p)
               PROVE  st[p].from = (f.src \o <<n>>) \o y
    BY DEF Untouched
  <2>1. PICK x \in Path : x = <<n>> \o y
    BY ConcatThrough, <1>1
  <2>2. p = f.at \o x /\ (f.src \o <<n>>) \o y = f.src \o x
    <3>1. (f.at \o <<n>>) \o y = f.at \o (<<n>> \o y) /\ (f.src \o <<n>>) \o y = f.src \o (<<n>> \o y)
      BY <1>1, ConcatThrough
    <3> QED BY <2>1, <3>1
  <2> QED BY <1>4, <2>2
<1> QED BY <1>5, <1>6 DEF Reads

(* The chart copied is the one read.                                       *)
LEMMA ReadsCopied ==
    ASSUME NEW w, NEW st, NEW f \in FrameSet, f.src \in DOMAIN w,
           \A x \in Path : ~ChartAt(w, st, f.at \o x),
           NEW st2, Copied(w, st, f.src, f.at, st2)
    PROVE  Reads(w, st2, f)
<1>1. f.at \in Path /\ f.src \in Path
  BY DEF FrameSet
<1>2. \A x \in Path : ~ChartAt(w, st, f.at \o x)
  OBVIOUS
<1>3. ASSUME NEW x \in Path, ChartAt(w, st2, f.at \o x)
      PROVE  st2[f.at \o x].from = f.src \o x
  <2>1. CASE f.src \o x \in DOMAIN w
    BY <1>2, <2>1 DEF Copied
  <2>2. CASE f.src \o x \notin DOMAIN w
    <3>1. ~Lands(w, f.src, f.at, f.at \o x)
      <4> SUFFICES ASSUME NEW z \in Path, f.src \o z \in DOMAIN w, f.at \o x = f.at \o z PROVE FALSE
        BY DEF Lands
      <4>1. Rel(f.at, f.at \o x) = x /\ Rel(f.at, f.at \o z) = z
        BY <1>1, RelOfConcat DEF Path
      <4> QED BY <2>2, <4>1
    <3>2. PICK p : p = f.at \o x
      OBVIOUS
    <3>3. p \in DOMAIN st /\ st2[p] = st[p]
      BY <1>3, <3>1, <3>2 DEF Copied, ChartAt
    <3>4. ChartAt(w, st, p)
      BY <1>3, <3>2, <3>3 DEF ChartAt
    <3> QED BY <1>2, <3>2, <3>4
  <2> QED BY <2>1, <2>2
<1>4. st2[f.at].from = f.src
  <2>1. <<>> \in Path /\ f.at \o <<>> = f.at /\ f.src \o <<>> = f.src
    BY <1>1, ConcatEmptySeq DEF Path
  <2>2. f.src \o <<>> \in DOMAIN w
    BY <2>1
  <2>3. st2[f.at \o <<>>].from = f.src \o <<>>
    BY <1>2, <2>1, <2>2 DEF Copied
  <2> QED BY <2>1, <2>3
<1>5. Untouched(w, st2, f)
  <2> SUFFICES ASSUME NEW n \in Name, NEW y \in Path, NEW p,
                      p = (f.at \o <<n>>) \o y, ChartAt(w, st2, p)
               PROVE  st2[p].from = (f.src \o <<n>>) \o y
    BY DEF Untouched
  <2>1. PICK x \in Path : x = <<n>> \o y
    BY ConcatThrough, <1>1
  <2>2. p = f.at \o x /\ (f.src \o <<n>>) \o y = f.src \o x
    <3>1. (f.at \o <<n>>) \o y = f.at \o (<<n>> \o y) /\ (f.src \o <<n>>) \o y = f.src \o (<<n>> \o y)
      BY <1>1, ConcatThrough
    <3> QED BY <2>1, <3>1
  <2> QED BY <1>3, <2>2
<1> QED BY <1>4, <1>5 DEF Reads

LEMMA ReadingCopied ==
    ASSUME NEW w, ChartsInCharts(w), Once(w), NEW st, NEW stk, Sound(w, st, stk),
           NEW top, NEW l, Coming(w, stk, top, l),
           Twins(w, st, stk), Reading(w, st, stk), ~ChartAt(w, st, top.at \o <<l.name>>),
           NEW f \in FrameSet, f.at = top.at \o <<l.name>>, f.src \in DOMAIN w,
           NEW st2, Copied(w, st, f.src, f.at, st2)
    PROVE  Reads(w, st2, f)
<1>1. f.at \in Path
  BY DEF FrameSet
<1>2. ASSUME NEW x \in Path, ChartAt(w, st, f.at \o x) PROVE FALSE
  <2>1. Inside(f.at, f.at \o x)
    BY <1>1, RelOfConcat DEF Path
  <2> QED BY <1>2, <2>1, NoneInside
<1> QED BY <1>2, ReadsCopied

(* What is copied in is under the last name each frame came to.            *)
LEMMA ReadingDescended ==
    ASSUME NEW w, NEW st, Staged(w, st), NEW stk, Nest(w, st, stk), Reading(w, st, stk),
           NEW top, top = stk[Len(stk)], stk # <<>>, top.next \in Nat,
           NEW f \in FrameSet, NEW stk2, Descended(stk, stk2, top, f), NEW st2, Nest(w, st2, stk2),
           \A p \in DOMAIN st : ~Inside(f.at, p) => st2[p] = st[p],
           \A p \in DOMAIN st2 : ~Inside(f.at, p) => p \in DOMAIN st,
           Len(f.at) = Len(stk), World(w), Reads(w, st2, f)
    PROVE  Reading(w, st2, stk2)
<1>1. PICK n \in Nat \ {0} : n = Len(stk) /\ Depth(stk) = 1 .. n /\ Depth(stk2) = 1 .. n + 1
  BY TopOfStack DEF Nest, Descended, Depth
<1>2. ASSUME NEW i \in 1 .. n PROVE Reads(w, st2, stk2[i])
  <2>1. /\ stk2[i].at = stk[i].at /\ stk2[i].src = stk[i].src
        /\ i # n => stk2[i] = stk[i]
        /\ stk2[n].next = top.next + 1 /\ stk2[n + 1] = f
    BY <1>1 DEF Descended
  <2>2. PICK g \in FrameSet : g = stk[i]
    <3>1. stk \in Seq(FrameSet) /\ i \in 1 .. Len(stk)
      BY <1>1 DEF Nest
    <3> QED BY <3>1, ElementOfSeq
  <2>3. PICK g2 \in FrameSet : g2 = stk2[i]
    <3>1. stk2 \in Seq(FrameSet) /\ i \in 1 .. Len(stk2)
      BY <1>1 DEF Nest, Descended
    <3> QED BY <3>1, ElementOfSeq
  <2>4. g.next \in Nat /\ g2.next \in Nat /\ g2.next >= g.next /\ g.at \in Path /\ g2.at = g.at /\ g2.src = g.src
    <3>1. g.next \in Nat /\ g2.next \in Nat /\ g.at \in Path
      BY DEF FrameSet
    <3>2. CASE i = n
      <4>1. g = top /\ g2.next = top.next + 1
        BY <1>1, <2>1, <2>2, <2>3, <3>2
      <4> QED BY <2>1, <2>2, <2>3, <3>1, <4>1
    <3>3. CASE i # n
      BY <2>1, <2>2, <2>3, <3>1, <3>3
    <3> QED BY <3>2, <3>3
  <2>5. /\ g2.next >= 2 /\ Ready(w, g2) /\ g.at \in DOMAIN st /\ Len(g.at) = i - 1
        /\ Inside(g2.at \o <<NameAt(w, g2, g2.next - 1)>>, f.at)
    <3>1. i \in 1 .. n + 1 /\ n + 1 \in 1 .. n + 1 /\ i < n + 1
      BY <1>1
    <3>2. g2.next >= 2 /\ Ready(w, g2) /\ Inside(g2.at \o <<NameAt(w, g2, g2.next - 1)>>, f.at)
      BY <1>1, <2>1, <2>3, <3>1 DEF Nest
    <3> QED BY <1>1, <2>2, <3>2 DEF Nest
  <2>6. PICK m \in Name : m = NameAt(w, g2, g2.next - 1)
    BY <2>5, LastNamed
  <2>7. Came(w, g2, m)
    <3>1. g2.next - 1 \in Nat \ {0} /\ g2.next - 1 < g2.next
      BY <2>4, <2>5
    <3> QED BY <2>6, <3>1 DEF Came
  <2>8. Reads(w, st, g)
    BY <1>1, <2>2 DEF Reading
  <2>9. st2[g2.at].from = g2.src
    <3>1. ~Inside(f.at, g.at)
      <4>1. Len(g.at) < Len(f.at) /\ Len(g.at) \in Nat /\ Len(f.at) \in Nat
        BY <1>1, <2>5
      <4> QED BY <4>1 DEF Inside, IsPathPrefix
    <3>2. st2[g.at] = st[g.at] /\ st[g.at].from = g.src
      BY <2>5, <2>8, <3>1 DEF Reads
    <3> QED BY <2>4, <3>2
  <2>10. Untouched(w, st2, g2)
    <3> SUFFICES ASSUME NEW k \in Name, NEW y \in Path, ~Came(w, g2, k), NEW p,
                        p = (g2.at \o <<k>>) \o y, ChartAt(w, st2, p)
                 PROVE  st2[p].from = (g2.src \o <<k>>) \o y
      BY DEF Untouched
    <3>1. ~Came(w, g, k)
      BY <2>4, CameBefore
    <3>2. ~Inside(f.at, p)
      <4> SUFFICES ASSUME Inside(f.at, p) PROVE FALSE
        OBVIOUS
      <4>1. g.at \o <<k>> \in Path /\ g.at \o <<m>> \in Path /\ f.at \in Path
        BY <2>4, ConcatOne DEF FrameSet
      <4>2. p \in Path /\ Inside(g.at \o <<k>>, p)
        <5>1. PICK c \in Path : c = g.at \o <<k>>
          BY <4>1
        <5>2. p = c \o y
          BY <2>4, <5>1
        <5>3. c \o y \in Path /\ Inside(c, c \o y)
          BY <5>1, RelOfConcat, ConcatProperties DEF Path
        <5> QED BY <5>1, <5>2, <5>3
      <4>3. Inside(g.at \o <<m>>, f.at)
        BY <2>4, <2>5, <2>6
      <4>4. Inside(g.at \o <<m>>, p)
        BY <4>1, <4>2, <4>3, InsideTransitive DEF Path
      <4>5. PICK a \in Path : a = g.at
        BY <2>4
      <4>6. Inside(a \o <<k>>, p) /\ Inside(a \o <<m>>, p) /\ p \in Path
        BY <4>2, <4>4, <4>5
      <4>7. k = m
        BY <4>6, OneChild
      <4> QED BY <2>7, <4>7
    <3>3. p \in DOMAIN st /\ st2[p] = st[p]
      BY <3>2 DEF ChartAt
    <3>4. ChartAt(w, st, p)
      BY <3>3 DEF ChartAt
    <3>5. st[p].from = (g.src \o <<k>>) \o y
      BY <2>4, <2>8, <3>1, <3>4 DEF Reads, Untouched
    <3> QED BY <2>4, <3>3, <3>5
  <2> QED BY <2>3, <2>9, <2>10 DEF Reads
<1>3. stk2[n + 1] = f
  BY <1>1 DEF Descended
<1> SUFFICES ASSUME NEW i \in 1 .. n + 1 PROVE Reads(w, st2, stk2[i])
  BY <1>1 DEF Reading
<1>4. CASE i = n + 1
  BY <1>3, <1>4
<1>5. CASE i # n + 1
  <2>1. i \in 1 .. n
    BY <1>5
  <2> QED BY <1>2, <2>1
<1> QED BY <1>4, <1>5

-----------------------------------------------------------------------------
(* What is done for a chart, and what still is to be done.                 *)

IsPinned(pn, l) == \E i \in DOMAIN pn : pn[i] = Archive(l)
PinsGrow(pn, pn2) == \A i \in DOMAIN pn : i \in DOMAIN pn2 /\ pn2[i] = pn[i]
PresentAt(w, st, p, l) == ChartAt(w, st, p \o <<l.name>>) \/ Archive(l) \in st[p].tgz
Settled(w, st, pn, p) ==
    w[st[p].from].deps # <<>> =>
        \A l \in LockEntries(w[st[p].from]) : IsPinned(pn, l) /\ PresentAt(w, st, p, l)

(* ClosedCharts, of a stage.                                               *)
ClosedAt(w, st, p) ==
    /\ p \in DOMAIN st
    /\ \A i \in 0 .. Len(p) : ChartAt(w, st, SubSeq(p, 1, i))
    /\ \A i \in 1 .. Len(p) :
         LET above == SubSeq(p, 1, i - 1) IN
         /\ w[st[above].from].deps # <<>>
         /\ \E l \in LockEntries(w[st[above].from]) : l.name = p[i]
         /\ \A l \in LockEntries(w[st[above].from]) : l.name = p[i] => Archive(l) \notin st[above].tgz

(* The dependencies a frame came to are pinned and there, but for the one  *)
(* that is about to be entered.                                            *)
Done(w, st, pn, f, j) == IsPinned(pn, LockOf(w, f)[j]) /\ PresentAt(w, st, f.at, LockOf(w, f)[j])
Handled(w, st, pn, f) == \A j \in Nat \ {0} : j < f.next => Done(w, st, pn, f, j)
HandledBut(w, st, pn, f, newest) ==
    \A j \in Nat \ {0} : j < f.next =>
        \/ Done(w, st, pn, f, j)
        \/ /\ IsPinned(pn, LockOf(w, f)[j])
           /\ newest.next = 0 /\ newest.at = f.at \o <<NameAt(w, f, j)>>

(* A chart will be closed by a frame: it is the frame's, or below a        *)
(* dependency the frame did not come to yet.                               *)
Pending(w, f, p) ==
    /\ Inside(f.at, p)
    /\ \/ p = f.at
       \/ f.next = 0
       \/ \E j \in Nat \ {0} :
            j >= f.next /\ j <= Len(LockOf(w, f)) /\ NameAt(w, f, j) = p[Len(f.at) + 1]

AllHandled(w, st, stk, pn) == \A i \in Depth(stk) : HandledBut(w, st, pn, stk[i], stk[Len(stk)])
Tended(w, st, stk, pn) ==
    \A p \in Path : ClosedAt(w, st, p) =>
        Settled(w, st, pn, p) \/ \E i \in Depth(stk) : Pending(w, stk[i], p)

LEMMA Beginning ==
    ASSUME NEW p \in Path, NEW i \in 0 .. Len(p)
    PROVE  SubSeq(p, 1, i) \in Path /\ Len(SubSeq(p, 1, i)) = i /\ Inside(SubSeq(p, 1, i), p)
<1>1. i \in Nat /\ i <= Len(p) /\ Len(p) \in Nat
  BY DEF Path
<1>2. \A k \in 1 .. i : p[k] \in Name
  BY <1>1 DEF Path
<1>3. PICK q : q = SubSeq(p, 1, i)
  OBVIOUS
<1>4. q \in Seq(Name) /\ Len(q) = i
  BY <1>1, <1>2, <1>3, SubSeqProperties
<1> QED BY <1>1, <1>3, <1>4 DEF Inside, IsPathPrefix, Path

(* A chart closed in a later stage was closed, if nothing on the way to it *)
(* came from elsewhere.                                                    *)
LEMMA ClosedBefore ==
    ASSUME NEW w, NEW st, NEW st2, NEW p \in Path, ClosedAt(w, st2, p),
           \A q \in DOMAIN st2 : Inside(q, p) =>
              q \in DOMAIN st /\ st2[q].from = st[q].from /\ st[q].tgz \subseteq st2[q].tgz
    PROVE  ClosedAt(w, st, p) /\ st2[p].from = st[p].from
<1>1. ASSUME NEW i \in 0 .. Len(p), NEW q, q = SubSeq(p, 1, i)
      PROVE  /\ q \in DOMAIN st /\ st2[q].from = st[q].from /\ st[q].tgz \subseteq st2[q].tgz
             /\ ChartAt(w, st, q)
  <2>1. ChartAt(w, st2, q) /\ Inside(q, p)
    BY <1>1, Beginning DEF ClosedAt
  <2> QED BY <2>1 DEF ChartAt
<1>2. p \in DOMAIN st /\ st2[p].from = st[p].from
  BY InsideItself DEF ClosedAt
<1>3. ASSUME NEW i \in 1 .. Len(p), NEW above, above = SubSeq(p, 1, i - 1)
      PROVE  /\ w[st[above].from].deps # <<>>
             /\ \E l \in LockEntries(w[st[above].from]) : l.name = p[i]
             /\ \A l \in LockEntries(w[st[above].from]) : l.name = p[i] => Archive(l) \notin st[above].tgz
  <2>1. i - 1 \in 0 .. Len(p)
    BY DEF Path
  <2>2. st2[above].from = st[above].from /\ st[above].tgz \subseteq st2[above].tgz
    BY <1>1, <1>3, <2>1
  <2>3. /\ w[st2[above].from].deps # <<>>
        /\ \E l \in LockEntries(w[st2[above].from]) : l.name = p[i]
        /\ \A l \in LockEntries(w[st2[above].from]) : l.name = p[i] => Archive(l) \notin st2[above].tgz
    BY <1>3 DEF ClosedAt
  <2> QED BY <2>2, <2>3
<1> QED BY <1>1, <1>2, <1>3 DEF ClosedAt

LEMMA SettledStays ==
    ASSUME NEW w, NEW st, NEW pn, NEW p \in DOMAIN st, Settled(w, st, pn, p),
           NEW st2, Grows(w, st, st2), st2[p].from = st[p].from,
           NEW pn2, PinsGrow(pn, pn2)
    PROVE  Settled(w, st2, pn2, p)
<1>1. st[p].tgz \subseteq st2[p].tgz
  BY DEF Grows
<1>2. \A l : IsPinned(pn, l) => IsPinned(pn2, l)
  BY DEF IsPinned, PinsGrow
<1>3. \A l : PresentAt(w, st, p, l) => PresentAt(w, st2, p, l)
  BY <1>1 DEF PresentAt, Grows
<1> QED BY <1>2, <1>3 DEF Settled

LEMMA HandledStays ==
    ASSUME NEW w, NEW st, NEW pn, NEW f, Handled(w, st, pn, f), f.at \in DOMAIN st,
           NEW st2, Grows(w, st, st2), NEW pn2, PinsGrow(pn, pn2),
           NEW f2, f2.at = f.at, f2.src = f.src
    PROVE  \A j \in Nat \ {0} : j < f.next => Done(w, st2, pn2, f2, j)
<1>1. st[f.at].tgz \subseteq st2[f.at].tgz
  BY DEF Grows
<1>2. \A l : IsPinned(pn, l) => IsPinned(pn2, l)
  BY DEF IsPinned, PinsGrow
<1>3. \A l : PresentAt(w, st, f.at, l) => PresentAt(w, st2, f.at, l)
  BY <1>1 DEF PresentAt, Grows
<1> QED BY <1>2, <1>3 DEF Handled, Done, LockOf

(* Where the innermost chart is one, no dependency is missing.             *)
LEMMA HandledHere ==
    ASSUME NEW w, NEW st, NEW stk, NEW pn, AllHandled(w, st, stk, pn),
           ChartAt(w, st, stk[Len(stk)].at)
    PROVE  \A i \in Depth(stk) : Handled(w, st, pn, stk[i])
<1> SUFFICES ASSUME NEW i \in Depth(stk), NEW j \in Nat \ {0}, j < stk[i].next
             PROVE  Done(w, st, pn, stk[i], j)
  BY DEF Handled
<1>1. CASE Done(w, st, pn, stk[i], j)
  BY <1>1
<1>2. CASE IsPinned(pn, LockOf(w, stk[i])[j]) /\ stk[Len(stk)].at = stk[i].at \o <<NameAt(w, stk[i], j)>>
  BY <1>2 DEF Done, PresentAt, NameAt, LockOf
<1> QED BY <1>1, <1>2 DEF AllHandled, HandledBut

LEMMA AnyNewest ==
    ASSUME NEW w, NEW st, NEW pn, NEW f, Handled(w, st, pn, f), NEW newest
    PROVE  HandledBut(w, st, pn, f, newest)
BY DEF Handled, HandledBut

(* A frame returns, nothing left to do for its chart.                      *)
LEMMA DonePopped ==
    ASSUME NEW w, NEW st, NEW stk \in Seq(FrameSet), stk # <<>>, NEW pn, NEW stk2, Popped(stk, stk2),
           \A i \in Depth(stk) : Handled(w, st, pn, stk[i]),
           Tended(w, st, stk, pn),
           \A p \in Path : ClosedAt(w, st, p) /\ Pending(w, stk[Len(stk)], p) => Settled(w, st, pn, p)
    PROVE  AllHandled(w, st, stk2, pn) /\ Tended(w, st, stk2, pn)
<1>1. PICK n \in Nat : n = Len(stk) /\ Len(stk2) = n - 1 /\ Depth(stk) = 1 .. n /\ Depth(stk2) = 1 .. n - 1
  BY TopOfStack DEF Popped, Depth
<1>2. \A i \in Depth(stk2) : i \in Depth(stk) /\ stk2[i] = stk[i]
  BY <1>1 DEF Popped
<1>3. AllHandled(w, st, stk2, pn)
  BY <1>2, AnyNewest DEF AllHandled
<1>4. ASSUME NEW p \in Path, ClosedAt(w, st, p), ~Settled(w, st, pn, p)
      PROVE  \E i \in Depth(stk2) : Pending(w, stk2[i], p)
  <2>1. PICK i \in Depth(stk) : Pending(w, stk[i], p)
    BY <1>4 DEF Tended
  <2>2. i # n
    BY <1>1, <1>4, <2>1
  <2>3. i \in Depth(stk2)
    BY <1>1, <2>2
  <2> QED BY <1>2, <2>1, <2>3
<1> QED BY <1>3, <1>4 DEF Tended

(* A frame moves on, over what is done.                                    *)
LEMMA DoneMoved ==
    ASSUME NEW w, NEW st, NEW stk, Nest(w, st, stk), stk # <<>>, NEW pn,
           NEW next \in Nat, NEW stk2, Moved(stk, stk2, next),
           \A i \in Depth(stk) : Handled(w, st, pn, stk[i]),
           Tended(w, st, stk, pn),
           NEW st2, Grows(w, st, st2), DOMAIN st2 = DOMAIN st,
           \A p \in DOMAIN st : st2[p].from = st[p].from,
           NEW pn2, PinsGrow(pn, pn2),
           \A j \in Nat \ {0} : j < next =>
              j < stk[Len(stk)].next \/ Done(w, st2, pn2, stk[Len(stk)], j),
           \A p \in Path : ClosedAt(w, st2, p) /\ Pending(w, stk[Len(stk)], p) =>
              Pending(w, stk2[Len(stk)], p)
    PROVE  AllHandled(w, st2, stk2, pn2) /\ Tended(w, st2, stk2, pn2)
<1>1. PICK n \in Nat \ {0} : n = Len(stk) /\ Len(stk2) = n /\ Depth(stk) = 1 .. n /\ Depth(stk2) = 1 .. n
  BY TopOfStack DEF Nest, Moved, Depth
<1>2. ASSUME NEW i \in 1 .. n
      PROVE  /\ stk2[i].at = stk[i].at /\ stk2[i].src = stk[i].src /\ (i # n => stk2[i] = stk[i])
             /\ stk[i].at \in DOMAIN st /\ Handled(w, st, pn, stk[i])
  BY <1>1 DEF Moved, Nest
<1>3. ASSUME NEW i \in 1 .. n PROVE Handled(w, st2, pn2, stk2[i])
  <2>1. PICK f, f2 : f = stk[i] /\ f2 = stk2[i]
    OBVIOUS
  <2>2. f2.at = f.at /\ f2.src = f.src /\ f.at \in DOMAIN st /\ Handled(w, st, pn, f)
    BY <1>2, <2>1
  <2>3. \A j \in Nat \ {0} : j < f.next => Done(w, st2, pn2, f2, j)
    BY <2>2, HandledStays
  <2>4. CASE i # n
    BY <1>2, <2>1, <2>3, <2>4 DEF Handled
  <2>5. CASE i = n
    <3>1. f2.next = next
      BY <1>1, <2>1, <2>5 DEF Moved
    <3>2. \A j : Done(w, st2, pn2, f, j) => Done(w, st2, pn2, f2, j)
      BY <2>2 DEF Done, LockOf
    <3>3. \A j \in Nat \ {0} : j < next => Done(w, st2, pn2, f2, j)
      BY <1>1, <2>1, <2>3, <2>5, <3>2
    <3>4. Handled(w, st2, pn2, f2)
      BY <3>1, <3>3 DEF Handled
    <3> QED BY <2>1, <3>4
  <2> QED BY <2>4, <2>5
<1>4. AllHandled(w, st2, stk2, pn2)
  BY <1>1, <1>3, AnyNewest DEF AllHandled
<1>5. ASSUME NEW p \in Path, ClosedAt(w, st2, p)
      PROVE  Settled(w, st2, pn2, p) \/ \E i \in Depth(stk2) : Pending(w, stk2[i], p)
  <2>1. ClosedAt(w, st, p) /\ st2[p].from = st[p].from
    BY <1>5, ClosedBefore DEF Grows
  <2>2. CASE Settled(w, st, pn, p)
    <3>1. p \in DOMAIN st
      BY <2>1 DEF ClosedAt
    <3> QED BY <2>1, <2>2, <3>1, SettledStays
  <2>3. ASSUME NEW i \in 1 .. n, Pending(w, stk[i], p) PROVE Pending(w, stk2[i], p)
    <3>1. CASE i # n
      BY <1>2, <2>3, <3>1
    <3>2. CASE i = n
      BY <1>1, <1>5, <2>3, <3>2
    <3> QED BY <3>1, <3>2
  <2> QED BY <1>1, <2>1, <2>2, <2>3 DEF Tended
<1> QED BY <1>4, <1>5 DEF Tended

(* A chart is descended into: it is all to be done.                        *)
LEMMA DoneDescended ==
    ASSUME NEW w, NEW st, NEW stk, Sound(w, st, stk), NEW top, NEW l, Coming(w, stk, top, l), NEW pn,
           NEW f, f.next = 0, f.at = top.at \o <<l.name>>,
           NEW stk2, Descended(stk, stk2, top, f),
           \A i \in Depth(stk) : Handled(w, st, pn, stk[i]),
           Tended(w, st, stk, pn),
           NEW st2, Staged(w, st2), Grows(w, st, st2),
           \A p \in DOMAIN st : ~Inside(f.at, p) => st2[p] = st[p],
           \A p \in DOMAIN st2 : ~Inside(f.at, p) => p \in DOMAIN st,
           NEW pn2, PinsGrow(pn, pn2), IsPinned(pn2, l)
    PROVE  AllHandled(w, st2, stk2, pn2) /\ Tended(w, st2, stk2, pn2)
<1>1. PICK n \in Nat \ {0} : /\ n = Len(stk) /\ Len(stk2) = n + 1 /\ top = stk[n]
                             /\ Depth(stk) = 1 .. n /\ Depth(stk2) = 1 .. n + 1
  BY TopOfStack DEF Sound, Nest, Coming, Descended, Depth
<1>2. ASSUME NEW i \in 1 .. n
      PROVE  /\ stk2[i].at = stk[i].at /\ stk2[i].src = stk[i].src /\ (i # n => stk2[i] = stk[i])
             /\ stk[i].at \in DOMAIN st /\ Handled(w, st, pn, stk[i])
  BY <1>1 DEF Descended, Sound, Nest
<1>3. stk2[n].next = top.next + 1 /\ stk2[n + 1] = f /\ f.next = 0
  BY <1>1 DEF Descended
<1>4. PICK m \in Nat \ {0} : m = top.next
  <2>1. top.next \in Nat /\ top.next \in 1 .. Len(LockOf(w, top))
    BY DEF Coming, FrameSet
  <2> QED BY <2>1
<1>5. m <= Len(LockOf(w, top)) /\ LockOf(w, top)[m] = l /\ NameAt(w, top, m) = l.name
  <2>1. m \in 1 .. Len(LockOf(w, top)) /\ l = LockOf(w, top)[m]
    BY <1>4 DEF Coming
  <2>2. m <= Len(LockOf(w, top))
    BY <2>1
  <2>3. NameAt(w, top, m) = l.name
    BY <2>1 DEF LockOf, NameAt
  <2> QED BY <2>1, <2>2, <2>3
<1>6. ASSUME NEW i \in 1 .. n PROVE HandledBut(w, st2, pn2, stk2[i], f)
  <2>1. PICK g, g2 : g = stk[i] /\ g2 = stk2[i]
    OBVIOUS
  <2>2. g2.at = g.at /\ g2.src = g.src /\ g.at \in DOMAIN st /\ Handled(w, st, pn, g)
    BY <1>2, <2>1
  <2>3. \A j \in Nat \ {0} : j < g.next => Done(w, st2, pn2, g2, j)
    BY <2>2, HandledStays
  <2>4. CASE i # n
    <3>1. Handled(w, st2, pn2, g2)
      BY <1>2, <2>1, <2>3, <2>4 DEF Handled
    <3> QED BY <2>1, <3>1, AnyNewest
  <2>5. CASE i = n
    <3>1. g = top /\ g2.next = m + 1 /\ g.next = m /\ g2.at = top.at /\ g2.src = top.src
      BY <1>1, <1>3, <1>4, <2>1, <2>2, <2>5
    <3>2. ASSUME NEW j \in Nat \ {0}, j < m + 1, j # m PROVE Done(w, st2, pn2, g2, j)
      BY <2>3, <3>1, <3>2
    <3>3. /\ IsPinned(pn2, LockOf(w, g2)[m])
          /\ f.at = g2.at \o <<NameAt(w, g2, m)>>
      <4>1. LockOf(w, g2)[m] = l
        BY <1>5, <3>1 DEF LockOf
      <4>2. NameAt(w, g2, m) = l.name
        BY <1>5, <3>1 DEF NameAt
      <4> QED BY <3>1, <4>1, <4>2
    <3>4. HandledBut(w, st2, pn2, g2, f)
      BY <1>3, <3>1, <3>2, <3>3 DEF HandledBut
    <3> QED BY <2>1, <3>4
  <2> QED BY <2>4, <2>5
<1>7. HandledBut(w, st2, pn2, f, f)
  BY <1>3 DEF HandledBut
<1>8. AllHandled(w, st2, stk2, pn2)
  <2> SUFFICES ASSUME NEW i \in 1 .. n + 1 PROVE HandledBut(w, st2, pn2, stk2[i], f)
    BY <1>1, <1>3 DEF AllHandled
  <2>1. CASE i = n + 1
    BY <1>3, <1>7, <2>1
  <2>2. CASE i # n + 1
    <3>1. i \in 1 .. n
      BY <2>2
    <3> QED BY <1>6, <3>1
  <2> QED BY <2>1, <2>2
<1>9. ASSUME NEW p \in Path, ClosedAt(w, st2, p)
      PROVE  Settled(w, st2, pn2, p) \/ \E i \in Depth(stk2) : Pending(w, stk2[i], p)
  <2>1. CASE Inside(f.at, p)
    <3>1. Pending(w, f, p)
      BY <1>3, <2>1 DEF Pending
    <3>2. n + 1 \in Depth(stk2)
      BY <1>1
    <3> QED BY <1>3, <3>1, <3>2
  <2>2. CASE ~Inside(f.at, p)
    <3>1. ASSUME NEW q \in DOMAIN st2, Inside(q, p) PROVE ~Inside(f.at, q)
      <4>1. f.at \in Path /\ q \in Path
        BY ComingNamed DEF Staged
      <4> QED BY <2>2, <3>1, <4>1, InsideTransitive DEF Path
    <3>2. \A q \in DOMAIN st2 : Inside(q, p) => q \in DOMAIN st /\ st2[q] = st[q]
      BY <3>1
    <3>3. ClosedAt(w, st, p) /\ st2[p].from = st[p].from
      BY <1>9, <3>2, ClosedBefore
    <3>4. CASE Settled(w, st, pn, p)
      <4>1. p \in DOMAIN st
        BY <3>3 DEF ClosedAt
      <4> QED BY <3>3, <3>4, <4>1, SettledStays
    <3>5. ASSUME NEW i \in 1 .. n, Pending(w, stk[i], p) PROVE Pending(w, stk2[i], p)
      <4>1. CASE i # n
        BY <1>2, <3>5, <4>1
      <4>2. CASE i = n
        <5>1. PICK g : g = stk2[n] /\ g.at = top.at /\ g.src = top.src /\ g.next = m + 1
          BY <1>1, <1>2, <1>3, <1>4, <4>2
        <5>2. Inside(top.at, p) /\ top.next # 0
          BY <1>1, <1>4, <3>5, <4>2 DEF Pending
        <5>3. CASE p = top.at
          BY <4>2, <5>1, <5>2, <5>3 DEF Pending
        <5>4. CASE p # top.at
          <6>1. PICK j \in Nat \ {0} : /\ j >= m /\ j <= Len(LockOf(w, top))
                                       /\ NameAt(w, top, j) = p[Len(top.at) + 1]
            BY <1>1, <1>4, <3>5, <4>2, <5>2, <5>4 DEF Pending
          <6>2. j # m
            <7> SUFFICES ASSUME j = m PROVE FALSE
              OBVIOUS
            <7>1. Inside(top.at \o <<p[Len(top.at) + 1]>>, p)
              BY <5>2, <5>4, ComingNamed, ChildOf
            <7> QED BY <1>5, <2>2, <6>1, <7>1
          <6>3. j >= m + 1
            BY <6>1, <6>2
          <6>4. j <= Len(LockOf(w, g)) /\ NameAt(w, g, j) = p[Len(g.at) + 1]
            BY <5>1, <6>1 DEF LockOf, NameAt
          <6>5. Pending(w, g, p)
            BY <5>1, <5>2, <6>3, <6>4 DEF Pending
          <6> QED BY <4>2, <5>1, <6>5
        <5> QED BY <5>3, <5>4
      <4> QED BY <4>1, <4>2
    <3>6. ASSUME NEW i \in 1 .. n PROVE i \in Depth(stk2)
      BY <1>1
    <3> QED BY <1>1, <3>3, <3>4, <3>5, <3>6 DEF Tended
  <2> QED BY <2>1, <2>2
<1> QED BY <1>8, <1>9 DEF Tended

-----------------------------------------------------------------------------
(* Each step of closeChart, in those terms.                                *)

LEMMA EntersChart ==
    ASSUME Sound(disk, stage, stack), EnterChart
    PROVE  /\ stack # <<>> /\ stack[Len(stack)].next = 0
           /\ ChartOn(disk, stack[Len(stack)].src) /\ Len(stack) - 1 <= MaxDepth
           /\ stack' \in Seq(FrameSet)
           /\ \/ disk[stack[Len(stack)].src].deps = <<>> /\ Popped(stack, stack')
              \/ /\ disk[stack[Len(stack)].src].deps # <<>>
                 /\ LockOf(disk, stack[Len(stack)]) # NoLock
                 /\ Moved(stack, stack', 1)
<1>1. stack \in Seq(FrameSet)
  BY DEF Sound, Nest
<1>2. /\ stack # <<>> /\ Top = stack[Len(stack)] /\ Top.next = 0 /\ ChartError = "none"
      /\ stack' = IF Meta.deps = <<>> THEN Below ELSE [stack EXCEPT ![Len(stack)].next = 1]
  BY DEF EnterChart, Entering, Top
<1>3. Len(stack) \in Nat
  BY <1>1
<1>4. /\ ~(Len(stack) - 1 > MaxDepth) /\ Top.src \in DOMAIN disk /\ Meta.chart
      /\ Meta.deps # <<>> => Meta.lock # NoLock
  BY <1>2 DEF ChartError
<1>5. Len(stack) - 1 <= MaxDepth
  BY <1>3, <1>4, DepthAssumption
<1>6. ChartOn(disk, stack[Len(stack)].src)
  BY <1>2, <1>4 DEF ChartOn, Meta
<1>7. CASE Meta.deps = <<>>
  <2>1. stack' = SubSeq(stack, 1, Len(stack) - 1)
    BY <1>2, <1>7 DEF Below
  <2>2. stack' \in Seq(FrameSet) /\ Popped(stack, stack')
    BY <1>1, <1>2, <2>1, PopStack
  <2> QED BY <1>2, <1>5, <1>6, <1>7, <2>2 DEF Meta
<1>8. CASE Meta.deps # <<>>
  <2>1. stack' = [stack EXCEPT ![Len(stack)].next = 1]
    BY <1>2, <1>8
  <2>2. PICK next \in Nat, stk \in Seq(FrameSet) : next = 1 /\ stk = stack /\ stk # <<>>
    BY <1>1, <1>2
  <2>3. PICK stk2 : stk2 = [stk EXCEPT ![Len(stk)].next = next]
    OBVIOUS
  <2>4. stk2 \in Seq(FrameSet) /\ Moved(stk, stk2, next)
    BY <2>2, <2>3, MoveStack, Zenon
  <2>5. stack' = stk2
    BY <2>1, <2>2, <2>3
  <2>6. stack' \in Seq(FrameSet) /\ Moved(stack, stack', 1)
    BY <2>2, <2>4, <2>5
  <2> QED BY <1>2, <1>4, <1>5, <1>6, <1>8, <2>6 DEF Meta, LockOf
<1> QED BY <1>7, <1>8

LEMMA ReturnsFromChart ==
    ASSUME Sound(disk, stage, stack), ReturnFromChart
    PROVE  /\ stack # <<>> /\ stack[Len(stack)].next > 0
           /\ stack[Len(stack)].next > Len(LockOf(disk, stack[Len(stack)]))
           /\ stack' \in Seq(FrameSet) /\ Popped(stack, stack')
<1>1. stack \in Seq(FrameSet)
  BY DEF Sound, Nest
<1>2. /\ stack # <<>> /\ Top = stack[Len(stack)] /\ Top.next > 0 /\ Top.next > Len(Meta.lock)
      /\ stack' = SubSeq(stack, 1, Len(stack) - 1)
  BY DEF ReturnFromChart, Closing, Top, Below
<1>3. stack' \in Seq(FrameSet) /\ Popped(stack, stack')
  BY <1>1, <1>2, PopStack
<1> QED BY <1>2, <1>3 DEF Meta, LockOf

LEMMA Advances ==
    ASSUME Sound(disk, stage, stack), OneDependency
    PROVE  Advanced \in Seq(FrameSet) /\ Moved(stack, Advanced, Top.next + 1)
<1>1. stack \in Seq(FrameSet) /\ stack # <<>> /\ Top = stack[Len(stack)] /\ Top \in FrameSet
  BY ComesToDependency DEF Sound, Nest, Coming
<1>2. Top.next + 1 \in Nat
  BY <1>1 DEF FrameSet
<1>3. Advanced = [stack EXCEPT ![Len(stack)].next = Top.next + 1]
  BY <1>1 DEF Advanced
<1> QED BY <1>1, <1>2, <1>3, MoveStack

LEMMA KeepsArchive ==
    ASSUME Sound(disk, stage, stack), KeepArchive
    PROVE  /\ Coming(disk, stack, Top, Locked)
           /\ stack' \in Seq(FrameSet) /\ Moved(stack, stack', Top.next + 1)
           /\ Archive(Locked) \in stage[Top.at].tgz
           /\ pins' = Append(pins, Archive(Locked))
BY Advances, ComesToDependency DEF KeepArchive, ArchiveThere, Pinned

LEMMA Brings ==
    ASSUME Sound(disk, stage, stack), Downloading, Brought
    PROVE  /\ Coming(disk, stack, Top, Locked)
           /\ stack' \in Seq(FrameSet) /\ Moved(stack, stack', Top.next + 1)
           /\ Top.at \in DOMAIN stage /\ Added(stage, Top.at, Archive(Locked), stage')
           /\ pins' = Append(pins, Archive(Locked))
<1>1. OneDependency
  BY DEF Downloading, Absent
<1>2. Coming(disk, stack, Top, Locked)
  BY <1>1, ComesToDependency
<1>3. Advanced \in Seq(FrameSet) /\ Moved(stack, Advanced, Top.next + 1)
  BY <1>1, Advances
<1>4. Top.at \in DOMAIN stage
  BY <1>2, ComingNamed
<1>5. PICK at, a : at = Top.at /\ a = Archive(Locked)
  OBVIOUS
<1>6. stage' = [stage EXCEPT ![at].tgz = @ \cup {a}]
  BY <1>5 DEF Brought
<1>7. Added(stage, at, a, stage')
  BY <1>4, <1>5, <1>6, BringAdds DEF Sound
<1> QED BY <1>2, <1>3, <1>4, <1>5, <1>7 DEF Brought, Pinned

(* A frame put on that moved on.                                           *)
LEMMA Descends ==
    ASSUME Sound(disk, stage, stack), OneDependency, NEW src \in Path \ {<<>>},
           stack' = Append(Advanced, Frame(src, At))
    PROVE  \E f \in FrameSet, stk1 \in Seq(FrameSet) :
             /\ f = Frame(src, At) /\ f.src = src /\ f.at = Top.at \o <<Locked.name>> /\ f.next = 0
             /\ stk1 = Advanced /\ Moved(stack, stk1, Top.next + 1)
             /\ stack' \in Seq(FrameSet) /\ Pushed(stk1, stack', f)
<1>1. Coming(disk, stack, Top, Locked)
  BY ComesToDependency
<1>2. At \in Path
  BY <1>1, ComingNamed DEF At
<1>3. PICK f : f = Frame(src, At)
  OBVIOUS
<1>4. f \in FrameSet /\ f.src = src /\ f.at = Top.at \o <<Locked.name>> /\ f.next = 0
  BY <1>2, <1>3 DEF Frame, FrameSet, At
<1>5. PICK stk1 \in Seq(FrameSet) : stk1 = Advanced /\ Moved(stack, stk1, Top.next + 1)
  BY Advances
<1>6. stack' \in Seq(FrameSet) /\ Pushed(stk1, stack', f)
  BY <1>3, <1>4, <1>5, PushStack
<1> QED BY <1>3, <1>4, <1>5, <1>6

(* What a step that descends leaves: the frames nest, and are read from    *)
(* where they were staged.                                                 *)
Entered(w, st, stk, top, l, f, st2, stk2) ==
    /\ f \in FrameSet /\ f.at = top.at \o <<l.name>> /\ f.next = 0
    /\ Descended(stk, stk2, top, f)
    /\ Nest(w, st2, stk2)
    /\ Staged(w, st2) /\ Grows(w, st, st2)
    /\ \A p \in DOMAIN st : ~Inside(f.at, p) => st2[p] = st[p]
    /\ \A p \in DOMAIN st2 : ~Inside(f.at, p) => p \in DOMAIN st

LEMMA KeepsUnpacked ==
    ASSUME Sound(disk, stage, stack), KeepUnpacked
    PROVE  /\ Coming(disk, stack, Top, Locked)
           /\ ChartAt(disk, stage, Top.at \o <<Locked.name>>)
           /\ pins' = Append(pins, Archive(Locked))
           /\ \E f : /\ Entered(disk, stage, stack, Top, Locked, f, stage, stack')
                     /\ f.src = Top.src \o <<Locked.name>>
<1>1. /\ OneDependency /\ IsChart(stage, At) /\ Pinned
      /\ stack' = Append(Advanced, Frame(Top.src \o <<Locked.name>>, At))
  BY DEF KeepUnpacked
<1>2. Coming(disk, stack, Top, Locked)
  BY <1>1, ComesToDependency
<1>3. PICK src \in Path \ {<<>>} : src = Top.src \o <<Locked.name>>
  BY <1>2, ComingNamed
<1>4. PICK f \in FrameSet, stk1 \in Seq(FrameSet) :
        /\ f = Frame(src, At) /\ f.src = src /\ f.at = Top.at \o <<Locked.name>> /\ f.next = 0
        /\ stk1 = Advanced /\ Moved(stack, stk1, Top.next + 1)
        /\ stack' \in Seq(FrameSet) /\ Pushed(stk1, stack', f)
  BY <1>1, <1>3, Descends
<1>5. ChartAt(disk, stage, f.at)
  BY <1>1, <1>4 DEF IsChart, ChartAt, At
<1>6. f.at \in DOMAIN stage
  BY <1>5 DEF ChartAt
<1>7. Nest(disk, stage, stack')
  BY <1>2, <1>4, <1>6, NestDescends DEF Sound
<1>8. Descended(stack, stack', Top, f)
  BY <1>2, <1>4, DescendsTo
<1>9. Entered(disk, stage, stack, Top, Locked, f, stage, stack')
  BY <1>4, <1>7, <1>8 DEF Entered, Sound, Grows
<1> QED BY <1>1, <1>2, <1>3, <1>4, <1>5, <1>9 DEF Pinned

LEMMA CopiesDirectory ==
    ASSUME Sound(disk, stage, stack), FromDirectory
    PROVE  /\ Coming(disk, stack, Top, Locked)
           /\ ~ChartAt(disk, stage, Top.at \o <<Locked.name>>)
           /\ pins' = Append(pins, Archive(Locked))
           /\ Top.at \in DOMAIN stage' /\ At \in DOMAIN stage'
           /\ \E f : /\ Entered(disk, stage, stack, Top, Locked, f, stage', stack')
                     /\ f.src \in DOMAIN disk /\ f.src # <<>>
                     /\ Copied(disk, stage, f.src, f.at, stage')
<1>1. /\ OneDependency /\ ~IsChart(stage, At) /\ Pinned
      /\ Locked.repo.kind = "file" /\ DependencyError = "none"
      /\ stage' = Copy(stage, Locked.repo.dir, At)
      /\ stack' = Append(Advanced, Frame(Locked.repo.dir, At))
  BY DEF FromDirectory, Absent
<1>2. Coming(disk, stack, Top, Locked)
  BY <1>1, ComesToDependency
<1>3. Locked.repo.dir \in DOMAIN disk
  BY <1>1 DEF DependencyError
<1>4. World(disk) /\ Staged(disk, stage)
  BY DEF Sound
<1>5. PICK src \in Path \ {<<>>} : src = Locked.repo.dir /\ src \in DOMAIN disk
  BY <1>3, <1>4 DEF World
<1>6. PICK f \in FrameSet, stk1 \in Seq(FrameSet) :
        /\ f = Frame(src, At) /\ f.src = src /\ f.at = Top.at \o <<Locked.name>> /\ f.next = 0
        /\ stk1 = Advanced /\ Moved(stack, stk1, Top.next + 1)
        /\ stack' \in Seq(FrameSet) /\ Pushed(stk1, stack', f)
  BY <1>1, <1>5, Descends
<1>7. At = f.at /\ f.at \in Path /\ f.src \in Path
  BY <1>6 DEF At, FrameSet
<1>8. Copied(disk, stage, f.src, f.at, stage')
  <2>1. stage' = Copy(stage, f.src, f.at)
    BY <1>1, <1>5, <1>6, <1>7
  <2> QED BY <1>4, <1>7, <2>1, CopyCopies
<1>9. /\ Staged(disk, stage') /\ Grows(disk, stage, stage')
      /\ \A p \in DOMAIN stage : ~Inside(f.at, p) => stage'[p] = stage[p]
      /\ \A p \in DOMAIN stage' : ~Inside(f.at, p) => p \in DOMAIN stage
  BY <1>4, <1>7, <1>8, CopyGrows
<1>10. f.at \in DOMAIN stage'
  <2>1. <<>> \in Path /\ f.at \o <<>> = f.at /\ f.src \o <<>> = f.src
    BY <1>7, ConcatEmptySeq DEF Path
  <2>2. Lands(disk, f.src, f.at, f.at)
    BY <1>5, <1>6, <2>1 DEF Lands
  <2> QED BY <1>8, <2>2 DEF Copied
<1>11. \A p \in DOMAIN stage : p \in DOMAIN stage'
  BY <1>9 DEF Grows
<1>12. Nest(disk, stage', stack')
  <2>1. Staged(disk, stage')
    BY <1>9
  <2>2. PICK st2 : st2 = stage'
    OBVIOUS
  <2>3. Nest(disk, st2, stack')
    BY <1>2, <1>6, <1>10, <1>11, <2>1, <2>2, NestDescends
  <2> QED BY <2>2, <2>3
<1>13. Descended(stack, stack', Top, f)
  BY <1>2, <1>6, DescendsTo
<1>14. Entered(disk, stage, stack, Top, Locked, f, stage', stack')
  BY <1>6, <1>9, <1>12, <1>13 DEF Entered
<1>15. ~ChartAt(disk, stage, Top.at \o <<Locked.name>>)
  BY <1>1 DEF IsChart, ChartAt, At
<1>16. Top.at \in DOMAIN stage'
  BY <1>2, <1>11, ComingNamed
<1> QED BY <1>1, <1>2, <1>5, <1>6, <1>7, <1>8, <1>10, <1>14, <1>15, <1>16 DEF Pinned

(* The root chart is staged, where nothing was.                            *)
LEMMA StagesRoot ==
    ASSUME World(disk), stage = [p \in {} |-> {}], StageRoot
    PROVE  /\ Copied(disk, stage, RootChart, <<>>, stage')
           /\ Staged(disk, stage') /\ Kept(disk, stage')
           /\ \E f \in FrameSet :
                /\ f.src = RootChart /\ f.at = <<>> /\ f.next = 0
                /\ Len(stack') = 1 /\ stack'[1] = f /\ Depth(stack') = {1}
           /\ Nest(disk, stage', stack')
<1>1. <<>> \in Path /\ RootChart \in Path \ {<<>>} /\ Len(<<>>) = 0
  BY DEF World, Path
<1>2. Copied(disk, stage, RootChart, <<>>, stage')
  <2>1. stage' = Copy(stage, RootChart, <<>>)
    BY DEF StageRoot
  <2> QED BY <1>1, <2>1, CopyCopies
<1>3. Staged(disk, stage)
  BY DEF Staged
<1>4. Staged(disk, stage')
  BY <1>1, <1>2, <1>3, CopyGrows
<1>5. Kept(disk, stage') /\ <<>> \in DOMAIN stage'
  BY <1>2, KeptAtFirst
<1>6. PICK f : f = Frame(RootChart, <<>>)
  OBVIOUS
<1>7. f \in FrameSet /\ f.src = RootChart /\ f.at = <<>> /\ f.next = 0
  BY <1>1, <1>6 DEF Frame, FrameSet
<1>8. stack' = <<f>>
  BY <1>6 DEF StageRoot
<1>9. stack' \in Seq(FrameSet) /\ Len(stack') = 1 /\ stack'[1] = f
  BY <1>7, <1>8
<1>10. Depth(stack') = {1}
  BY <1>9 DEF Depth
<1>11. Nest(disk, stage', stack')
  <2>1. PICK stk : stk = stack'
    OBVIOUS
  <2>2. /\ stk[1].at \in DOMAIN stage' /\ Len(stk[1].at) = 1 - 1 /\ ~(stk[1].next > 0)
        /\ Ready(disk, stk[1])
    BY <1>1, <1>5, <1>7, <1>9, <2>1 DEF Ready
  <2>3. stk \in Seq(FrameSet) /\ Depth(stk) = {1}
    BY <1>9, <1>10, <2>1
  <2>4. Nest(disk, stage', stk)
    BY <2>2, <2>3 DEF Nest
  <2> QED BY <2>1, <2>4
<1> QED BY <1>2, <1>4, <1>5, <1>7, <1>9, <1>10, <1>11

-----------------------------------------------------------------------------
(* The state is well formed.                                               *)

Shallow(w, st) == \A p \in DOMAIN st : \E d \in DOMAIN w : Len(p) <= MaxDepth + Len(d)
OutsStaged == \A i \in DOMAIN out : out[i].caller \in DOMAIN stage /\ out[i].into \in DOMAIN stage
WellFormed ==
    /\ Sound(disk, stage, stack)
    /\ status \in {"staging", "closing", "packed", "refused"}
    /\ status = "staging" => stage = [p \in {} |-> {}] /\ stack = <<>>
    /\ status = "packed" => stack = <<>>
    /\ IsSeq(out) /\ OutsStaged
    /\ IsSeq(pins)
    /\ Shallow(disk, stage)

LEMMA InitWellFormed ==
    ASSUME Init
    PROVE  WellFormed
<1>1. World(disk)
  BY ChartsAssumption DEF Init, World, Path
<1>2. stage = [p \in {} |-> {}] /\ stack = <<>> /\ out = <<>> /\ pins = <<>> /\ status = "staging"
  BY DEF Init
<1>3. stack \in Seq(FrameSet) /\ Depth(stack) = {}
  BY <1>2 DEF Depth
<1>4. Nest(disk, stage, stack)
  BY <1>3 DEF Nest
<1>5. Staged(disk, stage)
  BY <1>2 DEF Staged
<1>6. IsSeq(out) /\ IsSeq(pins)
  <2>1. <<>> \in Seq({})
    OBVIOUS
  <2> QED BY <1>2, <2>1 DEF IsSeq
<1>7. DOMAIN out = {}
  BY <1>2
<1>8. OutsStaged /\ Shallow(disk, stage)
  BY <1>2, <1>7 DEF OutsStaged, Shallow
<1> QED BY <1>1, <1>2, <1>4, <1>5, <1>6, <1>8 DEF WellFormed, Sound

(* A copy of a chart is no deeper than where it is put and how it nests.   *)
LEMMA ShallowCopy ==
    ASSUME NEW w, World(w), NEW st, Shallow(w, st), NEW src \in Path, NEW dst \in Path,
           Len(dst) <= MaxDepth + Len(src), NEW st2, Copied(w, st, src, dst, st2)
    PROVE  Shallow(w, st2)
<1> SUFFICES ASSUME NEW p \in DOMAIN st2 PROVE \E d \in DOMAIN w : Len(p) <= MaxDepth + Len(d)
  BY DEF Shallow
<1>1. CASE p \in DOMAIN st
  BY <1>1 DEF Shallow
<1>2. CASE Lands(w, src, dst, p)
  <2>1. PICK x \in Path : src \o x \in DOMAIN w /\ p = dst \o x
    BY <1>2 DEF Lands
  <2>2. Len(dst \o x) = Len(dst) + Len(x) /\ Len(src \o x) = Len(src) + Len(x)
    BY ConcatProperties DEF Path
  <2>3. Len(dst) \in Nat /\ Len(x) \in Nat /\ Len(src) \in Nat
    BY DEF Path
  <2>4. Len(dst) + Len(x) <= MaxDepth + (Len(src) + Len(x))
    BY <2>3, DepthAssumption
  <2> QED BY <2>1, <2>2, <2>4
<1> QED BY <1>1, <1>2 DEF Copied

LEMMA OutsGrow ==
    ASSUME IsSeq(out), OutsStaged, \A p \in DOMAIN stage : p \in DOMAIN stage',
           NEW e, e.caller \in DOMAIN stage', e.into \in DOMAIN stage', out' = Append(out, e)
    PROVE  IsSeq(out') /\ OutsStaged'
<1>1. IsSeq(out')
  BY AppendToSeq
<1>2. PICK n : n = Len(out)
  OBVIOUS
<1>3. /\ n \in Nat /\ DOMAIN out = 1 .. n /\ DOMAIN out' = 1 .. n + 1
      /\ (\A i \in 1 .. n : out'[i] = out[i]) /\ out'[n + 1] = e
  BY <1>2, AppendToSeq
<1>4. ASSUME NEW i \in DOMAIN out'
      PROVE  out'[i].caller \in DOMAIN stage' /\ out'[i].into \in DOMAIN stage'
  <2>1. CASE i \in 1 .. n
    BY <1>3, <2>1 DEF OutsStaged
  <2>2. CASE i = n + 1
    BY <1>3, <2>2
  <2> QED BY <1>3, <2>1, <2>2
<1> QED BY <1>1, <1>4 DEF OutsStaged

LEMMA StepWellFormed ==
    ASSUME WellFormed, [Next]_vars
    PROVE  WellFormed'
<1>1. Sound(disk, stage, stack) /\ World(disk) /\ Staged(disk, stage) /\ Nest(disk, stage, stack)
  BY DEF WellFormed, Sound
<1>2. CASE StageRoot
  <2>1. status = "staging" /\ stage = [p \in {} |-> {}] /\ disk' = disk /\ status' = "closing"
        /\ out' = out /\ pins' = pins
    BY <1>2 DEF StageRoot, WellFormed
  <2>2. /\ Copied(disk, stage, RootChart, <<>>, stage') /\ Staged(disk, stage')
        /\ Nest(disk, stage', stack')
    BY <1>1, <1>2, <2>1, StagesRoot
  <2>3. Sound(disk, stage, stack)'
    BY <1>1, <2>1, <2>2 DEF Sound
  <2>4. OutsStaged'
    BY <2>1 DEF OutsStaged, WellFormed
  <2>5. Shallow(disk, stage')
    <3>1. /\ <<>> \in Path /\ RootChart \in Path /\ Len(<<>>) = 0 /\ Len(RootChart) \in Nat
      BY <1>1 DEF World, Path
    <3>2. Len(<<>>) <= MaxDepth + Len(RootChart)
      BY <3>1, DepthAssumption
    <3> QED BY <1>1, <2>2, <3>1, <3>2, ShallowCopy DEF WellFormed
  <2> QED BY <2>1, <2>3, <2>4, <2>5 DEF WellFormed
<1>3. ASSUME NEW why, status = "closing", Refuse(why) PROVE WellFormed'
  BY <1>3 DEF Refuse, WellFormed, OutsStaged
<1>4. CASE EnterChart
  <2>1. /\ stack # <<>> /\ disk' = disk /\ stage' = stage /\ pins' = pins /\ out' = out
        /\ status' = status /\ status = "closing"
    BY <1>4 DEF EnterChart, Entering
  <2>2. Nest(disk, stage, stack')
    <3>1. CASE Popped(stack, stack')
      BY <1>1, <1>4, <3>1, EntersChart, NestPopped
    <3>2. CASE ~Popped(stack, stack')
      <4>1. PICK f \in FrameSet : f = stack[Len(stack)]
        BY <1>1, <2>1, TopOfStack DEF Nest
      <4>2. /\ ChartOn(disk, f.src) /\ Len(stack) - 1 <= MaxDepth /\ stack' \in Seq(FrameSet)
            /\ disk[f.src].deps # <<>> /\ LockOf(disk, f) # NoLock /\ Moved(stack, stack', 1)
        BY <1>1, <1>4, <3>2, <4>1, EntersChart
      <4>3. stack'[Len(stack)].src = f.src /\ stack'[Len(stack)].next = 1
        BY <4>1, <4>2 DEF Moved
      <4>4. PICK len \in Nat : len = Len(LockOf(disk, f))
        BY <1>1, <4>2, LockEntry DEF ChartOn, LockOf
      <4>5. Ready(disk, stack'[Len(stack)])
        BY <4>2, <4>3, <4>4 DEF Ready, LockOf
      <4>6. PICK next \in Nat : next = 1 /\ Moved(stack, stack', next)
        BY <4>2
      <4> QED BY <1>1, <2>1, <4>2, <4>5, <4>6, NestMoved
    <3> QED BY <3>1, <3>2
  <2> QED BY <1>1, <2>1, <2>2 DEF WellFormed, Sound, OutsStaged
<1>5. CASE ReturnFromChart
  <2>1. /\ disk' = disk /\ stage' = stage /\ pins' = pins /\ out' = out
        /\ status' = status /\ status = "closing"
    BY <1>5 DEF ReturnFromChart, Closing
  <2>2. Nest(disk, stage, stack')
    BY <1>1, <1>5, ReturnsFromChart, NestPopped
  <2> QED BY <1>1, <2>1, <2>2 DEF WellFormed, Sound, OutsStaged
<1>6. CASE KeepArchive
  <2>1. /\ disk' = disk /\ stage' = stage /\ out' = out /\ status' = status /\ status = "closing"
    BY <1>6 DEF KeepArchive, ArchiveThere, OneDependency, Closing
  <2>2. Nest(disk, stage, stack')
    BY <1>1, <1>6, KeepsArchive, NestAdvances
  <2>3. IsSeq(pins')
    <3>1. pins' = Append(pins, Archive(Locked))
      BY <1>1, <1>6, KeepsArchive
    <3> QED BY <3>1, AppendToSeq DEF WellFormed
  <2> QED BY <1>1, <2>1, <2>2, <2>3 DEF WellFormed, Sound, OutsStaged
<1>7. CASE KeepUnpacked
  <2>1. /\ disk' = disk /\ stage' = stage /\ out' = out /\ status' = status /\ status = "closing"
    BY <1>7 DEF KeepUnpacked, OneDependency, Closing
  <2>2. Nest(disk, stage, stack')
    BY <1>1, <1>7, KeepsUnpacked DEF Entered
  <2>3. IsSeq(pins')
    <3>1. pins' = Append(pins, Archive(Locked))
      BY <1>1, <1>7, KeepsUnpacked
    <3> QED BY <3>1, AppendToSeq DEF WellFormed
  <2> QED BY <1>1, <2>1, <2>2, <2>3 DEF WellFormed, Sound, OutsStaged
<1>8. CASE FromDirectory
  <2>1. /\ disk' = disk /\ status' = status /\ status = "closing"
        /\ out' = Append(out, [caller |-> Top.at, archive |-> Archive(Locked), into |-> At])
    BY <1>8 DEF FromDirectory, Absent, OneDependency, Closing
  <2>2. PICK f : /\ Entered(disk, stage, stack, Top, Locked, f, stage', stack')
                 /\ f.src \in DOMAIN disk /\ f.src # <<>>
                 /\ Copied(disk, stage, f.src, f.at, stage')
    BY <1>1, <1>8, CopiesDirectory
  <2>3. Nest(disk, stage', stack') /\ Staged(disk, stage')
    BY <2>2 DEF Entered
  <2>4. IsSeq(pins')
    <3>1. pins' = Append(pins, Archive(Locked))
      BY <1>1, <1>8, CopiesDirectory
    <3> QED BY <3>1, AppendToSeq DEF WellFormed
  <2>5. IsSeq(out') /\ OutsStaged'
    <3>1. \A p \in DOMAIN stage : p \in DOMAIN stage'
      BY <2>2 DEF Entered, Grows
    <3>2. Top.at \in DOMAIN stage' /\ At \in DOMAIN stage'
      BY <1>1, <1>8, CopiesDirectory
    <3>3. PICK e : /\ e = [caller |-> Top.at, archive |-> Archive(Locked), into |-> At]
                   /\ e.caller = Top.at /\ e.into = At
      <4>1. PICK c, a, d : c = Top.at /\ a = Archive(Locked) /\ d = At
        OBVIOUS
      <4>2. PICK e : e = [caller |-> c, archive |-> a, into |-> d]
        OBVIOUS
      <4>3. e.caller = c /\ e.into = d
        BY <4>2
      <4> QED BY <4>1, <4>2, <4>3
    <3> QED BY <2>1, <3>1, <3>2, <3>3, OutsGrow DEF WellFormed
  <2>6. Shallow(disk, stage')
    <3>1. Coming(disk, stack, Top, Locked)
      BY <1>1, <1>8, CopiesDirectory
    <3>2. f.at \in Path /\ f.src \in Path /\ Len(f.at) = Len(stack) /\ Len(stack) \in Nat
      BY <1>1, <2>2, <3>1, ComingNamed DEF Entered, FrameSet
    <3>3. Len(f.src) \in Nat \ {0}
      BY <2>2, <3>2, EmptySeq DEF Path
    <3>4. Len(stack) - 1 <= MaxDepth
      BY <3>1 DEF Coming
    <3>5. Len(f.at) <= MaxDepth + Len(f.src)
      BY <3>2, <3>3, <3>4, DepthAssumption
    <3> QED BY <1>1, <2>2, <3>2, <3>5, ShallowCopy DEF WellFormed
  <2> QED BY <1>1, <2>1, <2>3, <2>4, <2>5, <2>6 DEF WellFormed, Sound
<1>9. CASE Downloading /\ Brought
  <2>1. /\ disk' = disk /\ status' = status /\ status = "closing"
        /\ out' = Append(out, [caller |-> Top.at, archive |-> Archive(Locked), into |-> Top.at])
    BY <1>9 DEF Brought, Downloading, Absent, OneDependency, Closing
  <2>2. /\ Coming(disk, stack, Top, Locked)
        /\ stack' \in Seq(FrameSet) /\ Moved(stack, stack', Top.next + 1)
        /\ Top.at \in DOMAIN stage /\ Added(stage, Top.at, Archive(Locked), stage')
        /\ pins' = Append(pins, Archive(Locked))
    BY <1>1, <1>9, Brings
  <2>3. DOMAIN stage' = DOMAIN stage
    BY <2>2 DEF Added
  <2>4. Nest(disk, stage', stack')
    BY <1>1, <2>2, <2>3, NestAdvances
  <2>5. Staged(disk, stage')
    BY <1>1, <2>2, AddGrows
  <2>6. IsSeq(pins')
    BY <2>2, AppendToSeq DEF WellFormed
  <2>7. IsSeq(out') /\ OutsStaged'
    <3>1. PICK e : /\ e = [caller |-> Top.at, archive |-> Archive(Locked), into |-> Top.at]
                   /\ e.caller = Top.at /\ e.into = Top.at
      <4>1. PICK c, a, d : c = Top.at /\ a = Archive(Locked) /\ d = Top.at
        OBVIOUS
      <4>2. PICK e : e = [caller |-> c, archive |-> a, into |-> d]
        OBVIOUS
      <4>3. e.caller = c /\ e.into = d
        BY <4>2
      <4> QED BY <4>1, <4>2, <4>3
    <3> QED BY <2>1, <2>2, <2>3, <3>1, OutsGrow DEF WellFormed
  <2>8. Shallow(disk, stage')
    BY <2>3 DEF Shallow, WellFormed
  <2> QED BY <1>1, <2>1, <2>4, <2>5, <2>6, <2>7, <2>8 DEF WellFormed, Sound
<1>10. CASE Packed
  BY <1>10 DEF Packed, WellFormed, OutsStaged
<1>11. CASE UNCHANGED vars
  BY <1>11 DEF vars, WellFormed, OutsStaged
<1>12. CASE RefuseChart \/ RefuseDependency \/ (Downloading /\ Refuse("fetch"))
  BY <1>3, <1>12 DEF RefuseChart, Entering, RefuseDependency, Absent, OneDependency, Closing, Downloading
<1> QED BY <1>2, <1>4, <1>5, <1>6, <1>7, <1>8, <1>9, <1>10, <1>11, <1>12 DEF Next, Offline, Download

-----------------------------------------------------------------------------
(* What was under charts/ stays.                                           *)

FollowsDisk == Twins(disk, stage, stack) /\ (status # "staging" => Kept(disk, stage))

LEMMA InitFollowsDisk ==
    ASSUME Init
    PROVE  FollowsDisk
<1>1. Depth(stack) = {}
  BY DEF Init, Depth
<1> QED BY <1>1 DEF Init, FollowsDisk, Twins

(* A step that brings nothing new to any path.                             *)
LEMMA FollowsDiskMoved ==
    ASSUME WellFormed, FollowsDisk, status = "closing", stack # <<>>, disk' = disk,
           NEW next, Moved(stack, stack', next), Grows(disk, stage, stage'),
           \A p \in DOMAIN stage : stage'[p].from = stage[p].from
    PROVE  FollowsDisk'
<1>1. \A p \in DOMAIN stage : p \in DOMAIN stage'
  BY DEF Grows
<1>2. PICK st2, stk2 : st2 = stage' /\ stk2 = stack'
  OBVIOUS
<1>3. Twins(disk, st2, stk2)
  BY <1>1, <1>2, TwinsMoved DEF FollowsDisk
<1>4. Kept(disk, st2)
  BY <1>2, KeptSame DEF FollowsDisk
<1> QED BY <1>2, <1>3, <1>4 DEF FollowsDisk

LEMMA GrowsSame ==
    ASSUME NEW w, NEW st
    PROVE  Grows(w, st, st)
BY DEF Grows

LEMMA StepFollowsDisk ==
    ASSUME WellFormed, FollowsDisk, [Next]_vars
    PROVE  FollowsDisk'
<1>1. Sound(disk, stage, stack) /\ World(disk) /\ Staged(disk, stage) /\ Nest(disk, stage, stack)
  BY DEF WellFormed, Sound
<1>2. CASE StageRoot
  <2>1. stage = [p \in {} |-> {}] /\ disk' = disk
    BY <1>2 DEF StageRoot, WellFormed
  <2>2. PICK st2, stk2 : st2 = stage' /\ stk2 = stack'
    OBVIOUS
  <2>3. /\ Copied(disk, stage, RootChart, <<>>, st2) /\ Kept(disk, st2)
        /\ \E f \in FrameSet : /\ f.src = RootChart /\ f.at = <<>> /\ f.next = 0
                               /\ Len(stk2) = 1 /\ stk2[1] = f /\ Depth(stk2) = {1}
    BY <1>1, <1>2, <2>1, <2>2, StagesRoot
  <2>4. Twins(disk, st2, stk2)
    BY <2>3 DEF Twins, Kept
  <2> QED BY <2>1, <2>2, <2>3, <2>4 DEF FollowsDisk
<1>3. ASSUME NEW why, status = "closing", Refuse(why) PROVE FollowsDisk'
  BY <1>3 DEF Refuse, FollowsDisk
<1>4. ASSUME stack # <<>>, Popped(stack, stack'), status = "closing",
             disk' = disk, stage' = stage, status' = status
      PROVE  FollowsDisk'
  <2>1. Twins(disk, stage, stack')
    BY <1>1, <1>4, TwinsPopped DEF FollowsDisk, Nest
  <2> QED BY <1>4, <2>1 DEF FollowsDisk
<1>5. CASE EnterChart
  <2>1. stack # <<>> /\ disk' = disk /\ stage' = stage /\ status' = status /\ status = "closing"
    BY <1>5 DEF EnterChart, Entering
  <2>2. Popped(stack, stack') \/ Moved(stack, stack', 1)
    BY <1>1, <1>5, EntersChart
  <2>3. Grows(disk, stage, stage') /\ \A p \in DOMAIN stage : stage'[p].from = stage[p].from
    BY <2>1, GrowsSame
  <2> QED BY <1>4, <2>1, <2>2, <2>3, FollowsDiskMoved
<1>6. CASE ReturnFromChart
  BY <1>1, <1>4, <1>6, ReturnsFromChart DEF ReturnFromChart, Closing
<1>7. CASE KeepArchive
  <2>1. disk' = disk /\ stage' = stage /\ status' = status /\ status = "closing" /\ stack # <<>>
    BY <1>7 DEF KeepArchive, ArchiveThere, OneDependency, Closing
  <2>2. Moved(stack, stack', Top.next + 1)
    BY <1>1, <1>7, KeepsArchive
  <2>3. Grows(disk, stage, stage') /\ \A p \in DOMAIN stage : stage'[p].from = stage[p].from
    BY <2>1, GrowsSame
  <2> QED BY <2>1, <2>2, <2>3, FollowsDiskMoved
<1>8. CASE KeepUnpacked
  <2>1. disk' = disk /\ stage' = stage /\ status' = status /\ status = "closing"
    BY <1>8 DEF KeepUnpacked, OneDependency, Closing
  <2>2. PICK f : /\ Entered(disk, stage, stack, Top, Locked, f, stage, stack')
                 /\ f.src = Top.src \o <<Locked.name>>
    BY <1>1, <1>8, KeepsUnpacked
  <2>3. Coming(disk, stack, Top, Locked)
    BY <1>1, <1>8, KeepsUnpacked
  <2>4. Twins(disk, stage, stack')
    BY <1>1, <2>2, <2>3, TwinsDown DEF FollowsDisk, Entered
  <2> QED BY <2>1, <2>4 DEF FollowsDisk
<1>9. CASE FromDirectory
  <2>1. disk' = disk /\ status' = status /\ status = "closing"
    BY <1>9 DEF FromDirectory, Absent, OneDependency, Closing
  <2>2. PICK f : /\ Entered(disk, stage, stack, Top, Locked, f, stage', stack')
                 /\ f.src \in DOMAIN disk /\ f.src # <<>>
                 /\ Copied(disk, stage, f.src, f.at, stage')
    BY <1>1, <1>9, CopiesDirectory
  <2>3. /\ Coming(disk, stack, Top, Locked)
        /\ ~ChartAt(disk, stage, Top.at \o <<Locked.name>>)
    BY <1>1, <1>9, CopiesDirectory
  <2>4. f \in FrameSet /\ f.at = Top.at \o <<Locked.name>> /\ Descended(stack, stack', Top, f)
    BY <2>2 DEF Entered
  <2>5. ~ChartAt(disk, stage, f.at)
    BY <2>3, <2>4
  <2>6. PICK st2, stk2 : st2 = stage' /\ stk2 = stack'
    OBVIOUS
  <2>7. Twins(disk, st2, stk2)
    BY <1>1, <2>2, <2>3, <2>4, <2>5, <2>6, TwinsCopied DEF FollowsDisk
  <2>8. Kept(disk, st2)
    <3>1. f.at \in Path /\ f.src \in Path
      BY <2>4 DEF FrameSet
    <3>2. Len(f.at) > 0
      BY <1>1, <2>3, <2>4, ComingNamed
    <3>3. Kept(disk, stage) /\ Copied(disk, stage, f.src, f.at, st2)
      BY <2>1, <2>2, <2>6 DEF FollowsDisk
    <3> QED BY <1>1, <2>5, <3>1, <3>2, <3>3, KeptCopied
  <2> QED BY <2>1, <2>6, <2>7, <2>8 DEF FollowsDisk
<1>10. CASE Downloading /\ Brought
  <2>1. disk' = disk /\ status' = status /\ status = "closing" /\ stack # <<>>
    BY <1>10 DEF Brought, Downloading, Absent, OneDependency, Closing
  <2>2. Moved(stack, stack', Top.next + 1) /\ Added(stage, Top.at, Archive(Locked), stage')
    BY <1>1, <1>10, Brings
  <2>3. Grows(disk, stage, stage')
    BY <1>1, <2>2, AddGrows
  <2>4. \A p \in DOMAIN stage : stage'[p].from = stage[p].from
    BY <2>2 DEF Added
  <2> QED BY <2>1, <2>2, <2>3, <2>4, FollowsDiskMoved
<1>11. CASE Packed \/ UNCHANGED vars
  BY <1>11 DEF Packed, vars, FollowsDisk
<1>12. CASE RefuseChart \/ RefuseDependency \/ (Downloading /\ Refuse("fetch"))
  BY <1>3, <1>12 DEF RefuseChart, Entering, RefuseDependency, Absent, OneDependency, Closing, Downloading
<1> QED BY <1>2, <1>5, <1>6, <1>7, <1>8, <1>9, <1>10, <1>11, <1>12 DEF Next, Offline, Download

-----------------------------------------------------------------------------
(* What is read is what is staged, by name.                                *)

ByName == Once(disk) /\ ChartsInCharts(disk)
ReadsByName == ByName => Reading(disk, stage, stack)

LEMMA InitReadsByName ==
    ASSUME Init
    PROVE  ReadsByName
BY DEF Init, ReadsByName, Reading, Depth

LEMMA ReadsByNameMoved ==
    ASSUME WellFormed, ReadsByName, stack # <<>>, disk' = disk,
           NEW next \in Nat, next >= stack[Len(stack)].next, Moved(stack, stack', next),
           DOMAIN stage' = DOMAIN stage, \A p \in DOMAIN stage : stage'[p].from = stage[p].from
    PROVE  ReadsByName'
<1>1. PICK st2, stk2 : st2 = stage' /\ stk2 = stack'
  OBVIOUS
<1>2. Nest(disk, stage, stack)
  BY DEF WellFormed, Sound
<1>3. ASSUME ByName PROVE Reading(disk, st2, stk2)
  BY <1>1, <1>2, <1>3, ReadingMoved DEF ReadsByName
<1> QED BY <1>1, <1>3 DEF ReadsByName, ByName

LEMMA StepReadsByName ==
    ASSUME WellFormed, FollowsDisk, ReadsByName, [Next]_vars
    PROVE  ReadsByName'
<1>1. Sound(disk, stage, stack) /\ World(disk) /\ Staged(disk, stage) /\ Nest(disk, stage, stack)
  BY DEF WellFormed, Sound
<1>2. CASE StageRoot
  <2>1. stage = [p \in {} |-> {}] /\ disk' = disk
    BY <1>2 DEF StageRoot, WellFormed
  <2>2. PICK st2, stk2 : st2 = stage' /\ stk2 = stack'
    OBVIOUS
  <2>3. Copied(disk, stage, RootChart, <<>>, st2)
    BY <1>1, <1>2, <2>1, <2>2, StagesRoot
  <2>4. PICK f \in FrameSet : f.src = RootChart /\ f.at = <<>> /\ stk2[1] = f /\ Depth(stk2) = {1}
    BY <1>1, <1>2, <2>1, <2>2, StagesRoot
  <2>5. \A x \in Path : ~ChartAt(disk, stage, f.at \o x)
    BY <2>1 DEF ChartAt
  <2>6. f.src \in DOMAIN disk /\ Copied(disk, stage, f.src, f.at, st2)
    BY <1>1, <2>3, <2>4 DEF World
  <2>7. Reads(disk, st2, f)
    BY <2>5, <2>6, ReadsCopied
  <2> QED BY <2>1, <2>2, <2>4, <2>7 DEF ReadsByName, ByName, Reading
<1>3. ASSUME NEW why, Refuse(why) PROVE ReadsByName'
  BY <1>3 DEF Refuse, ReadsByName, ByName
<1>4. ASSUME stack # <<>>, Popped(stack, stack'), disk' = disk, stage' = stage
      PROVE  ReadsByName'
  <2>1. ByName => Reading(disk, stage, stack')
    BY <1>1, <1>4, ReadingPopped DEF ReadsByName, Nest
  <2> QED BY <1>4, <2>1 DEF ReadsByName, ByName
<1>5. CASE EnterChart
  <2>1. stack # <<>> /\ disk' = disk /\ stage' = stage /\ stack[Len(stack)].next = 0
    BY <1>1, <1>5, EntersChart DEF EnterChart
  <2>2. Popped(stack, stack') \/ Moved(stack, stack', 1)
    BY <1>1, <1>5, EntersChart
  <2>3. PICK next \in Nat : next = 1 /\ next >= 0
    OBVIOUS
  <2>4. CASE Moved(stack, stack', 1)
    BY <2>1, <2>3, <2>4, ReadsByNameMoved
  <2> QED BY <1>4, <2>1, <2>2, <2>4
<1>6. CASE ReturnFromChart
  BY <1>1, <1>4, <1>6, ReturnsFromChart DEF ReturnFromChart
<1>7. ASSUME Coming(disk, stack, Top, Locked), Moved(stack, stack', Top.next + 1), disk' = disk,
             DOMAIN stage' = DOMAIN stage, \A p \in DOMAIN stage : stage'[p].from = stage[p].from
      PROVE  ReadsByName'
  <2>1. PICK k \in Nat : k = Top.next /\ k = stack[Len(stack)].next
    BY <1>7 DEF Coming, FrameSet
  <2>2. PICK next \in Nat : next = k + 1 /\ next >= k
    OBVIOUS
  <2>3. Moved(stack, stack', next) /\ next >= stack[Len(stack)].next
    BY <1>7, <2>1, <2>2
  <2> QED BY <1>7, <2>3, ReadsByNameMoved DEF Coming
<1>8. CASE KeepArchive
  <2>1. disk' = disk /\ stage' = stage
    BY <1>8 DEF KeepArchive
  <2> QED BY <1>1, <1>7, <1>8, <2>1, KeepsArchive
<1>9. CASE Downloading /\ Brought
  <2>1. disk' = disk
    BY <1>9 DEF Brought
  <2>2. /\ Coming(disk, stack, Top, Locked) /\ Moved(stack, stack', Top.next + 1)
        /\ Added(stage, Top.at, Archive(Locked), stage')
    BY <1>1, <1>9, Brings
  <2>3. DOMAIN stage' = DOMAIN stage /\ \A p \in DOMAIN stage : stage'[p].from = stage[p].from
    BY <2>2 DEF Added
  <2> QED BY <1>7, <2>1, <2>2, <2>3
<1>10. ASSUME ByName, Coming(disk, stack, Top, Locked),
              NEW f, Entered(disk, stage, stack, Top, Locked, f, stage', stack'),
              Reads(disk, stage', f)
       PROVE  Reading(disk, stage', stack')
  <2>1. Reading(disk, stage, stack)
    BY <1>10 DEF ReadsByName
  <2>2. Top = stack[Len(stack)] /\ stack # <<>> /\ Top.next \in Nat
    BY <1>10 DEF Coming, FrameSet
  <2>3. /\ f \in FrameSet /\ Descended(stack, stack', Top, f) /\ Nest(disk, stage', stack')
        /\ f.at = Top.at \o <<Locked.name>>
    BY <1>10 DEF Entered
  <2>4. /\ \A p \in DOMAIN stage : ~Inside(f.at, p) => stage'[p] = stage[p]
        /\ \A p \in DOMAIN stage' : ~Inside(f.at, p) => p \in DOMAIN stage
    BY <1>10 DEF Entered
  <2>5. Len(f.at) = Len(stack)
    BY <1>1, <1>10, <2>3, ComingNamed
  <2>6. PICK st2, stk2, top : st2 = stage' /\ stk2 = stack' /\ top = Top
    OBVIOUS
  <2>7. Reading(disk, st2, stk2)
    BY <1>1, <1>10, <2>1, <2>2, <2>3, <2>4, <2>5, <2>6, ReadingDescended
  <2> QED BY <2>6, <2>7
<1>11. CASE KeepUnpacked
  <2>1. disk' = disk /\ stage' = stage
    BY <1>11 DEF KeepUnpacked
  <2>2. PICK f : /\ Entered(disk, stage, stack, Top, Locked, f, stage, stack')
                 /\ f.src = Top.src \o <<Locked.name>>
    BY <1>1, <1>11, KeepsUnpacked
  <2>3. Coming(disk, stack, Top, Locked) /\ ChartAt(disk, stage, Top.at \o <<Locked.name>>)
    BY <1>1, <1>11, KeepsUnpacked
  <2>4. f \in FrameSet /\ f.at = Top.at \o <<Locked.name>> /\ f.next = 0
    BY <2>2 DEF Entered
  <2>5. ASSUME ByName PROVE Reads(disk, stage, f)
    <3>1. Once(disk) /\ Reading(disk, stage, stack)
      BY <2>5 DEF ByName, ReadsByName
    <3> QED BY <1>1, <2>2, <2>3, <2>4, <3>1, ReadingDown
  <2>6. ASSUME ByName PROVE Reading(disk, stage', stack')
    BY <1>10, <2>1, <2>2, <2>3, <2>5, <2>6
  <2> QED BY <2>1, <2>6 DEF ReadsByName, ByName
<1>12. CASE FromDirectory
  <2>1. disk' = disk
    BY <1>12 DEF FromDirectory
  <2>2. PICK f : /\ Entered(disk, stage, stack, Top, Locked, f, stage', stack')
                 /\ f.src \in DOMAIN disk /\ f.src # <<>>
                 /\ Copied(disk, stage, f.src, f.at, stage')
    BY <1>1, <1>12, CopiesDirectory
  <2>3. Coming(disk, stack, Top, Locked) /\ ~ChartAt(disk, stage, Top.at \o <<Locked.name>>)
    BY <1>1, <1>12, CopiesDirectory
  <2>4. f \in FrameSet /\ f.at = Top.at \o <<Locked.name>>
    BY <2>2 DEF Entered
  <2>5. ASSUME ByName PROVE Reads(disk, stage', f)
    <3>1. Once(disk) /\ ChartsInCharts(disk) /\ Reading(disk, stage, stack) /\ Twins(disk, stage, stack)
      BY <2>5 DEF ByName, ReadsByName, FollowsDisk
    <3>2. PICK st2, top, l : st2 = stage' /\ top = Top /\ l = Locked
      OBVIOUS
    <3>3. Reads(disk, st2, f)
      BY <1>1, <2>2, <2>3, <2>4, <3>1, <3>2, ReadingCopied
    <3> QED BY <3>2, <3>3
  <2>6. ASSUME ByName PROVE Reading(disk, stage', stack')
    BY <1>10, <2>2, <2>3, <2>5, <2>6
  <2> QED BY <2>1, <2>6 DEF ReadsByName, ByName
<1>13. CASE Packed \/ UNCHANGED vars
  BY <1>13 DEF Packed, vars, ReadsByName, ByName
<1>14. CASE RefuseChart \/ RefuseDependency \/ (Downloading /\ Refuse("fetch"))
  BY <1>3, <1>14 DEF RefuseChart, RefuseDependency
<1> QED BY <1>2, <1>5, <1>6, <1>8, <1>9, <1>11, <1>12, <1>13, <1>14 DEF Next, Offline, Download

-----------------------------------------------------------------------------
(* Every chart closed is settled, or a frame will see to it.               *)

AllDone == AllHandled(disk, stage, stack, pins) /\ Tended(disk, stage, stack, pins)

LEMMA PinsAppended ==
    ASSUME NEW pn, IsSeq(pn), NEW l
    PROVE  PinsGrow(pn, Append(pn, Archive(l))) /\ IsPinned(Append(pn, Archive(l)), l)
<1>1. PICK a, n : a = Archive(l) /\ n = Len(pn)
  OBVIOUS
<1>2. /\ n \in Nat /\ DOMAIN pn = 1 .. n /\ DOMAIN Append(pn, a) = 1 .. n + 1
      /\ (\A i \in 1 .. n : Append(pn, a)[i] = pn[i]) /\ Append(pn, a)[n + 1] = a
  BY <1>1, AppendToSeq
<1>3. n + 1 \in 1 .. n + 1 /\ \A i \in 1 .. n : i \in 1 .. n + 1
  BY <1>2
<1> QED BY <1>1, <1>2, <1>3 DEF PinsGrow, IsPinned

LEMMA AboveIs ==
    ASSUME NEW a \in Path, NEW p \in Path, Inside(a, p), a # p
    PROVE  Len(a) + 1 \in 1 .. Len(p) /\ SubSeq(p, 1, (Len(a) + 1) - 1) = a
<1>1. Len(a) \in Nat /\ Len(p) \in Nat /\ Len(p) >= Len(a) + 1
  <2>1. Len(a) \in Nat /\ Len(p) \in Nat
    BY DEF Path
  <2>2. Len(p) >= Len(a) + 1
    BY ChildOf
  <2> QED BY <2>1, <2>2
<1>2. (Len(a) + 1) - 1 = Len(a) /\ Len(a) + 1 \in 1 .. Len(p)
  BY <1>1
<1>3. SubSeq(p, 1, Len(a)) = a
  BY DEF Inside, IsPathPrefix
<1> QED BY <1>2, <1>3

(* What a chart below another says of that one.                            *)
LEMMA ClosedBelow ==
    ASSUME NEW w, NEW st, NEW a \in Path, NEW p \in Path, ClosedAt(w, st, p), Inside(a, p), a # p,
           NEW src, st[a].from = src
    PROVE  /\ w[src].deps # <<>>
           /\ \E l \in LockEntries(w[src]) : l.name = p[Len(a) + 1]
           /\ \A l \in LockEntries(w[src]) : l.name = p[Len(a) + 1] => Archive(l) \notin st[a].tgz
<1>1. PICK i : i = Len(a) + 1
  OBVIOUS
<1>2. i \in 1 .. Len(p) /\ SubSeq(p, 1, i - 1) = a
  BY <1>1, AboveIs
<1>3. /\ w[st[a].from].deps # <<>>
      /\ \E l \in LockEntries(w[st[a].from]) : l.name = p[i]
      /\ \A l \in LockEntries(w[st[a].from]) : l.name = p[i] => Archive(l) \notin st[a].tgz
  BY <1>2 DEF ClosedAt
<1> QED BY <1>1, <1>3

(* The innermost chart, and its lock.                                      *)
Innermost(w, st, f) ==
    /\ f \in FrameSet /\ f.at \in Path /\ ChartOn(w, f.src)
    /\ f.at \in DOMAIN st /\ st[f.at].from = f.src

LEMMA EntriesOfLock ==
    ASSUME NEW w, World(w), NEW f, ChartOn(w, f.src), LockOf(w, f) # NoLock
    PROVE  /\ Len(LockOf(w, f)) \in Nat
           /\ \A l \in LockEntries(w[f.src]) : \E j \in 1 .. Len(LockOf(w, f)) : l = LockOf(w, f)[j]
           /\ \A j \in 1 .. Len(LockOf(w, f)) : LockOf(w, f)[j] \in LockEntries(w[f.src])
<1>1. PICK lock : lock = w[f.src].lock
  OBVIOUS
<1>2. Len(lock) \in Nat /\ DOMAIN lock = 1 .. Len(lock)
  BY <1>1, LockEntry DEF ChartOn, LockOf
<1>3. LockEntries(w[f.src]) = {lock[i] : i \in DOMAIN lock}
  BY <1>1 DEF LockEntries, LockOf
<1> QED BY <1>1, <1>2, <1>3 DEF LockOf

LEMMA EntryOfLock ==
    ASSUME NEW w, World(w), NEW f, ChartOn(w, f.src), LockOf(w, f) # NoLock, NEW l \in LockEntries(w[f.src])
    PROVE  \E j \in 1 .. Len(LockOf(w, f)) : l = LockOf(w, f)[j]
<1>1. PICK lock : lock = w[f.src].lock
  OBVIOUS
<1>2. DOMAIN lock = 1 .. Len(lock)
  BY <1>1, LockEntry DEF ChartOn, LockOf
<1>3. l \in {lock[i] : i \in DOMAIN lock}
  BY <1>1 DEF LockEntries, LockOf
<1> QED BY <1>1, <1>2, <1>3 DEF LockOf

LEMMA NamedBelow ==
    ASSUME NEW w, NEW st, NEW a \in Path, NEW p \in Path, ClosedAt(w, st, p), Inside(a, p), a # p,
           NEW src, st[a].from = src
    PROVE  \E l \in LockEntries(w[src]) : l.name = p[Len(a) + 1]
<1>1. PICK i : i = Len(a) + 1
  OBVIOUS
<1>2. i \in 1 .. Len(p) /\ SubSeq(p, 1, i - 1) = a
  BY <1>1, AboveIs
<1>3. \E l \in LockEntries(w[st[a].from]) : l.name = p[i]
  BY <1>2 DEF ClosedAt
<1> QED BY <1>1, <1>3

LEMMA NoneToClose ==
    ASSUME NEW w, NEW st, NEW pn, NEW f, Innermost(w, st, f), f.next = 0, w[f.src].deps = <<>>,
           NEW p \in Path, ClosedAt(w, st, p), Pending(w, f, p)
    PROVE  Settled(w, st, pn, p)
<1>1. CASE p = f.at
  BY <1>1 DEF Settled, Innermost
<1>2. CASE p # f.at
  <2>1. Inside(f.at, p) /\ f.at \in Path /\ st[f.at].from = f.src
    BY DEF Pending, Innermost
  <2>2. PICK a, src :
          a \in Path /\ a = f.at /\ src = f.src /\ Inside(a, p) /\ a # p /\ st[a].from = src
    BY <1>2, <2>1
  <2>3. w[src].deps # <<>>
    BY <2>2, ClosedBelow
  <2> QED BY <2>2, <2>3
<1> QED BY <1>1, <1>2

LEMMA SomeToClose ==
    ASSUME NEW w, World(w), NEW st, NEW f, Innermost(w, st, f), LockOf(w, f) # NoLock,
           NEW f2, f2.at = f.at, f2.src = f.src, f2.next = 1,
           NEW p \in Path, ClosedAt(w, st, p), Pending(w, f, p)
    PROVE  Pending(w, f2, p)
<1>1. CASE p = f.at
  BY <1>1 DEF Pending
<1>2. CASE p # f.at
  <2>1. Inside(f.at, p) /\ f.at \in Path /\ st[f.at].from = f.src
    BY DEF Pending, Innermost
  <2>2. PICK a, src :
          a \in Path /\ a = f.at /\ src = f.src /\ Inside(a, p) /\ a # p /\ st[a].from = src
    BY <1>2, <2>1
  <2>3. PICK l \in LockEntries(w[src]) : l.name = p[Len(a) + 1]
    BY <2>2, NamedBelow
  <2>4. /\ Len(LockOf(w, f)) \in Nat
        /\ \E j \in 1 .. Len(LockOf(w, f)) : l = LockOf(w, f)[j]
    <3>1. ChartOn(w, f.src) /\ l \in LockEntries(w[f.src])
      BY <2>2, <2>3 DEF Innermost
    <3> QED BY <3>1, EntriesOfLock
  <2>5. PICK j \in Nat \ {0} : j <= Len(LockOf(w, f)) /\ l = LockOf(w, f)[j]
    BY <2>4
  <2>6. j >= 1 /\ j <= Len(LockOf(w, f2)) /\ NameAt(w, f2, j) = p[Len(f2.at) + 1]
    BY <2>2, <2>3, <2>5 DEF LockOf, NameAt
  <2> QED BY <2>1, <2>6 DEF Pending
<1> QED BY <1>1, <1>2

LEMMA AllClosed ==
    ASSUME NEW w, World(w), NEW st, NEW pn, NEW f, Innermost(w, st, f), LockOf(w, f) # NoLock,
           f.next > 0, f.next > Len(LockOf(w, f)), Handled(w, st, pn, f),
           NEW p \in Path, Pending(w, f, p)
    PROVE  Settled(w, st, pn, p)
<1>1. Len(LockOf(w, f)) \in Nat /\ f.next \in Nat
  BY EntriesOfLock DEF Innermost, FrameSet
<1>2. p = f.at
  BY <1>1 DEF Pending
<1>3. ASSUME NEW l \in LockEntries(w[f.src]) PROVE IsPinned(pn, l) /\ PresentAt(w, st, f.at, l)
  <2>1. PICK j \in 1 .. Len(LockOf(w, f)) : l = LockOf(w, f)[j]
    <3>1. ChartOn(w, f.src)
      BY DEF Innermost
    <3> QED BY <3>1, EntryOfLock, SMTT(30)
  <2>2. j \in Nat \ {0} /\ j < f.next
    BY <1>1
  <2> QED BY <2>1, <2>2 DEF Handled, Done
<1> QED BY <1>2, <1>3 DEF Settled, Innermost

(* A dependency whose archive is there is no chart to close.               *)
LEMMA OverArchive ==
    ASSUME NEW w, World(w), NEW st, NEW f, Innermost(w, st, f), NEW l, LockOf(w, f) # NoLock,
           f.next \in 1 .. Len(LockOf(w, f)), l = LockOf(w, f)[f.next], Archive(l) \in st[f.at].tgz,
           NEW f2, f2.at = f.at, f2.src = f.src, f2.next = f.next + 1,
           NEW p \in Path, ClosedAt(w, st, p), Pending(w, f, p)
    PROVE  Pending(w, f2, p)
<1>1. PICK m \in Nat \ {0} : m = f.next
  <2>1. f.next \in Nat /\ f.next \in 1 .. Len(LockOf(w, f))
    BY DEF Innermost, FrameSet
  <2> QED BY <2>1
<1>2. CASE p = f.at
  BY <1>2 DEF Pending
<1>3. CASE p # f.at
  <2>1. PICK j \in Nat \ {0} : j >= m /\ j <= Len(LockOf(w, f)) /\ NameAt(w, f, j) = p[Len(f.at) + 1]
    BY <1>1, <1>3 DEF Pending
  <2>2. j # m
    <3> SUFFICES ASSUME j = m PROVE FALSE
      OBVIOUS
    <3>1. l.name = p[Len(f.at) + 1] /\ l = LockOf(w, f)[m] /\ m \in 1 .. Len(LockOf(w, f))
      BY <1>1, <2>1 DEF NameAt, LockOf
    <3>2. l \in LockEntries(w[f.src])
      BY <3>1, EntriesOfLock DEF Innermost
    <3>3. PICK a, src :
          a \in Path /\ a = f.at /\ src = f.src
      BY DEF Innermost
    <3>4. Inside(a, p) /\ st[a].from = src
      BY <3>3 DEF Pending, Innermost
    <3>5. \A e \in LockEntries(w[src]) : e.name = p[Len(a) + 1] => Archive(e) \notin st[a].tgz
      BY <1>3, <3>3, <3>4, ClosedBelow, ZenonT(30)
    <3> QED BY <3>1, <3>2, <3>3, <3>5
  <2>3. j >= m + 1
    BY <2>1, <2>2
  <2>4. j <= Len(LockOf(w, f2)) /\ NameAt(w, f2, j) = p[Len(f2.at) + 1]
    BY <2>1 DEF LockOf, NameAt
  <2>5. f2.next = m + 1 /\ Inside(f2.at, p)
    BY <1>1 DEF Pending
  <2> QED BY <2>3, <2>4, <2>5 DEF Pending
<1> QED BY <1>2, <1>3

LEMMA InitAllDone ==
    ASSUME Init
    PROVE  AllDone
<1>1. Depth(stack) = {} /\ DOMAIN stage = {}
  BY DEF Init, Depth
<1> QED BY <1>1 DEF AllDone, AllHandled, Tended, ClosedAt

LEMMA IsInnermost ==
    ASSUME Sound(disk, stage, stack), Twins(disk, stage, stack), stack # <<>>,
           ChartOn(disk, stack[Len(stack)].src), AllDone
    PROVE  /\ Innermost(disk, stage, stack[Len(stack)])
           /\ \A i \in Depth(stack) : Handled(disk, stage, pins, stack[i])
<1>1. Len(stack) \in Depth(stack) /\ stack[Len(stack)] \in FrameSet
  BY TopOfStack DEF Sound, Nest
<1>2. PICK f \in FrameSet : f = stack[Len(stack)]
  BY <1>1
<1>3. f.at \in Path /\ f.src \in Path /\ Follows(disk, stage, f.at, f.src) /\ ChartOn(disk, f.src)
  BY <1>1, <1>2 DEF FrameSet, Twins
<1>4. PICK at \in Path, src \in Path :
        at = f.at /\ src = f.src /\ Follows(disk, stage, at, src) /\ ChartOn(disk, src)
  BY <1>3
<1>5. at \in DOMAIN stage /\ stage[at].from = src /\ ChartAt(disk, stage, at)
  BY <1>4, FollowsHere
<1>6. Innermost(disk, stage, f)
  BY <1>3, <1>4, <1>5 DEF Innermost
<1>7. ChartAt(disk, stage, stack[Len(stack)].at)
  BY <1>2, <1>4, <1>5
<1> QED BY <1>2, <1>6, <1>7, HandledHere DEF AllDone

LEMMA AllDonePopped ==
    ASSUME WellFormed, AllDone, stack # <<>>, Popped(stack, stack'),
           disk' = disk, stage' = stage, pins' = pins,
           \A i \in Depth(stack) : Handled(disk, stage, pins, stack[i]),
           \A p \in Path : ClosedAt(disk, stage, p) /\ Pending(disk, stack[Len(stack)], p) =>
              Settled(disk, stage, pins, p)
    PROVE  AllDone'
<1>1. PICK stk2 : stk2 = stack'
  OBVIOUS
<1>2. AllHandled(disk, stage, stk2, pins) /\ Tended(disk, stage, stk2, pins)
  BY <1>1, DonePopped DEF WellFormed, Sound, Nest, AllDone
<1> QED BY <1>1, <1>2 DEF AllDone

(* The innermost frame moves on over a dependency that is an archive.      *)
LEMMA AllDoneArchive ==
    ASSUME WellFormed, FollowsDisk, AllDone, NEW top, NEW l, Coming(disk, stack, top, l),
           NEW st2, NEW stk2, NEW pn2, Moved(stack, stk2, top.next + 1),
           Grows(disk, stage, st2), DOMAIN st2 = DOMAIN stage,
           \A p \in DOMAIN stage : st2[p].from = stage[p].from,
           Archive(l) \in st2[top.at].tgz, PinsGrow(pins, pn2), IsPinned(pn2, l)
    PROVE  AllHandled(disk, st2, stk2, pn2) /\ Tended(disk, st2, stk2, pn2)
<1>1. /\ Sound(disk, stage, stack) /\ Nest(disk, stage, stack) /\ World(disk)
      /\ stack # <<>> /\ top = stack[Len(stack)] /\ top \in FrameSet /\ ChartOn(disk, top.src)
      /\ LockOf(disk, top) # NoLock /\ l = LockOf(disk, top)[top.next]
      /\ top.next \in 1 .. Len(LockOf(disk, top))
  BY DEF WellFormed, Sound, Coming
<1>2. Innermost(disk, stage, top) /\ \A i \in Depth(stack) : Handled(disk, stage, pins, stack[i])
  BY <1>1, IsInnermost DEF FollowsDisk
<1>3. PICK m \in Nat \ {0} : m = top.next
  <2>1. top.next \in Nat /\ top.next \in 1 .. Len(LockOf(disk, top))
    BY <1>1 DEF FrameSet
  <2> QED BY <2>1
<1>4. PICK next \in Nat : next = m + 1 /\ next = top.next + 1
  BY <1>3
<1>5. Done(disk, st2, pn2, top, m)
  BY <1>1, <1>3 DEF Done, PresentAt
<1>6. ASSUME NEW j \in Nat \ {0}, j < next PROVE j < top.next \/ Done(disk, st2, pn2, top, j)
  <2>1. j < m \/ j = m
    BY <1>4, <1>6
  <2> QED BY <1>3, <1>5, <2>1
<1>7. Innermost(disk, st2, top)
  BY <1>2 DEF Innermost
<1>8. ASSUME NEW p \in Path, ClosedAt(disk, st2, p), Pending(disk, top, p)
      PROVE  Pending(disk, stk2[Len(stack)], p)
  <2>1. PICK f2 : f2 = stk2[Len(stack)] /\ f2.at = top.at /\ f2.src = top.src /\ f2.next = top.next + 1
    BY <1>1 DEF Moved
  <2>2. Pending(disk, f2, p)
    BY <1>1, <1>7, <1>8, <2>1, OverArchive
  <2> QED BY <2>1, <2>2
<1>9. Moved(stack, stk2, next)
  BY <1>4
<1>10. /\ \A j \in Nat \ {0} : j < next =>
             j < stack[Len(stack)].next \/ Done(disk, st2, pn2, stack[Len(stack)], j)
       /\ \A p \in Path : ClosedAt(disk, st2, p) /\ Pending(disk, stack[Len(stack)], p) =>
             Pending(disk, stk2[Len(stack)], p)
  BY <1>1, <1>6, <1>8
<1> QED BY <1>1, <1>2, <1>9, <1>10, DoneMoved DEF AllDone

(* An archive added is there.                                              *)
LEMMA AddedIsThere ==
    ASSUME NEW st, NEW at \in DOMAIN st, NEW a, NEW st2, Added(st, at, a, st2)
    PROVE  a \in st2[at].tgz
BY DEF Added

LEMMA StepAllDone ==
    ASSUME WellFormed, FollowsDisk, AllDone, [Next]_vars
    PROVE  AllDone'
<1>1. /\ Sound(disk, stage, stack) /\ World(disk) /\ Staged(disk, stage) /\ Nest(disk, stage, stack)
      /\ Twins(disk, stage, stack) /\ IsSeq(pins) /\ stack \in Seq(FrameSet)
  BY DEF WellFormed, Sound, FollowsDisk, Nest
<1>2. CASE StageRoot
  <2>1. stage = [p \in {} |-> {}] /\ disk' = disk /\ pins' = pins
    BY <1>2 DEF StageRoot, WellFormed
  <2>2. PICK st2, stk2 : st2 = stage' /\ stk2 = stack'
    OBVIOUS
  <2>3. PICK f \in FrameSet : /\ f.at = <<>> /\ f.next = 0
                              /\ Len(stk2) = 1 /\ stk2[1] = f /\ Depth(stk2) = {1}
    BY <1>1, <1>2, <2>1, <2>2, StagesRoot
  <2>4. AllHandled(disk, st2, stk2, pins)
    BY <2>3 DEF AllHandled, HandledBut
  <2>5. ASSUME NEW p \in Path PROVE Pending(disk, f, p)
    <3>1. Inside(<<>>, p)
      <4>1. Len(<<>>) = 0 /\ 0 <= Len(p) /\ SubSeq(p, 1, 0) = <<>>
        BY SubSeqEmpty DEF Path
      <4> QED BY <4>1 DEF Inside, IsPathPrefix
    <3> QED BY <2>3, <3>1 DEF Pending
  <2>6. Tended(disk, st2, stk2, pins)
    BY <2>3, <2>5 DEF Tended
  <2> QED BY <2>1, <2>2, <2>4, <2>6 DEF AllDone
<1>3. ASSUME NEW why, Refuse(why) PROVE AllDone'
  BY <1>3 DEF Refuse, AllDone
<1>4. CASE EnterChart
  <2>1. disk' = disk /\ stage' = stage /\ pins' = pins
    BY <1>4 DEF EnterChart
  <2>2. PICK f : f = stack[Len(stack)]
    OBVIOUS
  <2>3. stack # <<>> /\ f.next = 0 /\ ChartOn(disk, f.src)
    BY <1>1, <1>4, <2>2, EntersChart
  <2>4. Innermost(disk, stage, f) /\ \A i \in Depth(stack) : Handled(disk, stage, pins, stack[i])
    BY <1>1, <2>2, <2>3, IsInnermost
  <2>5. CASE disk[f.src].deps = <<>> /\ Popped(stack, stack')
    <3>1. \A p \in Path : ClosedAt(disk, stage, p) /\ Pending(disk, f, p) => Settled(disk, stage, pins, p)
      BY <2>3, <2>4, <2>5, NoneToClose
    <3> QED BY <2>1, <2>2, <2>3, <2>4, <2>5, <3>1, AllDonePopped
  <2>6. CASE LockOf(disk, f) # NoLock /\ Moved(stack, stack', 1)
    <3>1. PICK next \in Nat : next = 1
      OBVIOUS
    <3>2. PICK stk2, f2 : stk2 = stack' /\ f2 = stk2[Len(stack)]
      OBVIOUS
    <3>3. Moved(stack, stk2, next) /\ f2.at = f.at /\ f2.src = f.src /\ f2.next = 1
      BY <2>2, <2>6, <3>1, <3>2 DEF Moved
    <3>4. \A p \in Path : ClosedAt(disk, stage, p) /\ Pending(disk, f, p) => Pending(disk, f2, p)
      BY <1>1, <2>4, <2>6, <3>3, SomeToClose
    <3>5. Grows(disk, stage, stage) /\ PinsGrow(pins, pins)
      BY GrowsSame DEF PinsGrow
    <3>6. \A j \in Nat \ {0} : ~(j < next)
      BY <3>1
    <3>7. /\ \A p \in Path : ClosedAt(disk, stage, p) /\ Pending(disk, stack[Len(stack)], p) =>
                Pending(disk, stk2[Len(stack)], p)
          /\ \A j \in Nat \ {0} : j < next =>
                j < stack[Len(stack)].next \/ Done(disk, stage, pins, stack[Len(stack)], j)
      BY <2>2, <3>2, <3>4, <3>6
    <3>8. AllHandled(disk, stage, stk2, pins) /\ Tended(disk, stage, stk2, pins)
      BY <1>1, <2>3, <2>4, <3>3, <3>5, <3>7, DoneMoved DEF AllDone
    <3> QED BY <2>1, <3>2, <3>8 DEF AllDone
  <2> QED BY <1>1, <1>4, <2>2, <2>5, <2>6, EntersChart
<1>5. CASE ReturnFromChart
  <2>1. disk' = disk /\ stage' = stage /\ pins' = pins
    BY <1>5 DEF ReturnFromChart
  <2>2. PICK f : f = stack[Len(stack)]
    OBVIOUS
  <2>3. stack # <<>> /\ f.next > 0 /\ f.next > Len(LockOf(disk, f)) /\ Popped(stack, stack')
    BY <1>1, <1>5, <2>2, ReturnsFromChart
  <2>4. Len(stack) \in Depth(stack) /\ Ready(disk, f)
    BY <1>1, <2>2, <2>3, TopOfStack DEF Nest
  <2>5. ChartOn(disk, f.src) /\ LockOf(disk, f) # NoLock
    BY <2>3, <2>4 DEF Ready
  <2>6. Innermost(disk, stage, f) /\ \A i \in Depth(stack) : Handled(disk, stage, pins, stack[i])
    BY <1>1, <2>2, <2>3, <2>5, IsInnermost
  <2>7. Handled(disk, stage, pins, f)
    BY <2>2, <2>4, <2>6
  <2>8. \A p \in Path : ClosedAt(disk, stage, p) /\ Pending(disk, f, p) => Settled(disk, stage, pins, p)
    BY <1>1, <2>3, <2>5, <2>6, <2>7, AllClosed
  <2> QED BY <2>1, <2>2, <2>3, <2>6, <2>8, AllDonePopped
<1>6. CASE KeepArchive
  <2>1. disk' = disk /\ stage' = stage
    BY <1>6 DEF KeepArchive
  <2>2. PICK top, l, stk2, pn2 : top = Top /\ l = Locked /\ stk2 = stack' /\ pn2 = pins'
    OBVIOUS
  <2>3. /\ Coming(disk, stack, top, l) /\ Moved(stack, stk2, top.next + 1)
        /\ Archive(l) \in stage[top.at].tgz /\ pn2 = Append(pins, Archive(l))
    BY <1>1, <1>6, <2>2, KeepsArchive
  <2>4. PinsGrow(pins, pn2) /\ IsPinned(pn2, l)
    BY <1>1, <2>3, PinsAppended
  <2>5. AllHandled(disk, stage, stk2, pn2) /\ Tended(disk, stage, stk2, pn2)
    BY <2>3, <2>4, GrowsSame, AllDoneArchive
  <2> QED BY <2>1, <2>2, <2>5 DEF AllDone
<1>7. CASE Downloading /\ Brought
  <2>1. disk' = disk
    BY <1>7 DEF Brought
  <2>2. PICK top, l, st2, stk2, pn2 :
          top = Top /\ l = Locked /\ st2 = stage' /\ stk2 = stack' /\ pn2 = pins'
    OBVIOUS
  <2>3. /\ Coming(disk, stack, top, l) /\ Moved(stack, stk2, top.next + 1)
        /\ top.at \in DOMAIN stage /\ Added(stage, top.at, Archive(l), st2)
        /\ pn2 = Append(pins, Archive(l))
    BY <1>1, <1>7, <2>2, Brings
  <2>4. PinsGrow(pins, pn2) /\ IsPinned(pn2, l)
    BY <1>1, <2>3, PinsAppended
  <2>5. Grows(disk, stage, st2)
    BY <1>1, <2>3, AddGrows
  <2>6. DOMAIN st2 = DOMAIN stage /\ \A p \in DOMAIN stage : st2[p].from = stage[p].from
    BY <2>3 DEF Added
  <2>7. Archive(l) \in st2[top.at].tgz
    <3>1. PICK a, at : a = Archive(l) /\ at = top.at
      OBVIOUS
    <3>2. at \in DOMAIN stage /\ Added(stage, at, a, st2)
      BY <2>3, <3>1
    <3>3. a \in st2[at].tgz
      BY <3>2, AddedIsThere
    <3> QED BY <3>1, <3>3
  <2>8. AllHandled(disk, st2, stk2, pn2) /\ Tended(disk, st2, stk2, pn2)
    BY <2>3, <2>4, <2>5, <2>6, <2>7, AllDoneArchive
  <2> QED BY <2>1, <2>2, <2>8 DEF AllDone
<1>8. ASSUME Coming(disk, stack, Top, Locked), disk' = disk, pins' = Append(pins, Archive(Locked)),
             NEW f, Entered(disk, stage, stack, Top, Locked, f, stage', stack')
      PROVE  AllDone'
  <2>1. PICK top, l, st2, stk2, pn2 :
          top = Top /\ l = Locked /\ st2 = stage' /\ stk2 = stack' /\ pn2 = pins'
    OBVIOUS
  <2>2. /\ Coming(disk, stack, top, l) /\ pn2 = Append(pins, Archive(l))
        /\ Entered(disk, stage, stack, top, l, f, st2, stk2)
    BY <1>8, <2>1
  <2>3. PinsGrow(pins, pn2) /\ IsPinned(pn2, l)
    BY <1>1, <2>2, PinsAppended
  <2>4. stack # <<>> /\ ChartOn(disk, stack[Len(stack)].src)
    BY <2>2 DEF Coming
  <2>5. \A i \in Depth(stack) : Handled(disk, stage, pins, stack[i])
    BY <1>1, <2>4, IsInnermost
  <2>6. /\ f.next = 0 /\ f.at = top.at \o <<l.name>> /\ Descended(stack, stk2, top, f)
        /\ Staged(disk, st2) /\ Grows(disk, stage, st2)
        /\ \A p \in DOMAIN stage : ~Inside(f.at, p) => st2[p] = stage[p]
        /\ \A p \in DOMAIN st2 : ~Inside(f.at, p) => p \in DOMAIN stage
    BY <2>2 DEF Entered
  <2>7. AllHandled(disk, st2, stk2, pn2) /\ Tended(disk, st2, stk2, pn2)
    BY <1>1, <2>2, <2>3, <2>5, <2>6, DoneDescended DEF AllDone
  <2> QED BY <1>8, <2>1, <2>7 DEF AllDone
<1>9. CASE KeepUnpacked
  <2>1. disk' = disk /\ stage' = stage
    BY <1>9 DEF KeepUnpacked
  <2>2. /\ Coming(disk, stack, Top, Locked) /\ pins' = Append(pins, Archive(Locked))
        /\ \E f : Entered(disk, stage, stack, Top, Locked, f, stage, stack')
    BY <1>1, <1>9, KeepsUnpacked
  <2> QED BY <1>8, <2>1, <2>2
<1>10. CASE FromDirectory
  <2>1. disk' = disk
    BY <1>10 DEF FromDirectory
  <2>2. /\ Coming(disk, stack, Top, Locked) /\ pins' = Append(pins, Archive(Locked))
        /\ \E f : Entered(disk, stage, stack, Top, Locked, f, stage', stack')
    BY <1>1, <1>10, CopiesDirectory
  <2> QED BY <1>8, <2>1, <2>2
<1>11. CASE Packed \/ UNCHANGED vars
  BY <1>11 DEF Packed, vars, AllDone
<1>12. CASE RefuseChart \/ RefuseDependency \/ (Downloading /\ Refuse("fetch"))
  BY <1>3, <1>12 DEF RefuseChart, RefuseDependency
<1> QED BY <1>2, <1>4, <1>5, <1>6, <1>7, <1>9, <1>10, <1>11, <1>12 DEF Next, Offline, Download

-----------------------------------------------------------------------------
(* The inductive invariant.  AllDone needs FollowsDisk, to know that the   *)
(* chart being closed is the one staged where it writes; both and          *)
(* ReadsByName need WellFormed, for how the charts being closed nest.      *)
IInv == WellFormed /\ FollowsDisk /\ ReadsByName /\ AllDone

LEMMA InitIInv == Init => IInv
BY InitWellFormed, InitFollowsDisk, InitReadsByName, InitAllDone DEF IInv

LEMMA StepIInv == IInv /\ [Next]_vars => IInv'
BY StepWellFormed, StepFollowsDisk, StepReadsByName, StepAllDone DEF IInv

LEMMA Inductive == Spec => []IInv
BY InitIInv, StepIInv, PTL DEF Spec

LEMMA IsHelmTypeOK ==
    ASSUME IInv
    PROVE  HelmTypeOK
<1>1. World(disk) /\ Staged(disk, stage) /\ Nest(disk, stage, stack)
  BY DEF IInv, WellFormed, Sound
<1>2. RootChart \in DOMAIN disk /\ \A p \in DOMAIN stage : stage[p].from \in DOMAIN disk
  BY <1>1 DEF World, Staged
<1>3. ASSUME NEW i \in DOMAIN stack PROVE stack[i].at \in DOMAIN stage /\ stack[i].next \in Nat
  <2>1. stack \in Seq(FrameSet) /\ i \in Depth(stack)
    BY <1>1 DEF Nest, Depth
  <2>2. stack[i] \in FrameSet /\ stack[i].at \in DOMAIN stage
    BY <1>1, <2>1 DEF Nest, Depth
  <2> QED BY <2>2 DEF FrameSet
<1> QED BY <1>2, <1>3 DEF IInv, WellFormed, OutsStaged, Shallow, HelmTypeOK

LEMMA ReadsByNameThen ==
    ASSUME IInv
    PROVE  ReadsWhatItStagedByName
<1> SUFFICES ASSUME \A d \in DOMAIN disk : NamesOnce(disk[d]), ChartsHoldCharts, NEW i \in DOMAIN stack
             PROVE  stage[stack[i].at].from = stack[i].src
  BY DEF ReadsWhatItStagedByName, ReadsWhatItStaged
<1>1. ByName
  BY DEF ByName, Once, ChartsInCharts, ChartsHoldCharts, Charted, ChartOn
<1>2. i \in Depth(stack)
  BY DEF IInv, WellFormed, Sound, Nest, Depth
<1> QED BY <1>1, <1>2 DEF IInv, ReadsByName, Reading, Reads

(* A beginning of a beginning.                                             *)
LEMMA BeginningOfBeginning ==
    ASSUME NEW p \in Path, NEW n \in 0 .. Len(p), NEW i \in 0 .. n
    PROVE  i \in 0 .. Len(p) /\ SubSeq(SubSeq(p, 1, n), 1, i) = SubSeq(p, 1, i)
<1>1. n \in Nat /\ i \in Nat /\ i <= n /\ n <= Len(p) /\ Len(p) \in Nat /\ i \in 0 .. Len(p)
  BY DEF Path
<1>2. PICK q : q = SubSeq(p, 1, n)
  OBVIOUS
<1>3. \A k \in 1 .. n : p[k] \in Name
  BY <1>1 DEF Path
<1>4. q \in Seq(Name) /\ Len(q) = n /\ \A k \in 1 .. n : q[k] = p[k]
  BY <1>1, <1>2, <1>3, SubSeqProperties
<1>5. PICK x, y : x = SubSeq(q, 1, i) /\ y = SubSeq(p, 1, i)
  OBVIOUS
<1>6. x \in Seq(Name) /\ Len(x) = i /\ \A k \in 1 .. i : x[k] = q[k]
  <2>1. \A k \in 1 .. i : q[k] \in Name
    BY <1>1, <1>3, <1>4
  <2> QED BY <1>1, <1>5, <2>1, SubSeqProperties
<1>7. y \in Seq(Name) /\ Len(y) = i /\ \A k \in 1 .. i : y[k] = p[k]
  <2>1. \A k \in 1 .. i : p[k] \in Name
    BY <1>1, <1>3
  <2> QED BY <1>1, <1>5, <2>1, SubSeqProperties
<1>8. \A k \in 1 .. i : x[k] = y[k]
  BY <1>1, <1>4, <1>6, <1>7
<1>9. x = y
  BY <1>6, <1>7, <1>8, SeqEqual
<1> QED BY <1>1, <1>2, <1>5, <1>9

(* What of a path lies below another.                                      *)
LEMMA SplitsBelow ==
    ASSUME NEW a \in Path, NEW d \in Path, Inside(a, d)
    PROVE  /\ Rel(a, d) \in Path /\ d = a \o Rel(a, d)
           /\ \A n \in 0 .. Len(Rel(a, d)) :
                 Len(a) + n \in Len(a) .. Len(d)
                 /\ SubSeq(d, 1, Len(a) + n) = a \o SubSeq(Rel(a, d), 1, n)
<1>1. PICK x : x = Rel(a, d)
  OBVIOUS
<1>2. x \in Path /\ d = a \o x
  BY <1>1, InsideSplits DEF Path
<1>3. Len(d) = Len(a) + Len(x) /\ Len(a) \in Nat /\ Len(x) \in Nat
  BY <1>2, ConcatProperties DEF Path
<1>4. \A n \in 0 .. Len(x) : SubSeq(d, 1, Len(a) + n) = a \o SubSeq(x, 1, n)
  BY <1>2, BeginningOfConcat
<1> QED BY <1>1, <1>2, <1>3, <1>4

LEMMA AuthorsChartsStay ==
    ASSUME IInv
    PROVE  AuthorsChartsKept
<1> SUFFICES ASSUME status # "staging", NEW d \in DOMAIN disk, Inside(RootChart, d), NEW x, x = Rel(RootChart, d)
             PROVE  /\ x \in DOMAIN stage /\ disk[d].tgz \subseteq stage[x].tgz
                    /\ (\A n \in Len(RootChart) .. Len(d) : Charted(SubSeq(d, 1, n))) => stage[x].from = d
  BY DEF AuthorsChartsKept
<1>1. Follows(disk, stage, <<>>, RootChart)
      /\ \A y \in Path : RootChart \o y \in DOMAIN disk =>
            y \in DOMAIN stage /\ disk[RootChart \o y].tgz \subseteq stage[y].tgz
  BY DEF IInv, FollowsDisk, Kept
<1>2. RootChart \in Path /\ d \in Path
  BY DEF IInv, WellFormed, Sound, World
<1>3. x \in Path /\ d = RootChart \o x
      /\ \A n \in 0 .. Len(x) :
            /\ Len(RootChart) + n \in Len(RootChart) .. Len(d)
            /\ SubSeq(d, 1, Len(RootChart) + n) = RootChart \o SubSeq(x, 1, n)
  BY <1>2, SplitsBelow
<1>4. x \in DOMAIN stage /\ disk[d].tgz \subseteq stage[x].tgz
  BY <1>1, <1>3
<1>5. ASSUME \A n \in Len(RootChart) .. Len(d) : Charted(SubSeq(d, 1, n))
      PROVE  stage[x].from = d
  <2>1. \A n \in 0 .. Len(x) : ChartOn(disk, RootChart \o SubSeq(x, 1, n))
    BY <1>3, <1>5 DEF Charted, ChartOn
  <2>2. stage[<<>> \o x].from = RootChart \o x
    BY <1>1, <1>3, <2>1 DEF Follows
  <2>3. <<>> \o x = x
    BY <1>3 DEF Path
  <2> QED BY <1>3, <2>2, <2>3
<1> QED BY <1>4, <1>5

(* A chart in the bundle, in the words of the proofs.                      *)
LEMMA InTheBundle ==
    ASSUME IInv, NEW p \in ChartsIn(stage)
    PROVE  p \in Path /\ p \in DOMAIN stage /\ \A i \in 0 .. Len(p) : ChartAt(disk, stage, SubSeq(p, 1, i))
BY DEF IInv, WellFormed, Sound, Staged, ChartsIn, IsChart, ChartAt

LEMMA ClosedInTheBundle ==
    ASSUME IInv, NEW p \in ClosedCharts
    PROVE  p \in Path /\ ClosedAt(disk, stage, p)
<1>1. p \in ChartsIn(stage)
  BY DEF ClosedCharts
<1>2. p \in Path /\ p \in DOMAIN stage /\ \A i \in 0 .. Len(p) : ChartAt(disk, stage, SubSeq(p, 1, i))
  BY <1>1, InTheBundle
<1>3. \A i \in 1 .. Len(p) : LET above == SubSeq(p, 1, i - 1) IN
         /\ disk[stage[above].from].deps # <<>>
         /\ \E l \in LockEntries(disk[stage[above].from]) : l.name = p[i]
         /\ \A l \in LockEntries(disk[stage[above].from]) : l.name = p[i] => Archive(l) \notin stage[above].tgz
  BY DEF ClosedCharts, IsLocked
<1> QED BY <1>2, <1>3 DEF ClosedAt

(* When nothing is left to close, every chart on the way is done.          *)
LEMMA PackedSettles ==
    ASSUME IInv, status = "packed", NEW p \in ClosedCharts
    PROVE  Settled(disk, stage, pins, p)
<1>1. p \in Path /\ ClosedAt(disk, stage, p)
  BY ClosedInTheBundle
<1>2. Depth(stack) = {}
  BY DEF IInv, WellFormed, Depth
<1> QED BY <1>1, <1>2 DEF IInv, AllDone, Tended

LEMMA PinsEveryDependency ==
    ASSUME IInv
    PROVE  EveryDependencyPinned
BY PackedSettles DEF EveryDependencyPinned, Settled, IsPinned

(* A chart below another in the bundle, whose lock names everything under  *)
(* its charts/, was closed, or needs nothing.                              *)
LEMMA FaithfulAreClosed ==
    ASSUME IInv, \A q \in ChartsIn(stage) : Faithful(q), NEW p \in ChartsIn(stage)
    PROVE  p \in ClosedCharts \/ disk[stage[p].from].deps = <<>>
<1>1. p \in Path /\ p \in DOMAIN stage /\ \A i \in 0 .. Len(p) : ChartAt(disk, stage, SubSeq(p, 1, i))
  BY InTheBundle
<1>2. CASE Len(p) = 0
  <2>1. 1 .. Len(p) = {}
    BY <1>2
  <2> QED BY <2>1 DEF ClosedCharts
<1>3. CASE Len(p) # 0
  <2>1. PICK n, q : n = Len(p) - 1 /\ q = SubSeq(p, 1, n)
    OBVIOUS
  <2>2. n \in 0 .. Len(p) /\ n + 1 = Len(p) /\ n \in Nat
    BY <1>1, <1>3, <2>1 DEF Path
  <2>3. q \in Path /\ Len(q) = n /\ Inside(q, p)
    BY <1>1, <2>1, <2>2, Beginning
  <2>4. q \in DOMAIN stage
    BY <1>1, <2>1, <2>2 DEF ChartAt
  <2>5. ASSUME NEW i \in 0 .. n PROVE IsChart(stage, SubSeq(q, 1, i))
    <3>1. i \in 0 .. Len(p) /\ SubSeq(q, 1, i) = SubSeq(p, 1, i)
      BY <1>1, <2>1, <2>2, BeginningOfBeginning
    <3> QED BY <1>1, <3>1 DEF ChartAt, IsChart
  <2>6. q \in ChartsIn(stage)
    BY <2>3, <2>4, <2>5 DEF ChartsIn
  <2>7. Len(p) = Len(q) + 1
    BY <2>2, <2>3
  <2> QED BY <2>3, <2>6, <2>7 DEF Faithful
<1> QED BY <1>2, <1>3

LEMMA PackedIsAccepted ==
    ASSUME IInv
    PROVE  PackedChartAccepted
<1> SUFFICES ASSUME status = "packed", \A q \in ChartsIn(stage) : Faithful(q),
                    NEW p \in ChartsIn(stage), NEW d \in Declared(stage, p)
             PROVE  Present(stage, p, d)
  BY DEF PackedChartAccepted, CloseChart
<1>1. disk[stage[p].from].deps # <<>>
  BY DEF Declared
<1>2. p \in ClosedCharts
  BY <1>1, FaithfulAreClosed
<1>3. Settled(disk, stage, pins, p)
  BY <1>2, PackedSettles
<1>4. d \in LockEntries(disk[stage[p].from])
  BY DEF Faithful
<1>5. PresentAt(disk, stage, p, d)
  BY <1>1, <1>3, <1>4 DEF Settled
<1> QED BY <1>5 DEF PresentAt, Present, ChartAt, IsChart

-----------------------------------------------------------------------------
(* The theorems, of every pack of a chart.                                 *)

(* The state is well formed, and what closeHelm stages nests no deeper     *)
(* than maxChartDepth and one directory as the author nested it, however   *)
(* charts on disk name each other.                                         *)
THEOREM HelmStateIsWellFormed == Spec => []HelmTypeOK
BY Inductive, IsHelmTypeOK, PTL

(* Where names are not used twice and charts are not hidden below what is  *)
(* no chart, closeChart reads on disk the chart it staged where it writes. *)
THEOREM ReadsTheChartItStaged == Spec => []ReadsWhatItStagedByName
BY Inductive, ReadsByNameThen, PTL

(* Everything under charts/ in the working copy is in the bundle: every    *)
(* archive, and every chart that is under charts all the way.              *)
THEOREM KeepsAuthorsCharts == Spec => []AuthorsChartsKept
BY Inductive, AuthorsChartsStay, PTL

(* When closeHelm is done, every locked dependency of every chart closed   *)
(* is among the pins, one that was already under charts/ included.         *)
THEOREM PinsAreComplete == Spec => []EveryDependencyPinned
BY Inductive, PinsEveryDependency, PTL

(* A chart whose locks name what is declared and what is unpacked under    *)
(* charts/ is packed so that CloseChart accepts it, of whatever depth.     *)
THEOREM ServerAcceptsThePackedChart == Spec => []PackedChartAccepted
BY Inductive, PackedIsAccepted, PTL

-----------------------------------------------------------------------------
(* Followed request by request, a download is still one of closeHelm's.    *)

LEMMA InitChart == ChartInit => Init
BY DEF ChartInit

LEMMA StepChart == [ChartNext]_<<vars, fetchVars>> => [Next]_vars
<1> SUFFICES ASSUME [ChartNext]_<<vars, fetchVars>> PROVE [Next]_vars
  OBVIOUS
<1>1. ASSUME Following, RefuseFetch PROVE Next
  BY <1>1 DEF Following, RefuseFetch, Download, Next
<1>2. CASE Offline \/ Download
  BY <1>2 DEF Next
<1>3. CASE Describe \/ AskArchive
  <2>1. Following
    BY <1>3 DEF Describe, AskArchive
  <2>2. RefuseFetch \/ UNCHANGED vars
    BY <1>3 DEF Describe, AskArchive, AskRepository, AskRegistry
  <2> QED BY <1>1, <2>1, <2>2
<1>4. CASE PresentCredential \/ AskTokenService \/ TokenIssued
  BY <1>4 DEF PresentCredential, AskTokenService, TokenIssued, AskAgain
<1>5. CASE Described \/ Republish
  BY <1>5 DEF Described, Republish
<1>6. CASE Redirect
  <2>1. Following
    BY <1>6 DEF Redirect, Waiting
  <2>2. RefuseFetch \/ UNCHANGED vars
    BY <1>6 DEF Redirect
  <2> QED BY <1>1, <2>1, <2>2
<1>7. CASE RequestFails \/ RefuseChallenge
  BY <1>1, <1>7 DEF RequestFails, RefuseChallenge, Challenged, Waiting
<1>8. CASE Arrives
  <2>1. Following
    BY <1>8 DEF Arrives, Answered, Waiting
  <2>2. RefuseFetch \/ Brought
    BY <1>8 DEF Arrives
  <2> QED BY <1>1, <2>1, <2>2 DEF Following, Download, Next
<1>9. CASE UNCHANGED <<vars, fetchVars>>
  BY <1>9
<1> QED BY <1>2, <1>3, <1>4, <1>5, <1>6, <1>7, <1>8, <1>9 DEF ChartNext

(* The requests, redirects and answers of fetchChart and pullChart change  *)
(* the stage only as closeHelm's one Download does, or refuse.             *)
THEOREM FetchesRefineDownload == ChartSpec => Spec
BY InitChart, StepChart, PTL DEF ChartSpec, Spec

(* So what is proved of closeHelm holds of a pack followed that closely.   *)
THEOREM FollowedChartsArePacked ==
    ChartSpec => [](ReadsWhatItStagedByName /\ AuthorsChartsKept /\ EveryDependencyPinned /\ PackedChartAccepted)
BY FetchesRefineDownload, ReadsTheChartItStaged, KeepsAuthorsCharts, PinsAreComplete,
   ServerAcceptsThePackedChart, PTL

-----------------------------------------------------------------------------
(* Lookup finds something wherever something answers: a source that comes  *)
(* first, and of a machine's repositories the longest.                     *)

LEMMA LenOfPath ==
    ASSUME NEW p, IsPath(p)
    PROVE  Len(p) \in Nat
<1>1. PICK S : p \in Seq(S)
  BY DEF IsPath
<1> QED BY <1>1

LEMMA RankOfStored ==
    ASSUME NEW e, IsStored(e), e.by # "docker"
    PROVE  Rank(e) \in Nat /\ Sources[Rank(e)] = e.by
<1>1. \E i \in DOMAIN Sources : Sources[i] = e.by
  BY DEF IsStored
<1>2. Rank(e) \in DOMAIN Sources /\ Sources[Rank(e)] = e.by
  BY <1>1 DEF Rank
<1>3. DOMAIN Sources \subseteq Nat
  BY DEF Sources
<1> QED BY <1>2, <1>3

LEMMA FirstToAnswer ==
    ASSUME NEW u, IsURL(u), NEW fit, fit # {},
           \A e \in fit : IsStored(e) /\ e.by # "docker" /\ Answers(e, u)
    PROVE  \E e \in fit : \A f \in fit : ~Precedes(f, e)
<1>1. \A e \in fit : Rank(e) \in Nat /\ Sources[Rank(e)] = e.by
  BY RankOfStored
<1>2. PICK m \in {Rank(e) : e \in fit} : \A n \in {Rank(e) : e \in fit} : m <= n
  <2>1. {Rank(e) : e \in fit} \in SUBSET Nat /\ {Rank(e) : e \in fit} # {}
    BY <1>1
  <2> QED BY <2>1, LeastMember
<1> DEFINE least == {e \in fit : Rank(e) = m}
<1>3. m \in Nat /\ least # {} /\ \A e \in fit : m <= Rank(e)
  BY <1>1, <1>2
<1>4. \A e \in least : e \in fit /\ e.by = Sources[m]
  BY <1>1
<1>5. CASE Sources[m] # "helm"
  <2>1. PICK e \in least : TRUE
    BY <1>3
  <2>2. ASSUME NEW f \in fit PROVE ~Precedes(f, e)
    <3>1. ~(Rank(f) < Rank(e))
      BY <1>1, <1>3, <2>1
    <3>2. e.by # "helm"
      BY <1>4, <1>5, <2>1
    <3> QED BY <3>1, <3>2 DEF Precedes
  <2> QED BY <2>1, <2>2
<1>6. CASE Sources[m] = "helm"
  <2>1. \A e \in least : Len(e.path) \in 0 .. Len(u.path)
    <3>1. SUFFICES ASSUME NEW e \in least PROVE Len(e.path) \in 0 .. Len(u.path)
      OBVIOUS
    <3>2. Inside(e.path, u.path)
      BY <1>4, <1>6 DEF Answers
    <3>3. Len(e.path) \in Nat /\ Len(u.path) \in Nat
      BY LenOfPath DEF IsStored, IsURL
    <3> QED BY <3>2, <3>3 DEF Inside, IsPathPrefix
  <2>2. PICK n \in {Len(e.path) : e \in least} : \A k \in {Len(e.path) : e \in least} : k <= n
    <3>1. Len(u.path) \in Nat
      BY LenOfPath DEF IsURL
    <3>2. {Len(e.path) : e \in least} \in SUBSET (0 .. Len(u.path)) /\ {Len(e.path) : e \in least} # {}
      BY <1>3, <2>1
    <3> QED BY <3>1, <3>2, GreatestMember
  <2>3. PICK e \in least : Len(e.path) = n
    BY <2>2
  <2>4. ASSUME NEW f \in fit PROVE ~Precedes(f, e)
    <3>1. ~(Rank(f) < Rank(e))
      BY <1>1, <1>3, <2>3
    <3>2. ASSUME e.by = "helm", f.by = "helm" PROVE ~(Len(f.path) > Len(e.path))
      <4>1. Rank(f) = Rank(e)
        BY <3>2 DEF Rank
      <4>2. f \in least
        BY <2>3, <4>1
      <4>3. Len(f.path) <= n /\ n \in Nat /\ Len(f.path) \in Nat
        BY <2>1, <2>2, <2>3, <4>2
      <4> QED BY <2>3, <4>3
    <3> QED BY <3>1, <3>2 DEF Precedes
  <2> QED BY <2>3, <2>4
<1> QED BY <1>5, <1>6

LEMMA AnsweredIsStored ==
    ASSUME NEW u, NEW e, IsStored(e), Answers(e, u)
    PROVE  StoredFor(e, u) \/ OnlySpelledFor(e, u)
BY DEF Answers, StoredFor, OnlySpelledFor, TextPrefix

LEMMA LookupAnswers ==
    ASSUME net \in Nets, NEW u, IsURL(u), NEW e, e = Lookup(u), e # NoCredential
    PROVE  IsStored(e) /\ Answers(e, u)
<1>1. PICK fit : fit = {f \in net.stored : f.by # "docker" /\ Answers(f, u)}
  OBVIOUS
<1>2. \A f \in fit : IsStored(f) /\ f.by # "docker" /\ Answers(f, u)
  BY <1>1, NetsAssumption
<1>3. fit # {} /\ e = CHOOSE f \in fit : \A x \in fit : ~Precedes(x, f)
  BY <1>1 DEF Lookup
<1>4. \E f \in fit : \A x \in fit : ~Precedes(x, f)
  BY <1>2, <1>3, FirstToAnswer
<1>5. e \in fit
  BY <1>3, <1>4
<1> QED BY <1>2, <1>5

LEMMA CredentialIsStored ==
    ASSUME net \in Nets, NEW u, IsURL(u), u.scheme = "oci", NEW e, e = CredentialFor(u), e # NoCredential
    PROVE  IsStored(e) /\ StoredFor(e, u)
<1>1. IsStored(e) /\ Answers(e, u)
  <2>1. CASE Lookup(u) = NoCredential /\ Docker(u) # {}
    <3>1. e \in Docker(u)
      BY <2>1 DEF CredentialFor
    <3> QED BY <3>1, NetsAssumption DEF Docker
  <2>2. CASE ~(Lookup(u) = NoCredential /\ Docker(u) # {})
    BY <2>2, LookupAnswers DEF CredentialFor
  <2> QED BY <2>1, <2>2
<1>2. ~OnlySpelledFor(e, u)
  BY DEF OnlySpelledFor, IsWeb
<1> QED BY <1>1, <1>2, AnsweredIsStored

-----------------------------------------------------------------------------
(* The requests of a download: what is out, and where it began.            *)

FetchPhase == {"idle", "describing", "described", "fetching"}
Anonymous == {NoCredential, Issued}

(* What StoredForThere says of one credential sent.                        *)
Rightly(s) ==
    /\ StoredFor(s.credential, s.url) \/ OnlySpelledFor(s.credential, s.url) \/ StoredForNeighbour(s)
    /\ s.credential.family # "ssh key"
    /\ IF s.exchange THEN NamedTokenService(s) ELSE s.first = Actual(s.url)
    /\ KeepsHeader(s.first, s.at)
    /\ s.at.scheme = "http" => s.first.scheme = "http"
    /\ s.first.scheme = "http" =>
         net.insecure \/ s.exchange \/ (s.url.scheme = "oci" /\ s.url.host = Loopback)

(* A request is for a URL, and where it is its host's redirects led.       *)
WellAsked(q) ==
    /\ DOMAIN q = {"url", "first", "at", "via", "carries", "retried", "exchange"}
    /\ q.via \in 1 .. MaxHops
    /\ q.exchange \in BOOLEAN
    /\ IsURL(q.url) /\ IsWeb(q.first)
    /\ ~Http => q.url.scheme = "oci"
    /\ IF q.exchange THEN ~Http
       ELSE q.first = Actual(q.url) /\ q.at.host \in LedTo(q.url.host)
Requested ==
    /\ phase \in FetchPhase
    /\ {holds, named} \subseteq Bytes \cup {NoDigest}
    /\ phase # "idle" => Following
    /\ request # NoRequest <=> phase \in {"describing", "fetching"}
    /\ request # NoRequest => WellAsked(request) /\ Sent(request) \subseteq wire

(* What is in the registry client's cache was stored for what it is of,    *)
(* and a login has been there.                                             *)
WellGranted(c) ==
    c.carries \notin Anonymous =>
        /\ StoredFor(c.carries, c.url)
        /\ c.carries.family = IF c.basic THEN "basic auth" ELSE "bearer token"
        /\ c.basic => \E t \in wire : t.credential = c.carries /\ t.url = c.url
Apart(c, d) == c.url.host = d.url.host => c = d \/ ~(c.basic \/ d.basic \/ c.url = d.url)
GrantInv ==
    /\ \A c \in granted : WellGranted(c) /\ c.basic \in BOOLEAN
    /\ \A c, d \in granted : Apart(c, d)
FetchInv ==
    /\ disk \in Online => net \in Nets
    /\ Requested
    /\ GrantInv
    /\ StoredForThere

LEMMA InitFetchInv ==
    ASSUME ChartInit
    PROVE  FetchInv
BY DEF ChartInit, FetchInv, Requested, GrantInv, StoredForThere, FetchPhase

(* While a download is out, the pack takes no other step.                  *)
LEMMA OnlyTheDownload ==
    ASSUME WellFormed, Offline
    PROVE  ~Following
<1> SUFFICES ASSUME Following PROVE FALSE
  OBVIOUS
<1>1. /\ OneDependency /\ ~ArchiveThere /\ ~IsChart(stage, At) /\ Locked.repo.kind \in {"oci", "http"}
      /\ status = "closing" /\ stack # <<>> /\ Top.next > 0 /\ Top.next <= Len(Meta.lock)
  BY DEF Following, Downloading, Absent, OneDependency, Closing
<1>2. Coming(disk, stack, Top, Locked)
  BY <1>1, ComesToDependency DEF WellFormed
<1>3. Top.next \in Nat /\ Len(Meta.lock) \in Nat
  <2>1. Top \in FrameSet
    BY <1>2 DEF Coming
  <2>2. World(disk) /\ Top.src \in DOMAIN disk /\ disk[Top.src].lock # NoLock
    BY <1>2 DEF Coming, WellFormed, Sound, ChartOn, LockOf
  <2> QED BY <2>1, <2>2, LockEntry DEF FrameSet, Meta
<1>4. ~StageRoot /\ ~Packed
  BY <1>1 DEF StageRoot, Packed
<1>5. ~RefuseChart /\ ~EnterChart
  BY <1>1, <1>3 DEF RefuseChart, EnterChart, Entering
<1>6. ~ReturnFromChart
  BY <1>1, <1>3 DEF ReturnFromChart
<1>7. ~KeepArchive /\ ~KeepUnpacked
  BY <1>1 DEF KeepArchive, KeepUnpacked
<1>8. ~RefuseDependency
  BY <1>1 DEF RefuseDependency, DependencyError
<1>9. ~FromDirectory
  BY <1>1 DEF FromDirectory
<1> QED BY <1>4, <1>5, <1>6, <1>7, <1>8, <1>9 DEF Offline

LEMMA StillFollowing ==
    ASSUME UNCHANGED vars
    PROVE  (Following' <=> Following) /\ (Http' <=> Http)
BY DEF vars, Following, Downloading, Absent, OneDependency, Closing, ArchiveThere, IsChart, At, Archive,
       Locked, Meta, Top, Http

LEMMA SentIsThere ==
    ASSUME StoredForThere, NEW s \in wire
    PROVE  Rightly(s)
BY DEF StoredForThere, Rightly

LedBy(redirects, h) ==
    LET hosts == {h} \cup {redirects[x].host : x \in DOMAIN redirects}
        Closed(S) == h \in S /\ \A x \in S \cap DOMAIN redirects : redirects[x].host \in S IN
    {x \in hosts : \A S \in SUBSET hosts : Closed(S) => x \in S}

LEMMA LedToStays ==
    ASSUME net' = net, NEW h
    PROVE  LedTo(h)' = LedTo(h)
<1>1. LedTo(h) = LedBy(net.redirects, h)
  BY DEF LedTo, LedBy
<1>2. LedTo(h)' = LedBy(net.redirects, h)'
  BY DEF LedTo, LedBy
<1> QED BY <1>1, <1>2

LEMMA RightlyStays ==
    ASSUME net' = net, wire \subseteq wire', NEW s, Rightly(s)
    PROVE  Rightly(s)'
<1>1. StoredForNeighbour(s) => StoredForNeighbour(s)'
  BY DEF StoredForNeighbour
<1>2. NamedTokenService(s) => NamedTokenService(s)'
  <2>1. LedTo(s.url.host)' = LedTo(s.url.host)
    BY LedToStays
  <2> QED BY <2>1 DEF NamedTokenService
<1> QED BY <1>1, <1>2 DEF Rightly

LEMMA WellAskedStays ==
    ASSUME UNCHANGED vars, net' = net, NEW q, WellAsked(q)
    PROVE  WellAsked(q)'
<1>1. LedTo(q.url.host)' = LedTo(q.url.host)
  BY LedToStays
<1>2. Http' <=> Http
  BY StillFollowing
<1> QED BY <1>1, <1>2 DEF WellAsked

LEMMA WellGrantedStays ==
    ASSUME wire \subseteq wire', NEW c, WellGranted(c)
    PROVE  WellGranted(c)'
BY DEF WellGranted

LEMMA GrantsStay ==
    ASSUME GrantInv, wire \subseteq wire', granted' = granted
    PROVE  GrantInv'
BY WellGrantedStays DEF GrantInv, Apart

(* Nothing sent, and the credentials that were sent stay right.            *)
LEMMA NothingSent ==
    ASSUME FetchInv, net' = net, wire' = wire, granted' = granted
    PROVE  StoredForThere' /\ GrantInv'
<1>1. wire \subseteq wire'
  OBVIOUS
<1>2. \A s \in wire : Rightly(s)'
  BY <1>1, SentIsThere, RightlyStays DEF FetchInv
<1>3. StoredForThere'
  BY <1>2 DEF StoredForThere, Rightly
<1> QED BY <1>1, <1>3, GrantsStay DEF FetchInv

LEMMA AfterRefusal ==
    ASSUME FetchInv, RefuseFetch
    PROVE  FetchInv'
<1>1. /\ phase' = "idle" /\ request' = NoRequest /\ disk' = disk
      /\ net' = net /\ holds' = holds /\ named' = named /\ granted' = granted /\ wire' = wire
  BY DEF RefuseFetch, Refuse
<1>2. StoredForThere' /\ GrantInv'
  BY <1>1, NothingSent
<1>3. Requested'
  BY <1>1 DEF FetchInv, Requested, FetchPhase
<1> QED BY <1>1, <1>2, <1>3 DEF FetchInv

(* A request goes out with what it may carry.                              *)
LEMMA AfterSending ==
    ASSUME FetchInv, Following, UNCHANGED <<vars, net, holds, named>>,
           NEW q, WellAsked(q), Send(q), \A s \in Sent(q) : Rightly(s),
           phase' \in {"describing", "fetching"}, GrantInv'
    PROVE  FetchInv'
<1>1. request' = q /\ wire' = wire \cup Sent(q) /\ net' = net /\ UNCHANGED vars
  BY DEF Send
<1>2. wire \subseteq wire' /\ Sent(q) \subseteq wire'
  BY <1>1
<1>3. \A s \in wire' : Rightly(s)'
  BY <1>1, <1>2, SentIsThere, RightlyStays DEF FetchInv
<1>4. StoredForThere'
  BY <1>3 DEF StoredForThere, Rightly
<1>5. WellAsked(q)'
  BY <1>1, WellAskedStays
<1>6. q # NoRequest
  <2>1. "at" \in DOMAIN q /\ "at" \notin DOMAIN NoRequest
    BY DEF WellAsked, NoRequest
  <2> QED BY <2>1
<1>7. Following' /\ disk' = disk
  BY <1>1, StillFollowing DEF vars
<1>8. WellAsked(request)'
  BY <1>1, <1>5
<1>9. Sent(request)' \subseteq wire'
  BY <1>1, <1>2 DEF Sent
<1>10. Requested'
  <2>1. {holds', named'} \subseteq Bytes \cup {NoDigest}
    BY DEF FetchInv, Requested
  <2> QED BY <1>1, <1>6, <1>7, <1>8, <1>9, <2>1 DEF Requested, FetchPhase
<1>11. disk' \in Online => net' \in Nets
  BY <1>1, <1>7 DEF FetchInv
<1> QED BY <1>4, <1>10, <1>11 DEF FetchInv

LEMMA ActualURL ==
    ASSUME NEW u, IsURL(u)
    PROVE  /\ IsURL(Actual(u)) /\ Actual(u).host = u.host /\ IsWeb(Actual(u))
           /\ u.scheme # "oci" => Actual(u) = u
           /\ u.scheme = "oci" /\ Actual(u).scheme = "http" => u.host = Loopback
BY DEF Actual, IsURL, IsPath, IsWeb

LEMMA LeadsTo ==
    ASSUME NEW h
    PROVE  /\ h \in LedTo(h)
           /\ \A x \in LedTo(h) \cap DOMAIN net.redirects : net.redirects[x].host \in LedTo(h)
BY DEF LedTo

(* A request that begins at its own URL.                                   *)
LEMMA BeginsThere ==
    ASSUME NEW u, IsURL(u), ~Http => u.scheme = "oci", NEW e, NEW again \in BOOLEAN,
           NEW q, q = [Request(u, Actual(u), e) EXCEPT !.retried = again]
    PROVE  /\ WellAsked(q)
           /\ Sent(q) = IF e \in Anonymous THEN {}
                        ELSE {[credential |-> e, url |-> u, first |-> Actual(u), at |-> Actual(u), exchange |-> FALSE]}
<1>1. PICK a : a = Actual(u)
  OBVIOUS
<1>2. IsWeb(a) /\ a.host = u.host
  BY <1>1, ActualURL
<1>3. /\ q = [url |-> u, first |-> a, at |-> a, via |-> 1, carries |-> e, retried |-> again, exchange |-> FALSE]
  BY <1>1 DEF Request
<1>4. 1 \in 1 .. MaxHops
  BY NetsAssumption
<1>5. u.host \in LedTo(u.host)
  BY LeadsTo
<1>6. WellAsked(q)
  <2>1. /\ DOMAIN q = {"url", "first", "at", "via", "carries", "retried", "exchange"}
        /\ q.url = u /\ q.first = a /\ q.at = a /\ q.via = 1 /\ q.exchange = FALSE
    BY <1>3
  <2> QED BY <1>1, <1>2, <1>4, <1>5, <2>1 DEF WellAsked
<1>7. Sent(q) = IF e \in Anonymous THEN {}
                ELSE {[credential |-> e, url |-> u, first |-> a, at |-> a, exchange |-> FALSE]}
  <2>1. q.url = u /\ q.first = a /\ q.at = a /\ q.carries = e /\ q.exchange = FALSE
    BY <1>3
  <2> QED BY <2>1 DEF Sent, Anonymous
<1> QED BY <1>1, <1>6, <1>7

(* To its own URL a credential goes rightly if it is stored there.         *)
LEMMA RightlyThere ==
    ASSUME NEW u, IsURL(u), NEW e, e.family # "ssh key",
           StoredFor(e, u) \/ OnlySpelledFor(e, u),
           u.scheme = "http" => net.insecure,
           NEW s, s = [credential |-> e, url |-> u, first |-> Actual(u), at |-> Actual(u), exchange |-> FALSE]
    PROVE  Rightly(s)
<1>1. PICK a : a = Actual(u)
  OBVIOUS
<1>2. IsWeb(a) /\ (u.scheme # "oci" => a = u) /\ (u.scheme = "oci" /\ a.scheme = "http" => u.host = Loopback)
  BY <1>1, ActualURL
<1>3. s.credential = e /\ s.url = u /\ s.first = a /\ s.at = a /\ ~s.exchange /\ s.first = Actual(s.url)
  BY <1>1
<1> QED BY <1>2, <1>3 DEF Rightly, KeepsHeader

LEMMA AfterAskRepository ==
    ASSUME FetchInv, Following, Http, NEW u, IsURL(u), NEW next \in {"describing", "fetching"},
           AskRepository(u, Lookup(u), next)
    PROVE  FetchInv'
<1>1. net \in Nets
  BY DEF FetchInv, Following
<1>2. PICK e : e = Lookup(u)
  OBVIOUS
<1>3. CASE RefuseFetch
  BY <1>3, AfterRefusal
<1>4. CASE ~RefuseFetch
  <2>1. /\ IsWeb(u) /\ Authorized(e, u)
        /\ phase' = next /\ Send(Request(u, u, e))
        /\ UNCHANGED <<vars, net, holds, named>> /\ granted' = granted
    BY <1>2, <1>4 DEF AskRepository
  <2>2. Actual(u) = u
    BY <2>1 DEF Actual, IsWeb
  <2>3. PICK q : q = [Request(u, Actual(u), e) EXCEPT !.retried = FALSE]
    OBVIOUS
  <2>4. q = Request(u, u, e)
    BY <2>2, <2>3 DEF Request
  <2>5. /\ WellAsked(q)
        /\ Sent(q) = IF e \in Anonymous THEN {}
                     ELSE {[credential |-> e, url |-> u, first |-> Actual(u), at |-> Actual(u), exchange |-> FALSE]}
    BY <2>3, BeginsThere
  <2>6. ASSUME NEW s \in Sent(q) PROVE Rightly(s)
    <3>1. e \notin Anonymous
          /\ s = [credential |-> e, url |-> u, first |-> Actual(u), at |-> Actual(u), exchange |-> FALSE]
      BY <2>5, <2>6
    <3>2. StoredFor(e, u) \/ OnlySpelledFor(e, u)
      BY <1>1, <1>2, <3>1, LookupAnswers, AnsweredIsStored DEF Anonymous
    <3>3. e.family # "ssh key" /\ (u.scheme = "http" => net.insecure)
      BY <2>1, <3>1 DEF Authorized, Anonymous
    <3> QED BY <3>1, <3>2, <3>3, RightlyThere
  <2>7. Send(q)
    BY <2>1, <2>4
  <2>8. GrantInv'
    BY <2>1, <2>7, GrantsStay DEF FetchInv, Send
  <2> QED BY <2>1, <2>5, <2>6, <2>7, <2>8, AfterSending
<1> QED BY <1>3, <1>4

(* Out of the cache comes what was stored for the repository, or the login *)
(* of another one on its host.                                             *)
LEMMA AfterAskRegistry ==
    ASSUME FetchInv, Following, NEW u, u = Reference, IsURL(u), u.scheme = "oci",
           NEW next \in {"describing", "fetching"}, AskRegistry(next)
    PROVE  FetchInv'
<1>1. PICK e, q : e = Cached(u) /\ q = [Request(u, Actual(u), e) EXCEPT !.retried = FALSE]
  OBVIOUS
<1>2. Request(u, Actual(u), e).retried = FALSE
  BY DEF Request
<1>3. q = Request(u, Actual(u), e)
  BY <1>1, <1>2 DEF Request
<1>4. phase' = next /\ Send(q) /\ UNCHANGED <<vars, net, holds, named>> /\ granted' = granted
  BY <1>1, <1>3 DEF AskRegistry
<1>5. /\ WellAsked(q)
      /\ Sent(q) = IF e \in Anonymous THEN {}
                   ELSE {[credential |-> e, url |-> u, first |-> Actual(u), at |-> Actual(u), exchange |-> FALSE]}
  BY <1>1, BeginsThere
<1>6. ASSUME NEW s \in Sent(q) PROVE Rightly(s)
  <2>1. e \notin Anonymous
        /\ s = [credential |-> e, url |-> u, first |-> Actual(u), at |-> Actual(u), exchange |-> FALSE]
    BY <1>5, <1>6
  <2>2. PICK c \in Held(u) : e = c.carries
    BY <1>1, <2>1 DEF Cached, Anonymous
  <2>3. c \in granted /\ c.url.host = u.host /\ (c.basic \/ c.url = u)
    BY DEF Held
  <2>4. WellGranted(c) /\ c.basic \in BOOLEAN
    BY <2>3 DEF FetchInv, GrantInv
  <2>5. CASE c.basic
    <3>1. PICK t \in wire : t.credential = e /\ t.url = c.url
      BY <2>1, <2>2, <2>4, <2>5 DEF WellGranted
    <3>2. StoredFor(e, c.url) /\ e.family = "basic auth"
      BY <2>1, <2>2, <2>4, <2>5 DEF WellGranted
    <3>3. s.credential = e /\ s.url = u /\ ~s.exchange
      BY <2>1
    <3>4. t.url.host = s.url.host /\ StoredFor(t.credential, t.url) /\ t.credential = s.credential
      BY <2>3, <3>1, <3>2, <3>3
    <3>5. StoredForNeighbour(s)
      BY <3>2, <3>3, <3>4 DEF StoredForNeighbour
    <3>6. PICK a : a = Actual(u)
      OBVIOUS
    <3>7. IsWeb(a) /\ (u.scheme = "oci" /\ a.scheme = "http" => u.host = Loopback)
      BY <3>6, ActualURL
    <3>8. s.first = a /\ s.at = a /\ s.first = Actual(s.url)
      BY <2>1, <3>3, <3>6
    <3> QED BY <3>2, <3>3, <3>5, <3>7, <3>8 DEF Rightly, KeepsHeader
  <2>6. CASE ~c.basic
    <3>1. StoredFor(e, u) /\ e.family = "bearer token"
      BY <2>1, <2>2, <2>3, <2>4, <2>6 DEF WellGranted
    <3>2. e.family # "ssh key" /\ u.scheme # "http"
      BY <3>1
    <3> QED BY <2>1, <3>1, <3>2, RightlyThere
  <2> QED BY <2>4, <2>5, <2>6
<1>7. GrantInv'
  BY <1>4, GrantsStay DEF FetchInv, Send
<1> QED BY <1>4, <1>5, <1>6, <1>7, AfterSending

(* Asked again with what the registry was content with, which its cache    *)
(* now has.                                                                *)
LEMMA AfterAskAgain ==
    ASSUME FetchInv, Waiting, ~Http, NEW e, NEW basic \in BOOLEAN, AskAgain(e, basic),
           e \notin Anonymous =>
               /\ StoredFor(e, request.url)
               /\ e.family = IF basic THEN "basic auth" ELSE "bearer token"
    PROVE  FetchInv'
<1>1. Following /\ phase \in {"describing", "fetching"} /\ request # NoRequest
  BY DEF FetchInv, Requested, Waiting
<1>2. PICK u : u = request.url
  OBVIOUS
<1>3. IsURL(u) /\ u.scheme = "oci"
  BY <1>1, <1>2 DEF FetchInv, Requested, WellAsked
<1>4. PICK q, c : /\ q = [Request(u, Actual(u), e) EXCEPT !.retried = TRUE]
                  /\ c = [url |-> u, basic |-> basic, carries |-> e]
  OBVIOUS
<1>5. Send(q) /\ Grant(c) /\ UNCHANGED <<vars, net, holds, phase, named>>
  BY <1>2, <1>4 DEF AskAgain
<1>6. /\ WellAsked(q)
      /\ Sent(q) = IF e \in Anonymous THEN {}
                   ELSE {[credential |-> e, url |-> u, first |-> Actual(u), at |-> Actual(u), exchange |-> FALSE]}
  BY <1>3, <1>4, BeginsThere
<1>7. ASSUME NEW s \in Sent(q) PROVE Rightly(s)
  <2>1. e \notin Anonymous
        /\ s = [credential |-> e, url |-> u, first |-> Actual(u), at |-> Actual(u), exchange |-> FALSE]
    BY <1>6, <1>7
  <2>2. StoredFor(e, u) /\ e.family # "ssh key" /\ u.scheme # "http"
    BY <1>2, <1>3, <2>1
  <2> QED BY <1>3, <2>1, <2>2, RightlyThere
<1>8. WellGranted(c)'
  <2>1. SUFFICES ASSUME e \notin Anonymous
                 PROVE  /\ StoredFor(e, u)
                        /\ e.family = IF basic THEN "basic auth" ELSE "bearer token"
                        /\ \E t \in wire' : t.credential = e /\ t.url = u
    BY <1>4 DEF WellGranted, StoredFor
  <2>2. PICK t : t = [credential |-> e, url |-> u, first |-> Actual(u), at |-> Actual(u), exchange |-> FALSE]
    OBVIOUS
  <2>3. t \in wire' /\ t.credential = e /\ t.url = u
    BY <1>5, <1>6, <2>1, <2>2 DEF Send
  <2> QED BY <1>2, <2>1, <2>3
<1>9. GrantInv'
  <2>1. wire \subseteq wire'
    BY <1>5 DEF Send
  <2>2. granted' \subseteq granted \cup {c} /\ c.basic = basic
    BY <1>4, <1>5 DEF Grant
  <2>3. \A d \in granted' : WellGranted(d)' /\ d.basic \in BOOLEAN
    BY <1>8, <2>1, <2>2, WellGrantedStays DEF FetchInv, GrantInv
  <2>4. \A d \in granted' : d = c \/ d.url.host # c.url.host \/ (~c.basic /\ ~d.basic /\ d.url # c.url)
    BY <1>5 DEF Grant
  <2>5. \A d, f \in granted' : Apart(d, f)
    BY <2>2, <2>4 DEF FetchInv, GrantInv, Apart
  <2> QED BY <2>3, <2>5 DEF GrantInv
<1>10. phase' \in {"describing", "fetching"}
  BY <1>1, <1>5
<1> QED BY <1>1, <1>5, <1>6, <1>7, <1>9, <1>10, AfterSending

(* What a challenge is answered with is stored for the registry.           *)
LEMMA AfterChallenge ==
    ASSUME FetchInv, PresentCredential
    PROVE  FetchInv'
<1>1. Waiting /\ ~Http /\ net \in Nets
  BY DEF PresentCredential, Challenged, Challenging, Waiting, Following, FetchInv
<1>2. IsURL(request.url) /\ request.url.scheme = "oci"
  BY <1>1 DEF FetchInv, Requested, WellAsked, Waiting
<1>3. PICK e, basic : e = CredentialFor(request.url) /\ basic = (Challenge.scheme = "basic")
  OBVIOUS
<1>4. basic \in BOOLEAN /\ AskAgain(e, basic)
      /\ Family(e) = IF basic THEN "basic auth" ELSE "bearer token"
  BY <1>3 DEF PresentCredential
<1>5. e # NoCredential => StoredFor(e, request.url)
  BY <1>1, <1>2, <1>3, CredentialIsStored
<1>6. e \notin Anonymous =>
        /\ StoredFor(e, request.url)
        /\ e.family = IF basic THEN "basic auth" ELSE "bearer token"
  BY <1>4, <1>5 DEF Family, Anonymous
<1> QED BY <1>1, <1>4, <1>6, AfterAskAgain

LEMMA AfterIssue ==
    ASSUME FetchInv, TokenIssued
    PROVE  FetchInv'
<1>1. Waiting /\ request.exchange /\ AskAgain(Issued, FALSE)
  BY DEF TokenIssued, Answered
<1>2. ~Http
  BY <1>1 DEF FetchInv, Requested, WellAsked, Waiting
<1> QED BY <1>1, <1>2, AfterAskAgain DEF Anonymous

(* A login is exchanged at the service that the registry names, or a host  *)
(* it leads to.                                                            *)
LEMMA AfterExchange ==
    ASSUME FetchInv, AskTokenService
    PROVE  FetchInv'
<1>1. /\ Waiting /\ Following /\ ~Http /\ net \in Nets /\ ~request.exchange
      /\ request.at.host \in DOMAIN net.challenges /\ request # NoRequest
      /\ phase \in {"describing", "fetching"}
  BY DEF AskTokenService, Challenged, Challenging, Waiting, Following, FetchInv, Requested
<1>2. PICK u, x, realm : u = request.url /\ x = request.at.host /\ realm = net.challenges[x].realm
  OBVIOUS
<1>3. IsURL(u) /\ u.scheme = "oci" /\ x \in LedTo(u.host)
  BY <1>1, <1>2 DEF FetchInv, Requested, WellAsked
<1>4. x \in DOMAIN net.challenges /\ net.challenges[x].scheme = "bearer" /\ net.challenges[x].realm = realm
  BY <1>1, <1>2 DEF AskTokenService, Challenge
<1>5. IsWeb(realm)
  BY <1>1, <1>4, NetsAssumption DEF IsChallenge
<1>6. PICK e, q : e = CredentialFor(u) /\ q = [Request(u, realm, e) EXCEPT !.exchange = TRUE]
  OBVIOUS
<1>7. /\ Family(e) \in {"none", "basic auth"} /\ Send(q)
      /\ UNCHANGED <<vars, net, holds, phase, named>> /\ granted' = granted
  BY <1>2, <1>6 DEF AskTokenService, Challenge
<1>8. q = [url |-> u, first |-> realm, at |-> realm, via |-> 1, carries |-> e, retried |-> FALSE, exchange |-> TRUE]
  BY <1>6 DEF Request
<1>9. WellAsked(q)
  <2>1. 1 \in 1 .. MaxHops
    BY NetsAssumption
  <2> QED BY <1>1, <1>3, <1>5, <1>8, <2>1 DEF WellAsked
<1>10. ASSUME NEW s \in Sent(q) PROVE Rightly(s)
  <2>1. e \notin Anonymous
        /\ s = [credential |-> e, url |-> u, first |-> realm, at |-> realm, exchange |-> TRUE]
    BY <1>8, <1>10 DEF Sent, Anonymous
  <2>2. IsStored(e) /\ StoredFor(e, u)
    BY <1>1, <1>3, <1>6, <2>1, CredentialIsStored DEF Anonymous
  <2>3. e.family = "basic auth"
    BY <1>7, <2>1, <2>2 DEF Family, Anonymous, IsStored
  <2>4. s.credential = e /\ s.url = u /\ s.first = realm /\ s.at = realm /\ s.exchange
    BY <2>1
  <2>5. NamedTokenService(s)
    BY <1>3, <1>4, <2>3, <2>4 DEF NamedTokenService
  <2> QED BY <2>2, <2>3, <2>4, <2>5 DEF Rightly, KeepsHeader
<1>11. phase' \in {"describing", "fetching"}
  BY <1>1, <1>7
<1>12. GrantInv'
  BY <1>7, GrantsStay DEF FetchInv, Send
<1> QED BY <1>1, <1>7, <1>9, <1>10, <1>11, <1>12, AfterSending

LEMMA WithPath ==
    ASSUME NEW u, IsURL(u), NEW p, IsPath(p)
    PROVE  IsURL([u EXCEPT !.path = p])
BY DEF IsURL, IsWeb

LEMMA PathIsSeq ==
    ASSUME NEW p
    PROVE  IsPath(p) <=> IsSeq(p)
<1>1. ASSUME IsPath(p) PROVE IsSeq(p)
  BY <1>1 DEF IsPath, IsSeq
<1>2. ASSUME IsSeq(p) PROVE IsPath(p)
  <2>1. PICK S : p \in Seq(S)
    BY <1>2 DEF IsSeq
  <2>2. PICK n, T : n = Len(p) /\ T = {p[i] : i \in DOMAIN p}
    OBVIOUS
  <2>3. n \in Nat /\ DOMAIN p = 1 .. n /\ p = [i \in 1 .. n |-> p[i]]
    BY <2>1, <2>2
  <2>4. p \in [1 .. n -> T]
    BY <2>2, <2>3
  <2>5. p \in Seq(T)
    BY <2>3, <2>4
  <2> QED BY <2>2, <2>5 DEF IsPath
<1> QED BY <1>1, <1>2

LEMMA ClimbAndDescend ==
    ASSUME NEW dir, IsPath(dir), NEW up \in Nat, NEW down, IsPath(down)
    PROVE  IsPath(JoinSource(dir, up, down))
<1>1. PICK S, T : dir \in Seq(S) /\ down \in Seq(T)
  BY DEF IsPath
<1>2. PICK U : U = S \cup T
  OBVIOUS
<1>3. Len(dir) \in Nat /\ Len(down) \in Nat
      /\ (\A i \in 1 .. Len(dir) : dir[i] \in S) /\ (\A i \in 1 .. Len(down) : down[i] \in T)
  BY <1>1
<1>4. SubSeq(dir, 1, Len(dir) - up) \in Seq(U)
  <2>1. \A i \in 1 .. Len(dir) - up : dir[i] \in U
    BY <1>2, <1>3
  <2> QED BY <1>3, <2>1, SubSeqProperties
<1>5. down \in Seq(U)
  <2>1. \A i \in 1 .. Len(down) : down[i] \in U
    BY <1>2, <1>3
  <2> QED BY <1>1, <2>1
<1>6. SubSeq(dir, 1, Len(dir) - up) \o down \in Seq(U)
  BY <1>4, <1>5, ConcatProperties
<1> QED BY <1>6, PathIsSeq DEF JoinSource, IsSeq

(* What is asked for is a URL, and a registry's is one of its repositories.*)
LEMMA AskedURLs ==
    ASSUME net \in Nets
    PROVE  /\ IsURL(IndexURL) /\ IsURL(ChartURL)
           /\ IsURL(Reference) /\ Reference.scheme = "oci"
<1>1. PICK x \in Nets : x = net
  OBVIOUS
<1>2. /\ IsURL(x.repo) /\ IsURL(x.registry) /\ x.registry.scheme = "oci"
      /\ IF x.names.absolute THEN IsURL(x.names.url)
                             ELSE x.names.up \in Nat /\ IsPath(x.names.down)
  BY NetsAssumption
<1>3. PICK repo, p, registry, name :
        repo = x.repo /\ p = x.repo.path /\ registry = x.registry /\ name = Locked.name
  OBVIOUS
<1>4. IsURL(repo) /\ IsPath(p) /\ p = repo.path /\ IsURL(registry) /\ IsPath(registry.path)
  BY <1>2, <1>3 DEF IsURL
<1>5. ASSUME NEW u, IsURL(u), NEW n PROVE IsURL([u EXCEPT !.path = Append(u.path, n)])
  <2>1. IsPath(Append(u.path, n))
    BY <1>5, PathIsSeq, AppendToSeq DEF IsURL
  <2> QED BY <1>5, <2>1, WithPath
<1>6. ~x.names.absolute => IsURL([repo EXCEPT !.path = JoinSource(p, x.names.up, x.names.down)])
  <2>1. SUFFICES ASSUME ~x.names.absolute
                 PROVE  IsURL([repo EXCEPT !.path = JoinSource(p, x.names.up, x.names.down)])
    OBVIOUS
  <2>2. PICK up, down : up = x.names.up /\ down = x.names.down
    OBVIOUS
  <2>3. up \in Nat /\ IsPath(down)
    BY <1>2, <2>1, <2>2
  <2>4. IsPath(JoinSource(p, up, down))
    BY <1>4, <2>3, ClimbAndDescend
  <2> QED BY <1>4, <2>2, <2>4, WithPath
<1>7. IsURL(IndexURL)
  BY <1>1, <1>3, <1>4, <1>5 DEF IndexURL
<1>8. IsURL(ChartURL)
  BY <1>1, <1>2, <1>3, <1>6 DEF ChartURL
<1>9. IsURL(Reference) /\ Reference.scheme = "oci"
  <2>1. Reference = [registry EXCEPT !.path = Append(registry.path, name)]
    BY <1>1, <1>3 DEF Reference
  <2>2. Reference.scheme = registry.scheme
    BY <1>4, <2>1 DEF IsURL
  <2> QED BY <1>2, <1>3, <1>4, <1>5, <2>1, <2>2
<1> QED BY <1>7, <1>8, <1>9

(* A redirect keeps a credential on its host, and a request that began on  *)
(* https on https.                                                         *)
LEMMA AfterRedirect ==
    ASSUME FetchInv, Redirect
    PROVE  FetchInv'
<1>1. net \in Nets /\ Following /\ phase \in {"describing", "fetching"} /\ request # NoRequest
  BY DEF FetchInv, Requested, Redirect, Waiting, Following
<1>2. PICK x, to, e :
        /\ x = request.at.host /\ x \in DOMAIN net.redirects /\ to = net.redirects[x]
        /\ e = IF KeepsHeader(request.first, to) THEN request.carries ELSE NoCredential
  BY DEF Redirect
<1>3. CASE RefuseFetch
  BY <1>3, AfterRefusal
<1>4. CASE ~RefuseFetch
  <2>1. PICK r, q : r = request /\ q = [request EXCEPT !.at = to, !.via = @ + 1, !.carries = e]
    OBVIOUS
  <2>2. /\ ~(r.via >= MaxHops) /\ ~Downgrades(r.first, to) /\ Send(q)
        /\ UNCHANGED <<vars, net, holds, phase, named>> /\ granted' = granted
    BY <1>2, <1>4, <2>1 DEF Redirect
  <2>3. WellAsked(r) /\ Sent(r) \subseteq wire
    BY <1>1, <2>1 DEF FetchInv, Requested
  <2>4. /\ DOMAIN q = {"url", "first", "at", "via", "carries", "retried", "exchange"}
        /\ q.url = r.url /\ q.first = r.first /\ q.at = to /\ q.via = r.via + 1
        /\ q.carries = e /\ q.exchange = r.exchange
    BY <2>1, <2>3 DEF WellAsked
  <2>5. IsWeb(to)
    BY <1>1, <1>2, NetsAssumption
  <2>6. q.via \in 1 .. MaxHops
    BY <2>2, <2>3, <2>4, NetsAssumption DEF WellAsked
  <2>7. ~r.exchange => to.host \in LedTo(r.url.host)
    BY <1>2, <2>1, <2>3, LeadsTo DEF WellAsked
  <2>8. WellAsked(q)
    BY <2>3, <2>4, <2>6, <2>7 DEF WellAsked
  <2>9. ASSUME NEW s \in Sent(q) PROVE Rightly(s)
    <3>1. /\ e \notin Anonymous
          /\ s = [credential |-> e, url |-> r.url, first |-> r.first, at |-> to, exchange |-> r.exchange]
      BY <2>4, <2>9 DEF Sent, Anonymous
    <3>2. r.carries = e /\ KeepsHeader(r.first, to)
      BY <1>2, <2>1, <3>1 DEF Anonymous
    <3>3. PICK t : t = [credential |-> e, url |-> r.url, first |-> r.first, at |-> r.at, exchange |-> r.exchange]
      OBVIOUS
    <3>4. t \in wire
      BY <2>3, <3>1, <3>2, <3>3 DEF Sent, Anonymous
    <3>5. Rightly(t)
      BY <3>4, SentIsThere DEF FetchInv
    <3>6. /\ s.credential = t.credential /\ s.url = t.url /\ s.first = t.first /\ s.exchange = t.exchange
          /\ s.first = r.first /\ s.at = to
      BY <3>1, <3>3
    <3>7. StoredForNeighbour(t) => StoredForNeighbour(s)
      BY <3>6 DEF StoredForNeighbour
    <3>8. NamedTokenService(t) => NamedTokenService(s)
      BY <3>6 DEF NamedTokenService
    <3>9. s.at.scheme = "http" => s.first.scheme = "http"
      BY <2>2, <2>3, <3>6 DEF Downgrades, WellAsked, IsWeb
    <3> QED BY <3>2, <3>5, <3>6, <3>7, <3>8, <3>9 DEF Rightly
  <2>10. GrantInv'
    BY <2>2, GrantsStay DEF FetchInv, Send
  <2>11. phase' \in {"describing", "fetching"}
    BY <1>1, <2>2
  <2> QED BY <1>1, <2>2, <2>8, <2>9, <2>10, <2>11, AfterSending
<1> QED BY <1>3, <1>4

LEMMA AfterDescribed ==
    ASSUME FetchInv, Described
    PROVE  FetchInv'
<1>1. Following /\ UNCHANGED vars /\ disk' = disk /\ net' = net /\ wire' = wire /\ granted' = granted
      /\ holds' = holds /\ phase' = "described" /\ request' = NoRequest /\ named' \in {NoDigest, holds}
  BY DEF Described, Answered, Waiting, vars
<1>2. Following'
  BY <1>1, StillFollowing
<1>3. Requested'
  BY <1>1, <1>2 DEF FetchInv, Requested, FetchPhase
<1>4. StoredForThere' /\ GrantInv'
  BY <1>1, NothingSent
<1> QED BY <1>1, <1>3, <1>4 DEF FetchInv

(* A step that sends nothing and leaves the request as it is.              *)
LEMMA RequestStays ==
    ASSUME FetchInv, UNCHANGED vars, net' = net, wire' = wire, granted' = granted,
           phase' = phase, request' = request, named' = named, holds' \in Bytes \cup {NoDigest}
    PROVE  FetchInv'
<1>1. (Following' <=> Following) /\ disk' = disk
  BY StillFollowing DEF vars
<1>2. request # NoRequest => WellAsked(request)'
  <2>1. PICK q : q = request
    OBVIOUS
  <2>2. request # NoRequest => WellAsked(q)'
    BY <2>1, WellAskedStays DEF FetchInv, Requested
  <2>3. request' = q
    BY <2>1
  <2> QED BY <2>2, <2>3
<1>3. Sent(request)' = Sent(request)
  BY DEF Sent
<1>4. Requested'
  BY <1>1, <1>2, <1>3 DEF FetchInv, Requested
<1>5. StoredForThere' /\ GrantInv'
  BY NothingSent
<1> QED BY <1>1, <1>4, <1>5 DEF FetchInv

LEMMA AfterRepublish ==
    ASSUME FetchInv, Republish
    PROVE  FetchInv'
BY RequestStays DEF Republish

LEMMA AfterArrival ==
    ASSUME FetchInv, Arrives
    PROVE  FetchInv'
<1>1. CASE RefuseFetch
  BY <1>1, AfterRefusal
<1>2. CASE ~RefuseFetch
  <2>1. /\ Brought /\ phase' = "idle" /\ request' = NoRequest
        /\ net' = net /\ holds' = holds /\ named' = named /\ granted' = granted /\ wire' = wire
    BY <1>2 DEF Arrives
  <2>2. disk' = disk
    BY <2>1 DEF Brought
  <2>3. Requested'
    BY <2>1 DEF FetchInv, Requested, FetchPhase
  <2>4. StoredForThere' /\ GrantInv'
    BY <2>1, NothingSent
  <2> QED BY <2>1, <2>2, <2>3, <2>4 DEF FetchInv
<1> QED BY <1>1, <1>2

(* A step of closeHelm that is no request of a download.                   *)
LEMMA AfterElsewhere ==
    ASSUME WellFormed, FetchInv, Offline \/ (disk \notin Online /\ Download), UNCHANGED fetchVars
    PROVE  FetchInv'
<1>1. ~Following
  BY OnlyTheDownload DEF Following
<1>2. disk' = disk
  BY DEF Offline, Download, Brought, Refuse, StageRoot, RefuseChart, EnterChart, ReturnFromChart,
         KeepArchive, KeepUnpacked, RefuseDependency, FromDirectory, Packed
<1>3. phase' = phase /\ request' = request /\ net' = net /\ holds' = holds /\ named' = named
      /\ granted' = granted /\ wire' = wire
  BY DEF fetchVars
<1>4. Requested'
  BY <1>1, <1>3 DEF FetchInv, Requested, FetchPhase
<1>5. StoredForThere' /\ GrantInv'
  BY <1>3, NothingSent
<1> QED BY <1>2, <1>3, <1>4, <1>5 DEF FetchInv

LEMMA StepFetchInv ==
    ASSUME WellFormed, FetchInv, [ChartNext]_<<vars, fetchVars>>
    PROVE  FetchInv'
<1>1. CASE (Offline \/ (disk \notin Online /\ Download)) /\ UNCHANGED fetchVars
  BY <1>1, AfterElsewhere
<1>2. ASSUME NEW next \in {"describing", "fetching"}, Following, ~Http, AskRegistry(next)
      PROVE  FetchInv'
  <2>1. PICK u : u = Reference
    OBVIOUS
  <2>2. IsURL(u) /\ u.scheme = "oci"
    BY <1>2, <2>1, AskedURLs DEF FetchInv, Following
  <2> QED BY <1>2, <2>1, <2>2, AfterAskRegistry
<1>3. ASSUME NEW next \in {"describing", "fetching"}, Following, Http,
             NEW u \in {IndexURL, ChartURL}, AskRepository(u, Lookup(u), next)
      PROVE  FetchInv'
  <2>1. IsURL(u)
    BY <1>3, AskedURLs DEF FetchInv, Following
  <2> QED BY <1>3, <2>1, AfterAskRepository
<1>4. CASE Describe
  <2>1. PICK u : u = IndexURL
    OBVIOUS
  <2>2. Following /\ IF Http THEN AskRepository(u, Lookup(u), "describing") ELSE AskRegistry("describing")
    BY <1>4, <2>1 DEF Describe
  <2> QED BY <1>2, <1>3, <2>1, <2>2
<1>5. CASE AskArchive
  <2>1. PICK u : u = ChartURL
    OBVIOUS
  <2>2. Following /\ IF Http THEN AskRepository(u, Lookup(u), "fetching") ELSE AskRegistry("fetching")
    BY <1>5, <2>1 DEF AskArchive
  <2> QED BY <1>2, <1>3, <2>1, <2>2
<1>6. CASE RequestFails \/ RefuseChallenge
  BY <1>6, AfterRefusal DEF RequestFails, RefuseChallenge
<1>7. CASE UNCHANGED <<vars, fetchVars>>
  <2>1. holds' \in Bytes \cup {NoDigest}
    BY <1>7 DEF fetchVars, FetchInv, Requested
  <2> QED BY <1>7, <2>1, RequestStays DEF fetchVars
<1>8. CASE PresentCredential \/ AskTokenService \/ TokenIssued
  BY <1>8, AfterChallenge, AfterExchange, AfterIssue
<1> QED BY <1>1, <1>4, <1>5, <1>6, <1>7, <1>8, AfterRedirect, AfterDescribed, AfterRepublish, AfterArrival DEF ChartNext

-----------------------------------------------------------------------------
(* What is in the bundle is the author's or arrived as it was named.       *)

FromDisk(w, t) == \E d \in DOMAIN w : t \in w[d].tgz
CameAsNamed(arr, p, t) ==
    \E i \in DOMAIN arr : arr[i].chart = p /\ arr[i].archive = t /\ arr[i].named \in {NoDigest, arr[i].holds}
AsNamed(w, st, arr) ==
    \A p \in DOMAIN st : \A t \in st[p].tgz : FromDisk(w, t) \/ CameAsNamed(arr, p, t)
ArrivalInv == IsSeq(arrived) /\ (disk \in Online => AsNamed(disk, stage, arrived))

LEMMA InitArrivalInv ==
    ASSUME ChartInit
    PROVE  ArrivalInv
<1>1. arrived = <<>> /\ DOMAIN stage = {}
  BY DEF ChartInit, Init
<1>2. <<>> \in Seq({})
  OBVIOUS
<1> QED BY <1>1, <1>2 DEF ArrivalInv, IsSeq, AsNamed

(* A copy brings in only what lies on the disk.                            *)
LEMMA CopyAsNamed ==
    ASSUME NEW w, NEW st, NEW arr, AsNamed(w, st, arr), NEW src, NEW dst, NEW st2, Copied(w, st, src, dst, st2)
    PROVE  AsNamed(w, st2, arr)
<1> SUFFICES ASSUME NEW p \in DOMAIN st2, NEW t \in st2[p].tgz
             PROVE  FromDisk(w, t) \/ CameAsNamed(arr, p, t)
  BY DEF AsNamed
<1>1. CASE Lands(w, src, dst, p)
  <2>1. PICK x \in Path : src \o x \in DOMAIN w /\ p = dst \o x
    BY <1>1 DEF Lands
  <2>2. PICK d \in DOMAIN w : d = src \o x
    BY <2>1
  <2>3. st2[p].tgz = w[d].tgz \cup (IF p \in DOMAIN st THEN st[p].tgz ELSE {})
    BY <2>1, <2>2 DEF Copied
  <2> QED BY <2>3 DEF FromDisk, AsNamed
<1>2. CASE ~Lands(w, src, dst, p)
  <2>1. p \in DOMAIN st /\ st2[p] = st[p]
    BY <1>2 DEF Copied
  <2> QED BY <2>1 DEF AsNamed
<1> QED BY <1>1, <1>2

(* One archive arrives, and its arrival is noted.                          *)
LEMMA ArrivalAsNamed ==
    ASSUME NEW w, NEW st, NEW arr, IsSeq(arr), AsNamed(w, st, arr), NEW at, NEW a, NEW st2, Added(st, at, a, st2),
           NEW e, e.chart = at, e.archive = a, e.named \in {NoDigest, e.holds}
    PROVE  AsNamed(w, st2, Append(arr, e))
<1>1. PICK arr2, n : arr2 = Append(arr, e) /\ n = Len(arr)
  OBVIOUS
<1>2. /\ n \in Nat /\ DOMAIN arr = 1 .. n /\ DOMAIN arr2 = 1 .. n + 1
      /\ (\A i \in 1 .. n : arr2[i] = arr[i]) /\ arr2[n + 1] = e
  BY <1>1, AppendToSeq
<1>3. \A p, t : CameAsNamed(arr, p, t) => CameAsNamed(arr2, p, t)
  BY <1>2 DEF CameAsNamed
<1>4. CameAsNamed(arr2, at, a)
  <2>1. n + 1 \in DOMAIN arr2 /\ arr2[n + 1] = e
    BY <1>2
  <2> QED BY <2>1 DEF CameAsNamed
<1>5. ASSUME NEW p \in DOMAIN st2, NEW t \in st2[p].tgz
      PROVE  FromDisk(w, t) \/ CameAsNamed(arr2, p, t)
  <2>1. p \in DOMAIN st /\ (t \in st[p].tgz \/ (p = at /\ t = a))
    BY DEF Added
  <2> QED BY <1>3, <1>4, <2>1 DEF AsNamed
<1> QED BY <1>1, <1>5 DEF AsNamed

LEMMA ArrivalStays ==
    ASSUME ArrivalInv, disk' = disk, stage' = stage, arrived' = arrived
    PROVE  ArrivalInv'
BY DEF ArrivalInv

(* Only an arrival and a copy bring in archives.                           *)
LEMMA StepArrivalInv ==
    ASSUME WellFormed, ArrivalInv, [ChartNext]_<<vars, fetchVars>>
    PROVE  ArrivalInv'
<1>1. Sound(disk, stage, stack) /\ World(disk) /\ Staged(disk, stage) /\ Nest(disk, stage, stack)
  BY DEF WellFormed, Sound
<1>2. CASE StageRoot /\ UNCHANGED fetchVars
  <2>1. stage = [p \in {} |-> {}] /\ disk' = disk /\ arrived' = arrived
    BY <1>2 DEF StageRoot, WellFormed, fetchVars
  <2>2. PICK st2 : st2 = stage'
    OBVIOUS
  <2>3. Copied(disk, stage, RootChart, <<>>, st2)
    BY <1>1, <1>2, <2>1, <2>2, StagesRoot
  <2>4. AsNamed(disk, stage, arrived) => AsNamed(disk, st2, arrived)
    BY <2>3, CopyAsNamed
  <2> QED BY <2>1, <2>2, <2>4 DEF ArrivalInv
<1>3. CASE FromDirectory /\ UNCHANGED fetchVars
  <2>1. disk' = disk /\ arrived' = arrived
    BY <1>3 DEF FromDirectory, fetchVars
  <2>2. PICK f, st2 : st2 = stage' /\ Copied(disk, stage, f.src, f.at, st2)
    BY <1>1, <1>3, CopiesDirectory
  <2>3. AsNamed(disk, stage, arrived) => AsNamed(disk, st2, arrived)
    BY <2>2, CopyAsNamed
  <2> QED BY <2>1, <2>2, <2>3 DEF ArrivalInv
<1>4. CASE disk \notin Online /\ Download /\ UNCHANGED fetchVars
  <2>1. disk' = disk /\ arrived' = arrived
    BY <1>4 DEF Download, Brought, Refuse, fetchVars
  <2> QED BY <1>4, <2>1 DEF ArrivalInv
<1>5. CASE Arrives /\ ~RefuseFetch
  <2>1. PICK got, e :
          /\ Brought /\ Verified(got)
          /\ e = [chart |-> Top.at, archive |-> Archive(Locked), holds |-> got, named |-> named]
          /\ arrived' = Append(arrived, e)
    BY <1>5 DEF Arrives
  <2>2. PICK at, a, st2 : at = Top.at /\ a = Archive(Locked) /\ st2 = stage'
    OBVIOUS
  <2>3. Added(stage, at, a, st2)
    BY <1>1, <1>5, <2>1, <2>2, Brings DEF Arrives, Answered, Waiting, Following
  <2>4. e.chart = at /\ e.archive = a /\ e.named \in {NoDigest, e.holds}
    BY <2>1, <2>2 DEF Verified
  <2>5. AsNamed(disk, stage, arrived) => AsNamed(disk, st2, Append(arrived, e))
    BY <2>3, <2>4, ArrivalAsNamed DEF ArrivalInv
  <2>6. IsSeq(arrived')
    BY <2>1, AppendToSeq DEF ArrivalInv
  <2>7. disk' = disk
    BY <2>1 DEF Brought
  <2> QED BY <2>1, <2>2, <2>5, <2>6, <2>7 DEF ArrivalInv
<1>6. CASE UNCHANGED <<disk, stage, arrived>>
  BY <1>6, ArrivalStays
<1>7. ASSUME Offline, UNCHANGED fetchVars PROVE UNCHANGED <<disk, stage, arrived>> \/ StageRoot \/ FromDirectory
  BY <1>7 DEF Offline, Refuse, RefuseChart, EnterChart, ReturnFromChart,
         KeepArchive, KeepUnpacked, RefuseDependency, Packed, fetchVars
<1>8. ASSUME Describe \/ Described \/ AskArchive \/ Redirect \/ RequestFails \/ RefuseChallenge \/ Republish
             \/ (Arrives /\ RefuseFetch) \/ UNCHANGED <<vars, fetchVars>>
      PROVE  UNCHANGED <<disk, stage, arrived>>
  BY <1>8 DEF Describe, Described, AskArchive, AskRepository, AskRegistry, Redirect, RequestFails,
              RefuseChallenge, Republish, RefuseFetch, Refuse, vars, fetchVars
<1>9. ASSUME PresentCredential \/ AskTokenService \/ TokenIssued
      PROVE  UNCHANGED <<disk, stage, arrived>>
  BY <1>9 DEF PresentCredential, AskTokenService, TokenIssued, AskAgain, vars
<1> QED BY <1>2, <1>3, <1>4, <1>5, <1>6, <1>7, <1>8, <1>9 DEF ChartNext

-----------------------------------------------------------------------------
(* The theorems, of every download that is followed.                       *)

ChartInv == IInv /\ FetchInv /\ ArrivalInv

LEMMA ChartInductive == ChartSpec => []ChartInv
<1>1. ChartInit => ChartInv
  BY InitChart, InitIInv, InitFetchInv, InitArrivalInv DEF ChartInv
<1>2. ChartInv /\ [ChartNext]_<<vars, fetchVars>> => ChartInv'
  BY StepChart, StepIInv, StepFetchInv, StepArrivalInv DEF ChartInv, IInv
<1> QED BY <1>1, <1>2, PTL DEF ChartSpec

(* Through requests, challenges, redirects, refusals and what a repository *)
(* publishes in between, the state stays well formed; a redirect is        *)
(* followed no further than CheckRedirect allows, and a registry's cache   *)
(* has one answer for a repository.                                        *)
THEOREM DownloadsAreWellFormed == ChartSpec => []ChartFetchTypeOK
<1>1. ASSUME FetchInv PROVE request # NoRequest => request.via \in 1 .. MaxHops
  BY <1>1 DEF FetchInv, Requested, WellAsked
<1>2. ASSUME FetchInv
      PROVE  \A c, d \in granted : c.url.host = d.url.host => c = d \/ ~(c.basic \/ d.basic \/ c.url = d.url)
  BY <1>2 DEF FetchInv, GrantInv, Apart
<1>3. ChartInv => ChartFetchTypeOK
  BY <1>1, <1>2, IsHelmTypeOK DEF ChartInv, FetchInv, Requested, FetchPhase, ChartFetchTypeOK
<1> QED BY <1>3, ChartInductive, PTL

(* Whatever an index names, wherever redirects lead and whatever a         *)
(* registry challenges with, what the machine has stored goes only to a    *)
(* URL it is stored for, or as a login to the token service named there:   *)
(* entries of .git-credentials matched as text and a registry's login in   *)
(* the cache are the only others.                                          *)
THEOREM CredentialsGoWhereStored == ChartSpec => []StoredForThere
<1>1. ChartInv => StoredForThere
  BY DEF ChartInv, FetchInv
<1> QED BY <1>1, ChartInductive, PTL

(* Every archive in the bundle is the author's, or has the digest that the *)
(* index or the manifest named, though the repository published again in   *)
(* between.                                                                *)
THEOREM ArchivesArriveAsNamed == ChartSpec => []ArrivesAsNamed
<1>1. ChartInv => ArrivesAsNamed
  BY DEF ChartInv, ArrivalInv, AsNamed, FromDisk, CameAsNamed, ArrivesAsNamed
<1> QED BY <1>1, ChartInductive, PTL
=============================================================================
