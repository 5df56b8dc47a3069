---------------------------- MODULE Paths_proofs ----------------------------
(***************************************************************************)
(* What the path operators compute, for every path over every set of       *)
(* names.                                                                  *)
(***************************************************************************)
EXTENDS Paths, SequenceTheorems, WellFoundedInduction, TLAPS

(* A nonempty set of naturals has a least member: what stands for          *)
(* induction in these proofs is that no n can be the first to fail.        *)
LEMMA LeastMember ==
    ASSUME NEW S \in SUBSET Nat, S # {}
    PROVE  \E n \in S : \A m \in S : n <= m
<1>1. PICK x \in S : \A y \in S : ~(<<y, x>> \in OpToRel(<, Nat))
  BY NatLessThanWellFounded, WFMin
<1>2. ASSUME NEW y \in S PROVE ~(y < x)
  <2>1. x \in Nat /\ y \in Nat
    OBVIOUS
  <2> QED BY <1>1, <2>1 DEF OpToRel
<1>3. ASSUME NEW y \in S PROVE x <= y
  BY <1>2
<1> QED BY <1>3

(* A nonempty set of naturals no greater than a bound has a greatest       *)
(* member.                                                                 *)
LEMMA GreatestMember ==
    ASSUME NEW bound \in Nat, NEW S \in SUBSET (0 .. bound), S # {}
    PROVE  \E n \in S : \A m \in S : m <= n
<1> DEFINE T == {bound - n : n \in S}
<1>1. T \subseteq Nat /\ T # {}
  <2>1. ASSUME NEW n \in S PROVE bound - n \in Nat
    BY DEF T
  <2>2. PICK n \in S : TRUE
    OBVIOUS
  <2> QED BY <2>1, <2>2
<1>2. PICK x \in T : \A y \in T : x <= y
  BY <1>1, LeastMember
<1>3. \A y \in T : ~(y < x)
  <2>1. x \in Nat /\ \A y \in T : y \in Nat
    BY <1>1
  <2> QED BY <1>2, <2>1
<1>4. PICK n \in S : x = bound - n
  OBVIOUS
<1>5. ASSUME NEW m \in S PROVE m <= n
  <2>1. ~(bound - m < x)
    BY <1>3
  <2> QED BY <2>1, <1>4
<1> QED BY <1>5

(* CommonLen really is the length of a common beginning.                   *)
LEMMA CommonLenIsCommon ==
    ASSUME NEW N, NEW s \in Seq(N), NEW t \in Seq(N)
    PROVE  /\ CommonLen(s, t) \in 0 .. Len(s)
           /\ CommonLen(s, t) <= Len(t)
           /\ SubSeq(s, 1, CommonLen(s, t)) = SubSeq(t, 1, CommonLen(s, t))
<1> DEFINE Common == {n \in 0 .. Len(s) : n <= Len(t) /\ SubSeq(s, 1, n) = SubSeq(t, 1, n)}
<1>1. Len(s) \in Nat /\ Len(t) \in Nat
  OBVIOUS
<1>2. 0 \in Common
  <2>1. SubSeq(s, 1, 0) = << >> /\ SubSeq(t, 1, 0) = << >>
    BY SubSeqEmpty
  <2> QED BY <1>1, <2>1
<1>3. PICK n \in Common : \A m \in Common : m <= n
  BY <1>1, <1>2, GreatestMember
<1>4. \A m \in (n + 1) .. Len(s) : m <= Len(t) => SubSeq(s, 1, m) # SubSeq(t, 1, m)
  BY <1>1, <1>3
<1>5. \E k \in 0 .. Len(s) :
        /\ k <= Len(t)
        /\ SubSeq(s, 1, k) = SubSeq(t, 1, k)
        /\ \A m \in (k + 1) .. Len(s) :
              m <= Len(t) => SubSeq(s, 1, m) # SubSeq(t, 1, m)
  BY <1>3, <1>4
<1> QED BY <1>5 DEF CommonLen

(* The source the packer writes leads where it meant: joined to the        *)
(* caller's directory it is the target's, and it never climbs out.         *)
THEOREM RelativeSourceLeadsThere ==
    ASSUME NEW N, NEW from \in Seq(N), NEW to \in Seq(N)
    PROVE  LET s == RelativeSource(from, to) IN
           /\ ~Climbs(from, s.up)
           /\ JoinSource(from, s.up, s.down) = to
<1> DEFINE n == CommonLen(from, to)
<1>1. /\ n \in 0 .. Len(from) /\ n <= Len(to)
      /\ SubSeq(from, 1, n) = SubSeq(to, 1, n)
  BY CommonLenIsCommon
<1> HIDE DEF n
<1>2. Len(from) \in Nat /\ Len(to) \in Nat /\ n \in Nat
  BY <1>1
<1>3. SubSeq(to, 1, n) \o SubSeq(to, n + 1, Len(to)) = to
  <2>1. SubSeq(to, 1, n) \o SubSeq(to, n + 1, Len(to)) = SubSeq(to, 1, Len(to))
    <3>1. 1 \in 1 .. Len(to) + 1 /\ n \in 1 - 1 .. Len(to) /\ Len(to) \in n .. Len(to)
      BY <1>1, <1>2
    <3> QED BY <3>1, ConcatAdjacentSubSeq, Zenon
  <2> QED BY <2>1, SubSeqFull
<1>4. Len(from) - (Len(from) - n) = n
  BY <1>2
<1>5. RelativeSource(from, to) = [up |-> Len(from) - n, down |-> SubSeq(to, n + 1, Len(to))]
  BY DEF RelativeSource, n
<1>6. ~(Len(from) - n > Len(from))
  BY <1>2
<1> DEFINE s == RelativeSource(from, to)
<1>7. s.up = Len(from) - n /\ s.down = SubSeq(to, n + 1, Len(to))
  <2>1. ASSUME NEW r, NEW u, NEW d, r = [up |-> u, down |-> d]
        PROVE  r.up = u /\ r.down = d
    BY <2>1
  <2>2. s = [up |-> Len(from) - n, down |-> SubSeq(to, n + 1, Len(to))]
    BY <1>5
  <2> QED BY <2>1, <2>2
<1>8. ~Climbs(from, s.up)
  BY <1>6, <1>7 DEF Climbs
<1>9. JoinSource(from, s.up, s.down) = to
  BY <1>1, <1>3, <1>4, <1>7 DEF JoinSource
<1> QED BY <1>8, <1>9

(* What a path adds to a directory it extends is its path from there.      *)
LEMMA RelOfConcat ==
    ASSUME NEW N, NEW a \in Seq(N), NEW x \in Seq(N)
    PROVE  Inside(a, a \o x) /\ Rel(a, a \o x) = x
<1>1. /\ a \o x \in Seq(N) /\ Len(a \o x) = Len(a) + Len(x)
      /\ \A i \in 1 .. Len(a) + Len(x) :
           (a \o x)[i] = IF i <= Len(a) THEN a[i] ELSE x[i - Len(a)]
  BY ConcatProperties
<1>2. Len(a) \in Nat /\ Len(x) \in Nat
  OBVIOUS
<1>3. SubSeq(a \o x, 1, Len(a)) = a
  <2>1. \A i \in 1 .. Len(a) : (a \o x)[i] \in N
    BY <1>1, <1>2
  <2>2. /\ SubSeq(a \o x, 1, Len(a)) \in Seq(N)
        /\ Len(SubSeq(a \o x, 1, Len(a))) = Len(a)
        /\ \A i \in 1 .. Len(a) : SubSeq(a \o x, 1, Len(a))[i] = (a \o x)[i]
    BY <2>1, <1>2, SubSeqProperties
  <2>3. \A i \in 1 .. Len(a) : SubSeq(a \o x, 1, Len(a))[i] = a[i]
    BY <1>1, <1>2, <2>2
  <2> QED BY <2>2, <2>3, SeqEqual
<1>4. SubSeq(a \o x, Len(a) + 1, Len(a \o x)) = x
  <2> DEFINE y == SubSeq(a \o x, Len(a) + 1, Len(a) + Len(x))
  <2>1. \A i \in Len(a) + 1 .. Len(a) + Len(x) : (a \o x)[i] \in N
    BY <1>1, <1>2
  <2>2. /\ y \in Seq(N)
        /\ Len(y) = IF Len(a) + 1 <= Len(a) + Len(x) THEN Len(a) + Len(x) - (Len(a) + 1) + 1 ELSE 0
        /\ \A i \in 1 .. Len(a) + Len(x) - (Len(a) + 1) + 1 : y[i] = (a \o x)[Len(a) + 1 + i - 1]
    <3>1. Len(a) + 1 \in Int /\ Len(a) + Len(x) \in Int
      BY <1>2
    <3> QED BY <2>1, <3>1, SubSeqProperties
  <2> HIDE DEF y
  <2>3. Len(y) = Len(x)
    BY <1>2, <2>2
  <2>4. ASSUME NEW i \in 1 .. Len(x) PROVE y[i] = x[i]
    <3>1. y[i] = (a \o x)[Len(a) + i]
      BY <1>2, <2>2
    <3>2. Len(a) + i \in 1 .. Len(a) + Len(x) /\ ~(Len(a) + i <= Len(a)) /\ Len(a) + i - Len(a) = i
      BY <1>2
    <3>3. (a \o x)[Len(a) + i] = x[Len(a) + i - Len(a)]
      BY <1>1, <3>2
    <3> QED BY <3>1, <3>2, <3>3
  <2>5. y = x
    BY <2>2, <2>3, <2>4, SeqEqual
  <2> QED BY <1>1, <2>5 DEF y
<1> QED BY <1>1, <1>2, <1>3, <1>4 DEF Inside, IsPathPrefix, Rel

(* A path inside a directory is the directory, then the path from there.   *)
LEMMA InsideSplits ==
    ASSUME NEW N, NEW a \in Seq(N), NEW d \in Seq(N), Inside(a, d)
    PROVE  Rel(a, d) \in Seq(N) /\ d = a \o Rel(a, d)
<1>1. Len(a) \in Nat /\ Len(d) \in Nat /\ Len(a) <= Len(d) /\ SubSeq(d, 1, Len(a)) = a
  BY DEF Inside, IsPathPrefix
<1>2. SubSeq(d, 1, Len(a)) \o SubSeq(d, Len(a) + 1, Len(d)) = SubSeq(d, 1, Len(d))
  <2>1. 1 \in 1 .. Len(d) + 1 /\ Len(a) \in 1 - 1 .. Len(d) /\ Len(d) \in Len(a) .. Len(d)
    BY <1>1
  <2> QED BY <2>1, ConcatAdjacentSubSeq, Zenon
<1>3. SubSeq(d, Len(a) + 1, Len(d)) \in Seq(N)
  <2>1. Len(a) + 1 \in Int /\ Len(d) \in Int /\ \A i \in Len(a) + 1 .. Len(d) : d[i] \in N
    BY <1>1
  <2> QED BY <2>1, SubSeqProperties
<1> QED BY <1>1, <1>2, <1>3, SubSeqFull DEF Rel

(* Inside is transitive, and paths from one directory to the next add up.  *)
LEMMA InsideTransitive ==
    ASSUME NEW N, NEW a \in Seq(N), NEW b \in Seq(N), NEW c \in Seq(N),
           Inside(a, b), Inside(b, c)
    PROVE  Inside(a, c) /\ Rel(a, c) = Rel(a, b) \o Rel(b, c)
<1> DEFINE x == Rel(a, b)
           y == Rel(b, c)
<1>1. x \in Seq(N) /\ b = a \o x /\ y \in Seq(N) /\ c = b \o y
  BY InsideSplits
<1> HIDE DEF x, y
<1>2. c = a \o (x \o y) /\ x \o y \in Seq(N)
  BY <1>1, ConcatAssociative, ConcatProperties
<1>3. Inside(a, a \o (x \o y)) /\ Rel(a, a \o (x \o y)) = x \o y
  BY <1>2, RelOfConcat
<1> QED BY <1>2, <1>3 DEF x, y

(* Two directories around one path: one is inside the other.               *)
LEMMA InsideIsAChain ==
    ASSUME NEW N, NEW a \in Seq(N), NEW b \in Seq(N), NEW c \in Seq(N),
           Inside(a, c), Inside(b, c)
    PROVE  Inside(a, b) \/ Inside(b, a)
<1>1. ASSUME NEW s \in Seq(N), NEW t \in Seq(N), Inside(s, c), Inside(t, c), Len(s) <= Len(t)
      PROVE  Inside(s, t)
  <2>1. Len(s) \in Nat /\ Len(t) \in Nat /\ Len(t) <= Len(c) /\ Len(c) \in Nat
    BY <1>1 DEF Inside, IsPathPrefix
  <2>2. ASSUME NEW i \in 1 .. Len(s) PROVE s[i] = c[i] /\ t[i] = c[i] /\ t[i] \in N
    <3>1. ASSUME NEW u \in Seq(N), Inside(u, c), i <= Len(u) PROVE u[i] = c[i]
      <4>1. Len(u) \in Nat /\ SubSeq(c, 1, Len(u)) = u /\ Len(u) <= Len(c)
        BY <3>1 DEF Inside, IsPathPrefix
      <4>2. \A j \in 1 .. Len(u) : c[j] \in N
        BY <2>1, <4>1
      <4>3. \A j \in 1 .. Len(u) - 1 + 1 : SubSeq(c, 1, Len(u))[j] = c[1 + j - 1]
        BY <4>1, <4>2, SubSeqProperties
      <4> QED BY <3>1, <4>1, <4>3
    <3> QED BY <1>1, <2>1, <3>1
  <2>3. /\ SubSeq(t, 1, Len(s)) \in Seq(N)
        /\ Len(SubSeq(t, 1, Len(s))) = Len(s)
        /\ \A i \in 1 .. Len(s) : SubSeq(t, 1, Len(s))[i] = t[i]
    <3>1. \A i \in 1 .. Len(s) : t[i] \in N
      BY <2>2
    <3> QED BY <2>1, <3>1, SubSeqProperties
  <2>4. \A i \in 1 .. Len(s) : SubSeq(t, 1, Len(s))[i] = s[i]
    BY <2>2, <2>3
  <2>5. SubSeq(t, 1, Len(s)) = s
    BY <2>3, <2>4, SeqEqual
  <2> QED BY <1>1, <2>5 DEF Inside, IsPathPrefix
<1>2. Len(a) <= Len(b) \/ Len(b) <= Len(a)
  <2>1. Len(a) \in Nat /\ Len(b) \in Nat
    OBVIOUS
  <2> QED BY <2>1
<1> QED BY <1>1, <1>2
=============================================================================
