------------------------- MODULE TreeContents_proofs -------------------------
(***************************************************************************)
(* What the trees hold: operations take effect at one step, and size()     *)
(* counts.                                                                 *)
(*                                                                         *)
(* What is below a node is found by going down, so the values of every     *)
(* node above a leaf change with it, in the tree of the thread that writes *)
(* to the leaf, which is what MemInv says of owners, and in no other.      *)
(* There, what the tree holds is read off the path: what is left of it,    *)
(* what is to take the place of the child, and what is right of it.  A     *)
(* continuation moves values from the sides into the middle.               *)
(***************************************************************************)
EXTENDS CowShape_proofs, TreeContents

-----------------------------------------------------------------------------
(* Sequences of sequences, one after the other *)

\* F[k] is the first k of them, up to m.
Strings(ss, F, m) == F[0] = <<>> /\ \A k \in 1 .. m : F[k] = F[k - 1] \o ss[k]

Folds(S, ss, F) == F \in [0 .. Len(ss) -> Seq(S)] /\ Strings(ss, F, Len(ss))

\* There is such a function.
LEMMA FoldExists ==
    ASSUME NEW S, NEW ss \in Seq(Seq(S))
    PROVE  \E F : Folds(S, ss, F)
<1> DEFINE N == Len(ss)
           T == {k \in 0 .. N : \E F \in [0 .. N -> Seq(S)] : Strings(ss, F, k)}
<1>0. N \in Nat /\ \A k \in 1 .. N : ss[k] \in Seq(S)
  BY LenProperties, ElementOfSeq
<1> HIDE DEF N
<1>1. 0 \in T
  <2>1. PICK F : F = [k \in 0 .. N |-> <<>>]
    OBVIOUS
  <2>2. F \in [0 .. N -> Seq(S)] /\ F[0] = <<>>
    BY <1>0, <2>1
  <2>3. 0 \in 0 .. N /\ 1 .. 0 = {}
    BY <1>0
  <2>4. Strings(ss, F, 0)
    BY <2>2, <2>3 DEF Strings
  <2> QED  BY <2>2, <2>3, <2>4
<1>2. ASSUME NEW k \in 0 .. N - 1, k \in T PROVE k + 1 \in T
  <2>1. PICK F \in [0 .. N -> Seq(S)] : Strings(ss, F, k)
    BY <1>2
  <2>2. PICK G : G = [F EXCEPT ![k + 1] = F[k] \o ss[k + 1]]
    OBVIOUS
  <2>3. F \in [0 .. N -> Seq(S)] /\ F[0] = <<>> /\ \A j \in 1 .. k : F[j] = F[j - 1] \o ss[j]
    BY <2>1 DEF Strings
  <2>4. k + 1 \in 1 .. N /\ k \in 0 .. N /\ k + 1 \in 0 .. N
    BY <1>0
  <2>5. F[k] \o ss[k + 1] \in Seq(S)
    BY <1>0, <2>3, <2>4, ConcatProperties
  <2>6. G \in [0 .. N -> Seq(S)] /\ G[k + 1] = F[k] \o ss[k + 1]
        /\ \A j \in 0 .. N : j # k + 1 => G[j] = F[j]
    BY <2>2, <2>3, <2>4, <2>5
  <2>7. G[0] = <<>>
    BY <1>0, <2>3, <2>6
  <2>8. \A j \in 1 .. k + 1 : G[j] = G[j - 1] \o ss[j]
    <3> SUFFICES ASSUME NEW j \in 1 .. k + 1 PROVE G[j] = G[j - 1] \o ss[j]
      OBVIOUS
    <3>1. j - 1 \in 0 .. N /\ j - 1 # k + 1 /\ (j = k + 1 \/ (j \in 1 .. k /\ j \in 0 .. N /\ j # k + 1))
      BY <1>0
    <3>2. CASE j = k + 1
      <4>1. j - 1 = k
        BY <3>2
      <4> QED  BY <2>6, <3>1, <3>2, <4>1
    <3>3. CASE j # k + 1
      BY <2>3, <2>6, <3>1, <3>3
    <3> QED  BY <3>2, <3>3
  <2> QED  BY <2>4, <2>6, <2>7, <2>8 DEF Strings
<1>3. N \in T
  <2> HIDE DEF T
  <2>1. \A k \in 0 .. N : k \in T
    BY <1>0, <1>1, <1>2, UpTo
  <2> QED  BY <1>0, <2>1
<1> QED
  BY <1>3 DEF Folds, N

\* There is only one.
LEMMA FoldUnique ==
    ASSUME NEW ss, NEW F, NEW G, NEW m \in Nat, Strings(ss, F, m), Strings(ss, G, m)
    PROVE  F[m] = G[m]
<1> DEFINE T == {k \in 0 .. m : F[k] = G[k]}
<1>1. 0 \in T
  BY DEF Strings
<1>2. ASSUME NEW k \in 0 .. m - 1, k \in T PROVE k + 1 \in T
  <2>1. k + 1 \in 1 .. m /\ (k + 1) - 1 = k /\ k + 1 \in 0 .. m
    OBVIOUS
  <2>2. F[k + 1] = F[k] \o ss[k + 1] /\ G[k + 1] = G[k] \o ss[k + 1]
    BY <2>1 DEF Strings
  <2> QED  BY <1>2, <2>1, <2>2
<1> HIDE DEF T
<1>3. \A k \in 0 .. m : k \in T
  BY <1>1, <1>2, UpTo
<1> QED
  BY <1>3 DEF T

\* It is what FlattenSeq goes by.
LEMMA FlatIsFold ==
    ASSUME NEW S, NEW ss \in Seq(Seq(S)), NEW F, Folds(S, ss, F)
    PROVE  FlattenSeq(ss) = F[Len(ss)]
<1> DEFINE N == Len(ss)
           Good(f) == f = [i \in 1 .. N |-> IF i = 1 THEN ss[i] ELSE f[i - 1] \o ss[i]]
<1>0. N \in Nat /\ (N = 0 => ss = <<>>) /\ \A k \in 1 .. N : ss[k] \in Seq(S)
  BY LenProperties, ElementOfSeq, EmptySeq
<1>1. CASE N = 0
  BY <1>0, <1>1 DEF FlattenSeq, Folds, Strings
<1>2. CASE N # 0
  <2>1. FlattenSeq(ss) = (CHOOSE f : Good(f))[N]
    BY <1>2 DEF FlattenSeq
  <2>2. PICK g : g = [i \in 1 .. N |-> F[i]]
    OBVIOUS
  <2>3. \A i \in 1 .. N : g[i] = IF i = 1 THEN ss[i] ELSE g[i - 1] \o ss[i]
    <3> SUFFICES ASSUME NEW i \in 1 .. N PROVE g[i] = IF i = 1 THEN ss[i] ELSE g[i - 1] \o ss[i]
      OBVIOUS
    <3>1. F[i] = F[i - 1] \o ss[i]
      BY DEF Folds, Strings
    <3>2. CASE i = 1
      <4>1. i - 1 = 0 /\ F[0] = <<>> /\ ss[i] \in Seq(S)
        BY <1>0, <3>2 DEF Folds, Strings
      <4>2. <<>> \o ss[i] = ss[i]
        BY <4>1, ConcatEmptySeq
      <4> QED  BY <2>2, <3>1, <3>2, <4>1, <4>2
    <3>3. CASE i # 1
      <4>1. i - 1 \in 1 .. N
        BY <1>0, <3>3
      <4> QED  BY <2>2, <3>1, <3>3, <4>1
    <3> QED  BY <3>2, <3>3
  <2>4. Good(g)
    BY <2>2, <2>3
  <2>5. PICK h : h = (CHOOSE f : Good(f)) /\ Good(h)
    BY <2>4
  <2>6. \A i \in 1 .. N : h[i] = IF i = 1 THEN ss[i] ELSE h[i - 1] \o ss[i]
    BY <2>5
  <2> HIDE DEF Good
  <2>7. PICK f : f = [i \in 0 .. N |-> IF i = 0 THEN <<>> ELSE h[i]]
    OBVIOUS
  <2>8. f[0] = <<>> /\ \A i \in 1 .. N : f[i] = h[i]
    BY <1>0, <2>7
  <2>9. \A i \in 1 .. N : f[i] = f[i - 1] \o ss[i]
    <3> SUFFICES ASSUME NEW i \in 1 .. N PROVE f[i] = f[i - 1] \o ss[i]
      OBVIOUS
    <3>1. CASE i = 1
      <4>1. <<>> \o ss[i] = ss[i] /\ i - 1 = 0
        BY <1>0, <3>1, ConcatEmptySeq
      <4> QED  BY <2>6, <2>8, <3>1, <4>1
    <3>2. CASE i # 1
      <4>1. i - 1 \in 1 .. N
        BY <1>0, <3>2
      <4> QED  BY <2>6, <2>8, <3>2, <4>1
    <3> QED  BY <3>1, <3>2
  <2>10. Strings(ss, F, N) /\ Strings(ss, f, N)
    BY <2>8, <2>9 DEF Folds, Strings
  <2> HIDE DEF N
  <2>11. F[N] = f[N]
    BY <1>0, <2>10, FoldUnique
  <2>12. N \in 1 .. N
    BY <1>0, <1>2
  <2> QED  BY <2>1, <2>5, <2>8, <2>11, <2>12 DEF N
<1> QED
  BY <1>1, <1>2

\* A sequence of sequences has such a function, and what it comes to is a sequence.
LEMMA FlatFold ==
    ASSUME NEW S, NEW ss \in Seq(Seq(S))
    PROVE  /\ \E F : Folds(S, ss, F) /\ FlattenSeq(ss) = F[Len(ss)]
           /\ FlattenSeq(ss) \in Seq(S)
<1>1. PICK F : Folds(S, ss, F)
  BY FoldExists
<1>2. FlattenSeq(ss) = F[Len(ss)]
  BY <1>1, FlatIsFold
<1>3. Len(ss) \in 0 .. Len(ss)
  BY LenProperties
<1> QED
  BY <1>1, <1>2, <1>3 DEF Folds

\* None, and one.
LEMMA FlatNone == FlattenSeq(<<>>) = <<>>
  BY EmptySeq DEF FlattenSeq

LEMMA FlatOne ==
    ASSUME NEW S, NEW s \in Seq(S)
    PROVE  FlattenSeq(<<s>>) = s
<1>1. <<s>> \in Seq(Seq(S)) /\ Len(<<s>>) = 1 /\ <<s>>[1] = s
  OBVIOUS
<1>2. PICK F : Folds(S, <<s>>, F) /\ FlattenSeq(<<s>>) = F[1]
  BY <1>1, FlatFold
<1>3. F[0] = <<>> /\ F[1] = F[0] \o s
  <2>1. 1 \in 1 .. Len(<<s>>) /\ 1 - 1 = 0
    BY <1>1
  <2> QED  BY <1>1, <1>2, <2>1 DEF Folds, Strings
<1> QED
  BY <1>2, <1>3, ConcatEmptySeq

\* One after the other.
LEMMA FlatConcat ==
    ASSUME NEW S, NEW a \in Seq(Seq(S)), NEW b \in Seq(Seq(S))
    PROVE  FlattenSeq(a \o b) = FlattenSeq(a) \o FlattenSeq(b)
<1>0. Len(a) \in Nat /\ Len(b) \in Nat
  BY LenProperties
<1>1. PICK F : Folds(S, a, F) /\ FlattenSeq(a) = F[Len(a)]
  BY FlatFold
<1>2. PICK G : Folds(S, b, G) /\ FlattenSeq(b) = G[Len(b)]
  BY FlatFold
<1>3. /\ a \o b \in Seq(Seq(S)) /\ Len(a \o b) = Len(a) + Len(b)
      /\ \A i \in 1 .. Len(a) + Len(b) :
           (a \o b)[i] = IF i <= Len(a) THEN a[i] ELSE b[i - Len(a)]
  BY ConcatProperties
<1>m. PICK m, n, ab : m = Len(a) /\ n = Len(b) /\ ab = a \o b
  OBVIOUS
<1>4. /\ \A k \in 0 .. m : F[k] \in Seq(S)
      /\ F[0] = <<>> /\ \A k \in 1 .. m : F[k] = F[k - 1] \o a[k]
      /\ \A k \in 0 .. n : G[k] \in Seq(S)
      /\ G[0] = <<>> /\ \A k \in 1 .. n : G[k] = G[k - 1] \o b[k]
  BY <1>m, <1>1, <1>2 DEF Folds, Strings
<1>5. \A k \in 1 .. n : b[k] \in Seq(S)
  BY <1>m, ElementOfSeq
<1>6. PICK H : H = [k \in 0 .. m + n |-> IF k <= m THEN F[k] ELSE F[m] \o G[k - m]]
  OBVIOUS
<1>7. m \in Nat /\ n \in Nat /\ Len(ab) = m + n
  BY <1>m, <1>0, <1>3
<1>8. \A k \in 0 .. m : H[k] = F[k]
  BY <1>6, <1>7
<1>9. \A k \in 0 .. n : H[m + k] = F[m] \o G[k]
  <2> SUFFICES ASSUME NEW k \in 0 .. n PROVE H[m + k] = F[m] \o G[k]
    OBVIOUS
  <2>1. CASE k = 0
    <3>1. m \in 0 .. m /\ 0 \in 0 .. n /\ m + 0 = m
      BY <1>7
    <3>2. F[m] \in Seq(S) /\ G[0] \in Seq(S) /\ G[0] = <<>>
      BY <1>4, <3>1
    <3>3. F[m] \o G[0] = F[m]
      BY <3>2, ConcatEqualIffEmpty
    <3>4. H[m + 0] = F[m]
      BY <1>8, <3>1
    <3> QED  BY <2>1, <3>3, <3>4
  <2>2. CASE k # 0
    <3>1. m + k \in 0 .. m + n /\ ~(m + k <= m) /\ (m + k) - m = k
      BY <1>7, <2>2
    <3> QED  BY <1>6, <3>1
  <2> QED  BY <2>1, <2>2
<1>10. H \in [0 .. Len(ab) -> Seq(S)]
  <2>1. ASSUME NEW k \in 0 .. m + n PROVE H[k] \in Seq(S)
    <3>1. CASE k <= m
      <4>1. k \in 0 .. m
        BY <1>7, <3>1
      <4>2. H[k] = F[k]
        BY <1>8, <4>1
      <4>3. F[k] \in Seq(S)
        BY <1>4, <4>1
      <4> QED  BY <4>2, <4>3, Zenon
    <3>2. CASE ~(k <= m)
      <4>1. k - m \in 0 .. n /\ m + (k - m) = k
        BY <1>7, <3>2
      <4>2. H[k] = F[m] \o G[k - m]
        BY <1>9, <4>1
      <4>3. F[m] \in Seq(S) /\ G[k - m] \in Seq(S)
        BY <1>4, <1>7, <4>1
      <4>4. PICK p \in Seq(S), q \in Seq(S) : p = F[m] /\ q = G[k - m]
        BY <4>3
      <4>5. p \o q \in Seq(S)
        BY ConcatProperties
      <4> QED  BY <4>2, <4>4, <4>5, Zenon
    <3> QED  BY <3>1, <3>2
  <2> QED  BY <1>6, <1>7, <2>1
<1>11. ASSUME NEW k \in 1 .. m + n PROVE H[k] = H[k - 1] \o ab[k]
  <2>1. CASE k <= m
    <3>1. ab[k] = a[k] /\ k \in 1 .. m /\ k - 1 \in 0 .. m /\ k \in 0 .. m
      BY <1>m, <1>3, <1>7, <2>1
    <3> QED  BY <1>4, <1>8, <3>1
  <2>2. CASE ~(k <= m)
    <3>1. PICK j : j = k - m
      OBVIOUS
    <3>2. j \in 1 .. n /\ j \in 0 .. n /\ j - 1 \in 0 .. n /\ m + j = k /\ m + (j - 1) = k - 1
      BY <1>7, <2>2, <3>1
    <3>3. ab[k] = b[j]
      BY <1>m, <1>3, <1>7, <2>2, <3>1
    <3>4. H[k] = F[m] \o (G[j - 1] \o b[j]) /\ H[k - 1] = F[m] \o G[j - 1]
      BY <1>4, <1>9, <3>2
    <3>5. F[m] \in Seq(S) /\ G[j - 1] \in Seq(S) /\ b[j] \in Seq(S)
      BY <1>4, <1>5, <1>7, <3>2
    <3>6. (F[m] \o G[j - 1]) \o b[j] = F[m] \o (G[j - 1] \o b[j])
      <4>1. PICK p, q, r : p = F[m] /\ q = G[j - 1] /\ r = b[j]
        OBVIOUS
      <4>2. p \in Seq(S) /\ q \in Seq(S) /\ r \in Seq(S)
        BY <3>5, <4>1
      <4>3. (p \o q) \o r = p \o (q \o r)
        BY <4>2, ConcatAssociative
      <4> QED  BY <4>1, <4>3, Zenon
    <3>7. H[k - 1] \o ab[k] = (F[m] \o G[j - 1]) \o b[j]
      BY <3>3, <3>4, Zenon
    <3> QED  BY <3>4, <3>6, <3>7, Zenon
  <2> QED  BY <2>1, <2>2
<1>12. Folds(S, ab, H)
  <2>1. H[0] = <<>>
    BY <1>4, <1>7, <1>8
  <2> QED  BY <1>7, <1>10, <1>11, <2>1 DEF Folds, Strings
<1>13. FlattenSeq(ab) = H[m + n]
  <2>1. ab \in Seq(Seq(S))
    BY <1>m, <1>3
  <2>2. FlattenSeq(ab) = H[Len(ab)]
    BY <1>12, <2>1, FlatIsFold
  <2> QED  BY <1>7, <2>2
<1>14. H[m + n] = F[m] \o G[n]
  <2>1. n \in 0 .. n
    BY <1>7
  <2> QED  BY <1>9, <2>1, Zenon
<1>15. FlattenSeq(ab) = FlattenSeq(a) \o FlattenSeq(b)
  BY <1>m, <1>1, <1>2, <1>13, <1>14, Zenon
<1> QED
  BY <1>m, <1>15, Zenon

-----------------------------------------------------------------------------
(* Joining sequences *)

\* The rules of concatenation, for all sequences at once.
LEMMA Joins ==
    \A S : \A p, q \in Seq(S) : p \o q \in Seq(S) /\ Len(p \o q) = Len(p) + Len(q)
  BY ConcatProperties

LEMMA NoneJoins ==
    \A S : \A p \in Seq(S) : p \o <<>> = p /\ <<>> \o p = p
  BY ConcatEmptySeq

\* What a tree, or a part of one, may hold.
Strands == Seq(Values)

LEMMA StrandsJoin == <<>> \in Strands /\ \A p, q \in Strands : p \o q \in Strands
  BY EmptySeq, ConcatProperties DEF Strands

LEMMA StrandsNone == \A p \in Strands : p \o <<>> = p /\ <<>> \o p = p
  BY ConcatEmptySeq DEF Strands

Regrouped(p, q, r) == (p \o q) \o r = p \o (q \o r)

LEMMA Regroup == \A p, q, r \in Strands : Regrouped(p, q, r)
  BY ConcatAssociative DEF Strands, Regrouped

\* Around something, around something.
AllStrands(a, b, x, c, d) == {a, b, x, c, d} \subseteq Strands
Nested(a, b, x, c, d) ==
    (a \o ((b \o x) \o c)) \o d = ((a \o b) \o x) \o (c \o d)

LEMMA Nest ==
    ASSUME NEW a, NEW b, NEW x, NEW c, NEW d, AllStrands(a, b, x, c, d)
    PROVE  Nested(a, b, x, c, d)
<1>0. a \in Strands /\ b \in Strands /\ x \in Strands /\ c \in Strands /\ d \in Strands
  BY DEF AllStrands
<1>1. Regrouped(a, b, x)
  BY <1>0, Regroup
<1>2. a \o b \in Strands /\ b \o x \in Strands
  BY <1>0, StrandsJoin
<1>3. PICK ab, bx : ab = a \o b /\ bx = b \o x
  BY Zenon
<1>4. ab \in Strands /\ bx \in Strands
  BY <1>2, <1>3, Zenon
<1>5. Regrouped(a, bx, c)
  BY <1>0, <1>4, Regroup
<1>6. ab \o x \in Strands
  BY <1>0, <1>4, StrandsJoin
<1>7. PICK abx : abx = ab \o x
  BY Zenon
<1>8. abx \in Strands
  BY <1>6, <1>7, Zenon
<1>9. Regrouped(abx, c, d)
  BY <1>0, <1>8, Regroup
<1> QED
  BY <1>1, <1>3, <1>5, <1>7, <1>9, Zenon DEF Regrouped, Nested

\* Every node is given a sequence of values.
Holding(c) == \A n \in NodeId : c[n] \in Seq(Values)

\* What nodes hold that are in sequence s, given what each of them does.
Parts(c, s) == [k \in 1 .. Len(s) |-> c[s[k]]]

PartsOf(T, D, c, s) == s \in Seq(D) /\ \A x \in D : c[x] \in T
PartsIn(T, c, s)    == Parts(c, s) \in Seq(T) /\ Len(Parts(c, s)) = Len(s)

LEMMA PartsTyped ==
    ASSUME NEW T, NEW D, NEW c, NEW s, PartsOf(T, D, c, s)
    PROVE  PartsIn(T, c, s)
<1>0. s \in Seq(D) /\ \A x \in D : c[x] \in T
  BY DEF PartsOf
<1>1. Len(s) \in Nat /\ \A k \in 1 .. Len(s) : s[k] \in D
  BY <1>0, LenProperties, ElementOfSeq
<1>2. \A k \in 1 .. Len(s) : c[s[k]] \in T
  BY <1>0, <1>1
<1> QED
  BY <1>1, <1>2 DEF Parts, PartsIn

LEMMA GatheredTyped ==
    ASSUME NEW S, NEW D, NEW c, NEW s \in Seq(D), \A x \in D : c[x] \in Seq(S)
    PROVE  Gathered(c, s) \in Seq(S)
<1>1. PICK p : p = Parts(c, s)
  OBVIOUS
<1>2. p \in Seq(Seq(S))
  <2>1. PICK T : T = Seq(S)
    OBVIOUS
  <2>2. PartsOf(T, D, c, s)
    BY <2>1 DEF PartsOf
  <2>3. PartsIn(T, c, s)
    BY <2>2, PartsTyped, Zenon
  <2> QED  BY <1>1, <2>1, <2>3, Zenon DEF PartsIn
<1>3. FlattenSeq(p) \in Seq(S)
  BY <1>2, FlatFold
<1> QED
  BY <1>1, <1>3 DEF Gathered, Parts

LEMMA GatheredNone ==
    ASSUME NEW c
    PROVE  Gathered(c, <<>>) = <<>>
<1>1. Parts(c, <<>>) = <<>>
  BY DEF Parts
<1> QED
  BY <1>1, FlatNone DEF Gathered, Parts

LEMMA GatheredOne ==
    ASSUME NEW S, NEW c, NEW x, c[x] \in Seq(S)
    PROVE  Gathered(c, <<x>>) = c[x]
<1>1. Parts(c, <<x>>) = <<c[x]>>
  BY DEF Parts
<1> QED
  BY <1>1, FlatOne DEF Gathered, Parts

Joining(c, a, b, ab) == Holding(c) /\ a \in Seq(NodeId) /\ b \in Seq(NodeId) /\ ab = a \o b
Joint(c, a, b, ab)   == Gathered(c, ab) = Gathered(c, a) \o Gathered(c, b)

LEMMA GatheredJoin ==
    ASSUME NEW c, NEW a, NEW b, NEW ab, Joining(c, a, b, ab)
    PROVE  Joint(c, a, b, ab)
<1> PICK S, D : S = Values /\ D = NodeId
  OBVIOUS
<1>0. Holding(c) /\ ab = a \o b /\ a \in Seq(D) /\ b \in Seq(D)
  BY DEF Joining
<1>1. /\ ab \in Seq(D) /\ Len(ab) = Len(a) + Len(b)
      /\ \A i \in 1 .. Len(a) + Len(b) : ab[i] = IF i <= Len(a) THEN a[i] ELSE b[i - Len(a)]
  BY <1>0, ConcatProperties
<1>2. PICK p, q, pq : p = Parts(c, a) /\ q = Parts(c, b) /\ pq = Parts(c, ab)
  OBVIOUS
<1>3. /\ p \in Seq(Seq(S)) /\ Len(p) = Len(a)
      /\ q \in Seq(Seq(S)) /\ Len(q) = Len(b)
      /\ pq \in Seq(Seq(S)) /\ Len(pq) = Len(a) + Len(b)
  <2>0. \A x \in D : c[x] \in Seq(S)
    BY <1>0 DEF Holding
  <2>1. PICK T : T = Seq(S)
    OBVIOUS
  <2>2. PartsOf(T, D, c, a) /\ PartsOf(T, D, c, b) /\ PartsOf(T, D, c, ab)
    BY <1>0, <1>1, <2>0, <2>1, Zenon DEF PartsOf
  <2>3. PartsIn(T, c, a) /\ PartsIn(T, c, b) /\ PartsIn(T, c, ab)
    BY <2>2, PartsTyped, Zenon
  <2> QED  BY <1>1, <1>2, <2>1, <2>3, Zenon DEF PartsIn
<1>4. Len(a) \in Nat /\ Len(b) \in Nat
  BY <1>0, LenProperties
<1>5. /\ p \o q \in Seq(Seq(S)) /\ Len(p \o q) = Len(a) + Len(b)
      /\ \A i \in 1 .. Len(a) + Len(b) : (p \o q)[i] = IF i <= Len(a) THEN p[i] ELSE q[i - Len(a)]
  <2>1. p \in Seq(Seq(S)) /\ q \in Seq(Seq(S))
    BY <1>3
  <2>2. /\ p \o q \in Seq(Seq(S)) /\ Len(p \o q) = Len(p) + Len(q)
        /\ \A i \in 1 .. Len(p) + Len(q) : (p \o q)[i] = IF i <= Len(p) THEN p[i] ELSE q[i - Len(p)]
    BY <2>1, ConcatProperties
  <2>3. Len(p) = Len(a) /\ Len(q) = Len(b)
    BY <1>3
  <2> QED  BY <2>2, <2>3, Zenon
<1>6. PICK r : r = p \o q
  OBVIOUS
<1>r. /\ r \in Seq(Seq(S)) /\ Len(r) = Len(a) + Len(b)
      /\ \A i \in 1 .. Len(a) + Len(b) : r[i] = IF i <= Len(a) THEN p[i] ELSE q[i - Len(a)]
  BY <1>5, <1>6, Zenon
<1>7. \A i \in 1 .. Len(a) + Len(b) : pq[i] = r[i]
  <2> SUFFICES ASSUME NEW i \in 1 .. Len(a) + Len(b) PROVE pq[i] = r[i]
    OBVIOUS
  <2>1. pq[i] = c[ab[i]] /\ r[i] = IF i <= Len(a) THEN p[i] ELSE q[i - Len(a)]
    BY <1>1, <1>2, <1>r DEF Parts
  <2>2. CASE i <= Len(a)
    <3>1. i \in 1 .. Len(a)
      BY <1>4, <2>2
    <3> QED  BY <1>1, <1>2, <2>1, <2>2, <3>1 DEF Parts
  <2>3. CASE ~(i <= Len(a))
    <3>1. i - Len(a) \in 1 .. Len(b)
      BY <1>4, <2>3
    <3> QED  BY <1>1, <1>2, <2>1, <2>3, <3>1 DEF Parts
  <2> QED  BY <2>2, <2>3
<1>8. pq = r
  BY <1>3, <1>r, <1>7, SeqEqual
<1>9. FlattenSeq(p \o q) = FlattenSeq(p) \o FlattenSeq(q)
  BY <1>3, FlatConcat
<1>10. /\ Gathered(c, a) = FlattenSeq(p) /\ Gathered(c, b) = FlattenSeq(q)
       /\ Gathered(c, ab) = FlattenSeq(r)
  BY <1>2, <1>8 DEF Gathered, Parts
<1> QED
  BY <1>6, <1>9, <1>10, Zenon DEF Joint

\* It is the same if they hold the same.
LEMMA GatheredSame ==
    ASSUME NEW c, NEW d, NEW s, \A k \in 1 .. Len(s) : c[s[k]] = d[s[k]]
    PROVE  Gathered(c, s) = Gathered(d, s)
<1>1. Parts(c, s) = Parts(d, s)
  BY DEF Parts
<1> QED
  BY <1>1 DEF Gathered, Parts

-----------------------------------------------------------------------------
(* What is below a node *)

\* The nodes of one level hold what those of the level below do.
ValuesOver(its, below, d) ==
    [n \in NodeId |-> IF d = 1 THEN its[n] ELSE Gathered(below[d - 1], its[n])]

\* The function that ContentsIn goes down by.
BelowOf(its) == CHOOSE below : below = [d \in Level |-> ValuesOver(its, below, d)]

\* There is one.
LEMMA BelowExists ==
    ASSUME NEW its
    PROVE  BelowOf(its) = [d \in Level |-> ValuesOver(its, BelowOf(its), d)]
<1> DEFINE Good(f, k) == /\ f = [d \in Level |-> f[d]]
                         /\ \A d \in 1 .. k : f[d] = ValuesOver(its, f, d)
           T == {k \in 0 .. MaxDepth : \E f : Good(f, k)}
<1>0. MaxDepth \in Nat
  BY TreeAssumption
<1>1. 0 \in T
  <2>1. PICK f : f = [d \in Level |-> 0]
    OBVIOUS
  <2>2. f = [d \in Level |-> f[d]]
    BY <2>1
  <2>3. 1 .. 0 = {} /\ 0 \in 0 .. MaxDepth
    BY <1>0
  <2> QED  BY <2>2, <2>3
<1>2. ASSUME NEW k \in 0 .. MaxDepth - 1, k \in T PROVE k + 1 \in T
  <2>1. PICK f : Good(f, k)
    BY <1>2
  <2>2. PICK g : g = [f EXCEPT ![k + 1] = ValuesOver(its, f, k + 1)]
    OBVIOUS
  <2>3. k + 1 \in Level /\ k + 1 \in 0 .. MaxDepth /\ k \in Nat
    BY <1>0 DEF Level
  <2>4. g = [d \in Level |-> g[d]] /\ g[k + 1] = ValuesOver(its, f, k + 1)
        /\ \A d \in Level : d # k + 1 => g[d] = f[d]
    BY <2>1, <2>2, <2>3
  <2>5. ASSUME NEW d \in 1 .. k + 1 PROVE ValuesOver(its, g, d) = ValuesOver(its, f, d)
    <3>1. d # 1 => d - 1 \in Level /\ d - 1 # k + 1
      BY <1>0, <2>3 DEF Level
    <3> QED  BY <2>4, <3>1 DEF ValuesOver
  <2>6. \A d \in 1 .. k + 1 : g[d] = ValuesOver(its, g, d)
    <3>1. \A d \in 1 .. k + 1 : d = k + 1 \/ (d \in 1 .. k /\ d \in Level /\ d # k + 1)
      BY <1>0, <2>3 DEF Level
    <3> QED  BY <2>1, <2>4, <2>5, <3>1
  <2> QED  BY <2>3, <2>4, <2>6
<1>3. MaxDepth \in T
  <2> HIDE DEF T
  <2>1. \A k \in 0 .. MaxDepth : k \in T
    BY <1>0, <1>1, <1>2, UpTo
  <2> QED  BY <1>0, <2>1
<1>4. PICK f : Good(f, MaxDepth)
  BY <1>3
<1>5. f = [d \in Level |-> ValuesOver(its, f, d)]
  BY <1>4 DEF Level
<1> QED
  BY <1>5 DEF BelowOf

\* A leaf holds its values, and an inner node what its children hold, one after
\* the other.
LEMMA ContentsDown ==
    ASSUME NEW its, NEW deps, NEW n \in NodeId, deps[n] \in Level
    PROVE  /\ deps[n] = 1 => ContentsIn(its, deps)[n] = its[n]
           /\ /\ deps[n] # 1
              /\ \A k \in 1 .. Len(its[n]) :
                   /\ its[n][k] \in NodeId /\ deps[its[n][k]] \in Level
                   /\ deps[n] = deps[its[n][k]] + 1
              => ContentsIn(its, deps)[n] = Gathered(ContentsIn(its, deps), its[n])
<1>1. ContentsIn(its, deps) = [m \in NodeId |-> BelowOf(its)[deps[m]][m]]
  BY DEF ContentsIn, BelowOf, ValuesOver
<1>2. \A d \in Level, m \in NodeId :
        BelowOf(its)[d][m] = IF d = 1 THEN its[m] ELSE Gathered(BelowOf(its)[d - 1], its[m])
  BY BelowExists DEF ValuesOver
<1>3. MaxDepth \in Nat
  BY TreeAssumption
<1>4. ASSUME deps[n] # 1,
             \A k \in 1 .. Len(its[n]) :
                /\ its[n][k] \in NodeId /\ deps[its[n][k]] \in Level
                /\ deps[n] = deps[its[n][k]] + 1
      PROVE  ContentsIn(its, deps)[n] = Gathered(ContentsIn(its, deps), its[n])
  <2>1. PICK c, d : c = BelowOf(its)[deps[n] - 1] /\ d = ContentsIn(its, deps)
    OBVIOUS
  <2>2. \A k \in 1 .. Len(its[n]) : c[its[n][k]] = d[its[n][k]]
    <3> SUFFICES ASSUME NEW k \in 1 .. Len(its[n]) PROVE c[its[n][k]] = d[its[n][k]]
      OBVIOUS
    <3>1. PICK m \in NodeId : m = its[n][k] /\ deps[m] = deps[n] - 1
      BY <1>3, <1>4 DEF Level
    <3> QED  BY <1>1, <2>1, <3>1
  <2>3. Gathered(c, its[n]) = Gathered(d, its[n])
    BY <2>2, GatheredSame
  <2>4. d[n] = Gathered(c, its[n])
    BY <1>1, <1>2, <1>4, <2>1
  <2> QED  BY <2>1, <2>3, <2>4
<1>5. deps[n] = 1 => ContentsIn(its, deps)[n] = its[n]
  BY <1>1, <1>2
<1> QED
  BY <1>4, <1>5, Zenon

\* Nodes S, with what they point to, form trees.
Treelike(its, deps, S) ==
    \A n \in S :
        /\ n \in NodeId /\ deps[n] \in Level
        /\ deps[n] = 1 => its[n] \in Seq(Values)
        /\ deps[n] # 1 => its[n] \in Seq(S) /\ \A k \in 1 .. Len(its[n]) :
                                                  deps[n] = deps[its[n][k]] + 1

\* What they hold is a sequence of values,
LEMMA ContentsTyped ==
    ASSUME NEW its, NEW deps, NEW S, Treelike(its, deps, S)
    PROVE  \A n \in S : ContentsIn(its, deps)[n] \in Seq(Values)
<1> DEFINE Ok(n) == ContentsIn(its, deps)[n] \in Seq(Values)
           T == {k \in 0 .. MaxDepth : \A n \in S : deps[n] <= k => Ok(n)}
<1>0. MaxDepth \in Nat /\ \A n \in S : n \in NodeId /\ deps[n] \in Level /\ deps[n] \in 1 .. MaxDepth
  BY TreeAssumption DEF Treelike, Level
<1>1. 0 \in T
  BY <1>0
<1>2. ASSUME NEW k \in 0 .. MaxDepth - 1, k \in T PROVE k + 1 \in T
  <2> SUFFICES ASSUME NEW n \in S, deps[n] <= k + 1 PROVE Ok(n)
    BY <1>0
  <2>1. CASE deps[n] = 1
    <3>1. ContentsIn(its, deps)[n] = its[n]
      BY <1>0, <2>1, ContentsDown
    <3> QED  BY <2>1, <3>1 DEF Treelike
  <2>2. CASE deps[n] # 1
    <3>1. its[n] \in Seq(S) /\ \A j \in 1 .. Len(its[n]) : its[n][j] \in S /\ deps[n] = deps[its[n][j]] + 1
      BY <2>2, ElementOfSeq DEF Treelike
    <3>2. PICK D : D = {m \in S : deps[m] <= k}
      OBVIOUS
    <3>3. \A j \in 1 .. Len(its[n]) : its[n][j] \in D
      BY <1>0, <3>1, <3>2
    <3>4. its[n] \in Seq(D)
      <4>1. Len(its[n]) \in Nat /\ its[n] = [j \in 1 .. Len(its[n]) |-> its[n][j]]
        BY <3>1, LenProperties
      <4> QED  BY <3>3, <4>1
    <3>5. PICK c : c = ContentsIn(its, deps)
      OBVIOUS
    <3>6. \A x \in D : c[x] \in Seq(Values)
      BY <1>2, <3>2, <3>5
    <3>7. Gathered(c, its[n]) \in Seq(Values)
      BY <3>4, <3>6, GatheredTyped
    <3>8. c[n] = Gathered(c, its[n])
      BY <1>0, <2>2, <3>1, <3>5, ContentsDown
    <3> QED  BY <3>5, <3>7, <3>8
  <2> QED  BY <2>1, <2>2
<1> HIDE DEF T
<1>3. \A k \in 0 .. MaxDepth : k \in T
  BY <1>0, <1>1, <1>2, UpTo
<1>4. MaxDepth \in T
  BY <1>0, <1>3
<1> QED
  BY <1>0, <1>4 DEF T

\* and is what it was if these nodes are as they were.
LEMMA ContentsSame ==
    ASSUME NEW its, NEW deps, NEW its2, NEW deps2, NEW S, Treelike(its, deps, S),
           \A n \in S : its2[n] = its[n] /\ deps2[n] = deps[n]
    PROVE  \A n \in S : ContentsIn(its2, deps2)[n] = ContentsIn(its, deps)[n]
<1> DEFINE Same(n) == ContentsIn(its2, deps2)[n] = ContentsIn(its, deps)[n]
           T == {k \in 0 .. MaxDepth : \A n \in S : deps[n] <= k => Same(n)}
<1>0. MaxDepth \in Nat /\ \A n \in S : n \in NodeId /\ deps[n] \in Level /\ deps[n] \in 1 .. MaxDepth
  BY TreeAssumption DEF Treelike, Level
<1>1. 0 \in T
  BY <1>0
<1>2. ASSUME NEW k \in 0 .. MaxDepth - 1, k \in T PROVE k + 1 \in T
  <2> SUFFICES ASSUME NEW n \in S, deps[n] <= k + 1 PROVE Same(n)
    BY <1>0
  <2>1. CASE deps[n] = 1
    BY <1>0, <2>1, ContentsDown
  <2>2. CASE deps[n] # 1
    <3>1. \A j \in 1 .. Len(its[n]) : its[n][j] \in S /\ deps[n] = deps[its[n][j]] + 1
      BY <2>2, ElementOfSeq DEF Treelike
    <3>2. PICK c, d : c = ContentsIn(its2, deps2) /\ d = ContentsIn(its, deps)
      OBVIOUS
    <3>3. \A j \in 1 .. Len(its[n]) : c[its[n][j]] = d[its[n][j]]
      <4> SUFFICES ASSUME NEW j \in 1 .. Len(its[n]) PROVE c[its[n][j]] = d[its[n][j]]
        OBVIOUS
      <4>1. PICK m \in S : m = its[n][j] /\ deps[m] <= k
        BY <1>0, <3>1
      <4> QED  BY <1>2, <3>2, <4>1
    <3>4. Gathered(c, its[n]) = Gathered(d, its[n])
      BY <3>3, GatheredSame
    <3>5. d[n] = Gathered(d, its[n])
      BY <1>0, <2>2, <3>1, <3>2, ContentsDown
    <3>6. c[n] = Gathered(c, its2[n])
      <4>1. /\ deps2[n] # 1 /\ deps2[n] \in Level /\ n \in NodeId
            /\ \A j \in 1 .. Len(its2[n]) :
                 /\ its2[n][j] \in NodeId /\ deps2[its2[n][j]] \in Level
                 /\ deps2[n] = deps2[its2[n][j]] + 1
        BY <1>0, <2>2, <3>1
      <4> QED  BY <3>2, <4>1, ContentsDown
    <3> QED  BY <3>2, <3>4, <3>5, <3>6
  <2> QED  BY <2>1, <2>2
<1> HIDE DEF T
<1>3. \A k \in 0 .. MaxDepth : k \in T
  BY <1>0, <1>1, <1>2, UpTo
<1>4. MaxDepth \in T
  BY <1>0, <1>3
<1> QED
  BY <1>0, <1>4 DEF T

-----------------------------------------------------------------------------
(* What is left and right of a path *)

\* A sequence around one of its items.
LEMMA CutAround ==
    ASSUME NEW S, NEW s \in Seq(S), NEW i \in 0 .. Len(s) - 1
    PROVE  /\ SubSeq(s, 1, i) \in Seq(S) /\ Len(SubSeq(s, 1, i)) = i
           /\ SubSeq(s, i + 2, Len(s)) \in Seq(S)
           /\ Len(SubSeq(s, i + 2, Len(s))) = Len(s) - i - 1
           /\ s[i + 1] \in S
           /\ s = (SubSeq(s, 1, i) \o <<s[i + 1]>>) \o SubSeq(s, i + 2, Len(s))
<1>1. Len(s) \in Nat /\ \A k \in 1 .. Len(s) : s[k] \in S
  BY LenProperties, ElementOfSeq
<1>2. PICK a, b, x, n : a = SubSeq(s, 1, i) /\ b = SubSeq(s, i + 2, Len(s)) /\ x = s[i + 1] /\ n = Len(s)
  OBVIOUS
<1>3. a \in Seq(S) /\ Len(a) = i /\ \A k \in 1 .. i : a[k] = s[k]
  <2>1. \A k \in 1 .. i : s[k] \in S
    BY <1>1
  <2>2. /\ a \in Seq(S) /\ Len(a) = IF 1 <= i THEN i - 1 + 1 ELSE 0
        /\ \A k \in 1 .. i - 1 + 1 : a[k] = s[1 + k - 1]
    BY <1>2, <2>1, SubSeqProperties
  <2>3. i - 1 + 1 = i /\ \A k \in 1 .. i : 1 + k - 1 = k
    OBVIOUS
  <2> QED  BY <2>2, <2>3
<1>4. b \in Seq(S) /\ Len(b) = n - i - 1 /\ \A k \in 1 .. n - i - 1 : b[k] = s[i + 1 + k]
  <2>0. n = Len(s) /\ n \in Nat /\ i \in 0 .. n - 1
    BY <1>1, <1>2
  <2>1. \A k \in i + 2 .. n : s[k] \in S
    BY <1>1, <2>0
  <2>2. /\ b \in Seq(S) /\ Len(b) = IF i + 2 <= n THEN n - (i + 2) + 1 ELSE 0
        /\ \A k \in 1 .. n - (i + 2) + 1 : b[k] = s[(i + 2) + k - 1]
    BY <1>2, <2>0, <2>1, SubSeqProperties
  <2>3. n - (i + 2) + 1 = n - i - 1 /\ \A k \in 1 .. n - i - 1 : (i + 2) + k - 1 = i + 1 + k
    BY <2>0
  <2> QED  BY <2>0, <2>2, <2>3
<1>5. x \in S /\ <<x>> \in Seq(S) /\ Len(<<x>>) = 1 /\ <<x>>[1] = x
  BY <1>1, <1>2
<1>6. PICK p : p = a \o <<x>>
  OBVIOUS
<1>7. /\ p \in Seq(S) /\ Len(p) = i + 1
      /\ \A k \in 1 .. i + 1 : p[k] = s[k]
  <2>1. /\ p \in Seq(S) /\ Len(p) = Len(a) + 1
        /\ \A k \in 1 .. Len(a) + 1 : p[k] = IF k <= Len(a) THEN a[k] ELSE <<x>>[k - Len(a)]
    <3>1. PICK w : w = <<x>>
      OBVIOUS
    <3>2. w \in Seq(S) /\ Len(w) = 1 /\ p = a \o w
      BY <1>5, <1>6, <3>1
    <3>3. /\ a \o w \in Seq(S) /\ Len(a \o w) = Len(a) + Len(w)
          /\ \A k \in 1 .. Len(a) + Len(w) : (a \o w)[k] = IF k <= Len(a) THEN a[k] ELSE w[k - Len(a)]
      BY <1>3, <3>2, ConcatProperties
    <3> QED  BY <3>1, <3>2, <3>3, Zenon
  <2>2. ASSUME NEW k \in 1 .. i + 1 PROVE p[k] = s[k]
    <3>1. CASE k <= i
      BY <1>3, <2>1, <3>1
    <3>2. CASE k = i + 1
      <4>1. ~(k <= Len(a)) /\ k - Len(a) = 1 /\ k \in 1 .. Len(a) + 1
        BY <1>3, <3>2
      <4>2. p[k] = <<x>>[1]
        BY <2>1, <4>1
      <4> QED  BY <1>2, <1>5, <3>2, <4>2
    <3> QED  BY <3>1, <3>2
  <2> QED  BY <1>3, <2>1, <2>2
<1>8. PICK q : q = p \o b
  OBVIOUS
<1>9. q \in Seq(S) /\ Len(q) = n /\ \A k \in 1 .. n : q[k] = s[k]
  <2>1. /\ q \in Seq(S) /\ Len(q) = Len(p) + Len(b)
        /\ \A k \in 1 .. Len(p) + Len(b) : q[k] = IF k <= Len(p) THEN p[k] ELSE b[k - Len(p)]
    <3>1. /\ p \o b \in Seq(S) /\ Len(p \o b) = Len(p) + Len(b)
          /\ \A k \in 1 .. Len(p) + Len(b) : (p \o b)[k] = IF k <= Len(p) THEN p[k] ELSE b[k - Len(p)]
      BY <1>4, <1>7, ConcatProperties
    <3> QED  BY <1>8, <3>1, Zenon
  <2>2. n \in Nat /\ i \in 0 .. n - 1 /\ Len(q) = n
    BY <1>1, <1>2, <1>4, <1>7, <2>1
  <2>3. ASSUME NEW k \in 1 .. n PROVE q[k] = s[k]
    <3>1. CASE k <= i + 1
      BY <1>4, <1>7, <2>1, <2>2, <3>1
    <3>2. CASE ~(k <= i + 1)
      <4>1. k - (i + 1) \in 1 .. n - i - 1 /\ i + 1 + (k - (i + 1)) = k
        BY <2>2, <3>2
      <4> QED  BY <1>4, <1>7, <2>1, <2>2, <3>2, <4>1
    <3> QED  BY <3>1, <3>2
  <2> QED  BY <2>1, <2>2, <2>3
<1>10. q = s
  BY <1>2, <1>9, SeqEqual
<1>11. s = (a \o <<x>>) \o b
  BY <1>6, <1>8, <1>10, Zenon
<1>12. /\ a \in Seq(S) /\ Len(a) = i /\ b \in Seq(S) /\ Len(b) = Len(s) - i - 1 /\ s[i + 1] \in S
  BY <1>2, <1>3, <1>4, <1>5
<1> QED
  BY <1>2, <1>11, <1>12, Zenon

\* LeftOf, RightOf, Lefts and Rights of what nodes hold.
LeftIn(c, its, f)   == Gathered(c, SubSeq(its[f.node], 1, f.index))
RightIn(c, its, f)  == Gathered(c, SubSeq(its[f.node], f.index + 2, Len(its[f.node])))
LeftsIn(c, its, s)  == FlattenSeq([j \in 1 .. Len(s) |-> LeftIn(c, its, s[j])])
RightsIn(c, its, s) == FlattenSeq([j \in 1 .. Len(s) |-> RightIn(c, its, s[Len(s) - j + 1])])

\* A frame names a child of an inner node.
Forks(its, f) ==
    /\ f.node \in NodeId /\ its[f.node] \in Seq(NodeId)
    /\ f.index \in 0 .. Len(its[f.node]) - 1

\* All the frames of a path do.
Forked(its, s) == \A j \in 1 .. Len(s) : Forks(its, s[j])

\* What is in the node of a frame: what is left of the child, below it, and right of it.
Around(c, its, f) == Holding(c) /\ Forks(its, f)

LEMMA AroundChild ==
    ASSUME NEW c, NEW its, NEW f, Around(c, its, f)
    PROVE  /\ LeftIn(c, its, f) \in Seq(Values) /\ RightIn(c, its, f) \in Seq(Values)
           /\ its[f.node][f.index + 1] \in NodeId
           /\ Gathered(c, its[f.node])
                = (LeftIn(c, its, f) \o c[its[f.node][f.index + 1]]) \o RightIn(c, its, f)
<1>1. PICK s, i : s = its[f.node] /\ i = f.index
  OBVIOUS
<1>2. s \in Seq(NodeId) /\ i \in 0 .. Len(s) - 1
  BY <1>1 DEF Around, Forks
<1>3. PICK a, b, x : a = SubSeq(s, 1, i) /\ b = SubSeq(s, i + 2, Len(s)) /\ x = s[i + 1]
  OBVIOUS
<1>4. a \in Seq(NodeId) /\ b \in Seq(NodeId) /\ x \in NodeId /\ s = (a \o <<x>>) \o b
  <2>1. /\ SubSeq(s, 1, i) \in Seq(NodeId) /\ SubSeq(s, i + 2, Len(s)) \in Seq(NodeId)
        /\ s[i + 1] \in NodeId
        /\ s = (SubSeq(s, 1, i) \o <<s[i + 1]>>) \o SubSeq(s, i + 2, Len(s))
    BY <1>2, CutAround
  <2> QED  BY <1>3, <2>1, Zenon
<1>5. \A n \in NodeId : c[n] \in Seq(Values)
  BY DEF Around, Holding
<1>6. PICK w, p : w = <<x>> /\ p = a \o w
  OBVIOUS
<1>7. w \in Seq(NodeId) /\ p \in Seq(NodeId)
  <2>1. w \in Seq(NodeId)
    BY <1>4, <1>6
  <2>2. a \o w \in Seq(NodeId)
    BY <1>4, <2>1, Joins
  <2> QED  BY <1>6, <2>1, <2>2, Zenon
<1>8. s = p \o b
  BY <1>4, <1>6, Zenon
<1>h. Holding(c)
  BY DEF Around
<1>9. Gathered(c, s) = Gathered(c, p) \o Gathered(c, b)
  <2>1. Joining(c, p, b, s)
    BY <1>4, <1>7, <1>8, <1>h, Zenon DEF Joining
  <2>2. Joint(c, p, b, s)
    BY <2>1, GatheredJoin, Zenon
  <2> QED  BY <2>2, Zenon DEF Joint
<1>10. Gathered(c, p) = Gathered(c, a) \o Gathered(c, w)
  <2>1. p = a \o w /\ a \in Seq(NodeId) /\ w \in Seq(NodeId)
    BY <1>4, <1>6, <1>7, Zenon
  <2>2. Joining(c, a, w, p)
    BY <1>h, <2>1, Zenon DEF Joining
  <2>3. Joint(c, a, w, p)
    BY <2>2, GatheredJoin, Zenon
  <2> QED  BY <2>3, Zenon DEF Joint
<1>11. Gathered(c, w) = c[x]
  BY <1>4, <1>5, <1>6, GatheredOne
<1>12. Gathered(c, s) = (Gathered(c, a) \o c[x]) \o Gathered(c, b)
  BY <1>9, <1>10, <1>11, Zenon
<1>13. Gathered(c, a) \in Seq(Values) /\ Gathered(c, b) \in Seq(Values)
  BY <1>4, <1>5, GatheredTyped
<1>14. LeftIn(c, its, f) = Gathered(c, a) /\ RightIn(c, its, f) = Gathered(c, b)
  BY <1>1, <1>3, Zenon DEF LeftIn, RightIn
<1> QED
  BY <1>1, <1>3, <1>4, <1>12, <1>13, <1>14, Zenon

\* Path s, the innermost frame of it, and the path without it.
Popped(s, p, f) ==
    /\ s \in Seq(FrameSet) /\ s # <<>>
    /\ p = SubSeq(s, 1, Len(s) - 1) /\ f = s[Len(s)]

\* Path s names children, p is the path without its innermost frame f.
Ends(c, its, s, p, f) == Holding(c) /\ Forked(its, s) /\ Popped(s, p, f)

\* The innermost frame: what is left of its child is the last of what is left of the
\* path, and what is right of it the first of what is right.
LEMMA SidesPop ==
    ASSUME NEW c, NEW its, NEW s, NEW p, NEW f, Ends(c, its, s, p, f)
    PROVE  /\ LeftsIn(c, its, p) \in Seq(Values) /\ RightsIn(c, its, p) \in Seq(Values)
           /\ LeftsIn(c, its, s) = LeftsIn(c, its, p) \o LeftIn(c, its, f)
           /\ RightsIn(c, its, s) = RightIn(c, its, f) \o RightsIn(c, its, p)
<1>0. /\ Holding(c) /\ Forked(its, s) /\ s \in Seq(FrameSet) /\ s # <<>>
      /\ p = SubSeq(s, 1, Len(s) - 1) /\ f = s[Len(s)]
  BY DEF Popped, Ends
<1>1. Len(s) \in Nat \ {0} /\ \A j \in 1 .. Len(s) : s[j] \in FrameSet
  BY <1>0, LenProperties, ElementOfSeq, EmptySeq
<1>2. Len(p) = Len(s) - 1 /\ \A j \in 1 .. Len(s) - 1 : p[j] = s[j]
  <2>1. PICK n : n = Len(s) - 1
    OBVIOUS
  <2>2. n \in Nat /\ \A j \in 1 .. n : s[j] \in FrameSet
    BY <1>1, <2>1
  <2>3. /\ Len(p) = IF 1 <= n THEN n - 1 + 1 ELSE 0
        /\ \A j \in 1 .. n - 1 + 1 : p[j] = s[1 + j - 1]
    BY <1>0, <2>1, <2>2, SubSeqProperties
  <2>4. n - 1 + 1 = n /\ \A j \in 1 .. n : 1 + j - 1 = j
    BY <2>2
  <2> QED  BY <2>1, <2>2, <2>3, <2>4
<1>3. PICK n \in Nat : n = Len(p) /\ n + 1 = Len(s)
  BY <1>1, <1>2
<1>4. ASSUME NEW j \in 1 .. n + 1
      PROVE  LeftIn(c, its, s[j]) \in Seq(Values) /\ RightIn(c, its, s[j]) \in Seq(Values)
  <2>1. PICK g : g = s[j]
    OBVIOUS
  <2>2. Forks(its, g)
    BY <1>0, <1>3, <2>1 DEF Forked
  <2>3. LeftIn(c, its, g) \in Seq(Values) /\ RightIn(c, its, g) \in Seq(Values)
    BY <1>0, <2>2, AroundChild DEF Around
  <2> QED  BY <2>1, <2>3
<1>5. PICK ls, rs, lp, rp :
        /\ ls = [j \in 1 .. Len(s) |-> LeftIn(c, its, s[j])]
        /\ rs = [j \in 1 .. Len(s) |-> RightIn(c, its, s[Len(s) - j + 1])]
        /\ lp = [j \in 1 .. Len(p) |-> LeftIn(c, its, p[j])]
        /\ rp = [j \in 1 .. Len(p) |-> RightIn(c, its, p[Len(p) - j + 1])]
  OBVIOUS
<1>6. /\ LeftsIn(c, its, s) = FlattenSeq(ls) /\ RightsIn(c, its, s) = FlattenSeq(rs)
      /\ LeftsIn(c, its, p) = FlattenSeq(lp) /\ RightsIn(c, its, p) = FlattenSeq(rp)
  BY <1>5 DEF LeftsIn, RightsIn
<1>7. /\ \A j \in 1 .. n : p[j] = s[j] /\ j \in 1 .. n + 1 /\ n - j + 1 \in 1 .. n
      /\ \A j \in 1 .. n + 1 : n + 1 - j + 1 \in 1 .. n + 1
      /\ n + 1 \in 1 .. n + 1 /\ 1 \in 1 .. n + 1 /\ n + 1 - 1 + 1 = n + 1
  <2>1. Len(s) - 1 = n
    BY <1>3
  <2> QED  BY <1>2, <2>1
<1>t. /\ ls = [j \in 1 .. n + 1 |-> LeftIn(c, its, s[j])]
      /\ rs = [j \in 1 .. n + 1 |-> RightIn(c, its, s[n + 1 - j + 1])]
      /\ lp = [j \in 1 .. n |-> LeftIn(c, its, p[j])]
      /\ rp = [j \in 1 .. n |-> RightIn(c, its, p[n - j + 1])]
      /\ f = s[n + 1]
  BY <1>0, <1>3, <1>5
<1>8. /\ \A j \in 1 .. n : lp[j] = ls[j]
      /\ ls[n + 1] = LeftIn(c, its, f)
  BY <1>t, <1>7
<1>9. /\ \A j \in 1 .. n : rp[j] = rs[j + 1]
      /\ rs[1] = RightIn(c, its, f)
  <2>1. \A j \in 1 .. n : j + 1 \in 1 .. n + 1 /\ n + 1 - (j + 1) + 1 = n - j + 1
    OBVIOUS
  <2>2. rs[1] = RightIn(c, its, f)
    BY <1>t, <1>7
  <2>3. ASSUME NEW j \in 1 .. n PROVE rp[j] = rs[j + 1]
    <3>1. rp[j] = RightIn(c, its, p[n - j + 1])
      BY <1>t
    <3>2. rs[j + 1] = RightIn(c, its, s[n - j + 1])
      BY <1>t, <2>1
    <3>3. p[n - j + 1] = s[n - j + 1]
      BY <1>7
    <3> QED  BY <3>1, <3>2, <3>3
  <2> QED  BY <2>2, <2>3
<1>10. PICK x, y : x = LeftIn(c, its, f) /\ y = RightIn(c, its, f)
  OBVIOUS
<1>11. x \in Seq(Values) /\ y \in Seq(Values)
  <2>1. LeftIn(c, its, s[n + 1]) \in Seq(Values) /\ RightIn(c, its, s[n + 1]) \in Seq(Values)
    BY <1>4, <1>7
  <2> QED  BY <1>t, <1>10, <2>1
<1>12. PICK S : S = Seq(Values)
  OBVIOUS
<1>13. /\ ls \in Seq(S) /\ Len(ls) = n + 1 /\ lp \in Seq(S) /\ Len(lp) = n
       /\ rs \in Seq(S) /\ Len(rs) = n + 1 /\ rp \in Seq(S) /\ Len(rp) = n
       /\ <<x>> \in Seq(S) /\ <<y>> \in Seq(S)
  <2>1. \A j \in 1 .. n + 1 : LeftIn(c, its, s[j]) \in S /\ RightIn(c, its, s[n + 1 - j + 1]) \in S
    BY <1>4, <1>7, <1>12
  <2>2. \A j \in 1 .. n : LeftIn(c, its, p[j]) \in S /\ RightIn(c, its, p[n - j + 1]) \in S
    BY <1>4, <1>7, <1>12
  <2>3. x \in S /\ y \in S
    BY <1>11, <1>12
  <2>4. ls \in Seq(S) /\ Len(ls) = n + 1
    <3>1. n + 1 \in Nat /\ ls \in [1 .. n + 1 -> S]
      BY <1>t, <2>1
    <3> QED  BY <3>1
  <2>5. rs \in Seq(S) /\ Len(rs) = n + 1
    BY <1>t, <2>1
  <2>6. lp \in Seq(S) /\ Len(lp) = n
    <3>1. n \in Nat /\ lp \in [1 .. n -> S]
      BY <1>t, <2>2
    <3> QED  BY <3>1
  <2>7. rp \in Seq(S) /\ Len(rp) = n
    <3>1. n \in Nat /\ rp \in [1 .. n -> S]
      BY <1>t, <2>2
    <3> QED  BY <3>1
  <2> QED  BY <2>3, <2>4, <2>5, <2>6, <2>7
<1>14. ls = lp \o <<x>>
  <2>1. ls[n + 1] = x
    BY <1>8, <1>10
  <2>2. lp \o <<x>> \in Seq(S) /\ Len(lp \o <<x>>) = n + 1
        /\ \A j \in 1 .. n + 1 : (lp \o <<x>>)[j] = IF j <= n THEN lp[j] ELSE x
    BY <1>13
  <2>3. PICK z : z = lp \o <<x>>
    OBVIOUS
  <2>4. z \in Seq(S) /\ Len(z) = n + 1 /\ \A j \in 1 .. n + 1 : z[j] = ls[j]
    BY <1>8, <2>1, <2>2, <2>3
  <2>5. z = ls
    BY <1>13, <2>4, SeqEqual
  <2> QED  BY <2>3, <2>5
<1>15. rs = <<y>> \o rp
  <2>1. rs[1] = y
    BY <1>9, <1>10
  <2>3. PICK z : z = <<y>> \o rp
    OBVIOUS
  <2>2. z \in Seq(S) /\ Len(z) = n + 1
        /\ \A j \in 1 .. n + 1 : z[j] = IF j = 1 THEN y ELSE rp[j - 1]
    <3>1. PICK w : w = <<y>>
      OBVIOUS
    <3>2. w \in Seq(S) /\ Len(w) = 1 /\ w[1] = y /\ z = w \o rp
      BY <1>13, <2>3, <3>1
    <3>3. /\ w \o rp \in Seq(S) /\ Len(w \o rp) = Len(w) + Len(rp)
          /\ \A j \in 1 .. Len(w) + Len(rp) :
               (w \o rp)[j] = IF j <= Len(w) THEN w[j] ELSE rp[j - Len(w)]
      BY <1>13, <3>2, ConcatProperties
    <3>4. /\ z \in Seq(S) /\ Len(z) = Len(w) + Len(rp)
          /\ \A j \in 1 .. Len(w) + Len(rp) : z[j] = IF j <= Len(w) THEN w[j] ELSE rp[j - Len(w)]
      BY <3>2, <3>3, Zenon
    <3>5. Len(w) = 1 /\ Len(rp) = n /\ w[1] = y
      BY <1>13, <3>2
    <3> QED  BY <3>4, <3>5
  <2>4. z \in Seq(S) /\ Len(z) = n + 1 /\ \A j \in 1 .. n + 1 : z[j] = rs[j]
    <3>1. \A j \in 1 .. n + 1 : j = 1 \/ (j - 1 \in 1 .. n /\ (j - 1) + 1 = j)
      OBVIOUS
    <3> QED  BY <1>9, <2>1, <2>2, <2>3, <3>1
  <2>5. z = rs
    BY <1>13, <2>4, SeqEqual
  <2> QED  BY <2>3, <2>5
<1>16. /\ lp \in Seq(Seq(Values)) /\ rp \in Seq(Seq(Values))
       /\ <<x>> \in Seq(Seq(Values)) /\ <<y>> \in Seq(Seq(Values))
  BY <1>12, <1>13
<1>17. /\ FlattenSeq(lp \o <<x>>) = FlattenSeq(lp) \o FlattenSeq(<<x>>)
       /\ FlattenSeq(<<y>> \o rp) = FlattenSeq(<<y>>) \o FlattenSeq(rp)
  BY <1>16, FlatConcat
<1>18. FlattenSeq(<<x>>) = x /\ FlattenSeq(<<y>>) = y
  BY <1>11, FlatOne
<1>19. FlattenSeq(lp) \in Seq(Values) /\ FlattenSeq(rp) \in Seq(Values)
  BY <1>16, FlatFold
<1> QED
  BY <1>6, <1>10, <1>14, <1>15, <1>17, <1>18, <1>19, Zenon

\* Around a child, around the path to its parent: around the path to the child.
OneUp(c, its, s, p, f) ==
    /\ LeftsIn(c, its, s) \in Strands /\ RightsIn(c, its, s) \in Strands
    /\ LeftsIn(c, its, p) \in Strands /\ RightsIn(c, its, p) \in Strands
    /\ LeftIn(c, its, f) \in Strands /\ RightIn(c, its, f) \in Strands
    /\ \A m \in Strands :
         (LeftsIn(c, its, p) \o ((LeftIn(c, its, f) \o m) \o RightIn(c, its, f)))
             \o RightsIn(c, its, p)
           = (LeftsIn(c, its, s) \o m) \o RightsIn(c, its, s)

LEMMA Deeper ==
    ASSUME NEW c, NEW its, NEW s, NEW p, NEW f, Ends(c, its, s, p, f)
    PROVE  OneUp(c, its, s, p, f)
<1>1. /\ LeftsIn(c, its, p) \in Strands /\ RightsIn(c, its, p) \in Strands
      /\ LeftsIn(c, its, s) = LeftsIn(c, its, p) \o LeftIn(c, its, f)
      /\ RightsIn(c, its, s) = RightIn(c, its, f) \o RightsIn(c, its, p)
  BY SidesPop DEF Strands
<1>2. Forks(its, f)
  <2>1. s \in Seq(FrameSet) /\ s # <<>> /\ f = s[Len(s)] /\ Forked(its, s)
    BY DEF Popped, Ends
  <2>2. Len(s) \in 1 .. Len(s)
    BY <2>1, LenProperties, EmptySeq
  <2> QED  BY <2>1, <2>2 DEF Forked
<1>3. LeftIn(c, its, f) \in Strands /\ RightIn(c, its, f) \in Strands
  <2>1. Holding(c)
    BY DEF Ends
  <2>2. Around(c, its, f)
    BY <1>2, <2>1 DEF Around
  <2> QED  BY <2>2, AroundChild DEF Strands
<1>4. PICK L, R, l, r : /\ L = LeftsIn(c, its, p) /\ R = RightsIn(c, its, p)
                        /\ l = LeftIn(c, its, f) /\ r = RightIn(c, its, f)
  BY Zenon
<1>5. L \in Strands /\ R \in Strands /\ l \in Strands /\ r \in Strands
  BY <1>1, <1>3, <1>4, Zenon
<1>6. L \o l \in Strands /\ r \o R \in Strands
  BY <1>5, StrandsJoin, SMT
<1>7. \A m \in Strands : (L \o ((l \o m) \o r)) \o R = ((L \o l) \o m) \o (r \o R)
  <2> SUFFICES ASSUME NEW m \in Strands
               PROVE  (L \o ((l \o m) \o r)) \o R = ((L \o l) \o m) \o (r \o R)
    OBVIOUS
  <2>1. AllStrands(L, l, m, r, R)
    BY <1>5 DEF AllStrands
  <2>2. Nested(L, l, m, r, R)
    BY <2>1, Nest, Zenon
  <2> QED  BY <2>2, Zenon DEF Nested
<1> QED
  BY <1>1, <1>4, <1>5, <1>6, <1>7, Zenon DEF OneUp

\* Nothing beside a child changes if its parent does not, nor what the other children
\* hold.
BesideOf(c, d, its, its2, f) ==
    /\ Forks(its, f) /\ its2[f.node] = its[f.node]
    /\ \A k \in 1 .. Len(its[f.node]) : k # f.index + 1 => d[its[f.node][k]] = c[its[f.node][k]]

SideAlike(c, d, its, its2, f) ==
    LeftIn(d, its2, f) = LeftIn(c, its, f) /\ RightIn(d, its2, f) = RightIn(c, its, f)

LEMMA SideSame ==
    ASSUME NEW c, NEW d, NEW its, NEW its2, NEW f, BesideOf(c, d, its, its2, f)
    PROVE  SideAlike(c, d, its, its2, f)
<1>0. /\ Forks(its, f) /\ its2[f.node] = its[f.node]
      /\ \A k \in 1 .. Len(its[f.node]) : k # f.index + 1 => d[its[f.node][k]] = c[its[f.node][k]]
  BY DEF BesideOf
<1>1. PICK x : x = its[f.node]
  OBVIOUS
<1>2. x \in Seq(NodeId) /\ f.index \in 0 .. Len(x) - 1 /\ its2[f.node] = x
  BY <1>0, <1>1 DEF Forks
<1>3. Len(x) \in Nat /\ \A k \in 1 .. Len(x) : x[k] \in NodeId
  BY <1>2, LenProperties, ElementOfSeq
<1>4. \A k \in 1 .. Len(x) : k # f.index + 1 => d[x[k]] = c[x[k]]
  BY <1>0, <1>1
<1>5. PICK a, b : a = SubSeq(x, 1, f.index) /\ b = SubSeq(x, f.index + 2, Len(x))
  OBVIOUS
<1>6. PICK i \in Nat : i = f.index /\ i < Len(x)
  BY <1>2, <1>3
<1>7. \A k \in 1 .. Len(a) : d[a[k]] = c[a[k]]
  <2>1. \A k \in 1 .. i : x[k] \in NodeId
    BY <1>3, <1>6
  <2>2. Len(a) = (IF 1 <= i THEN i - 1 + 1 ELSE 0) /\ \A k \in 1 .. i - 1 + 1 : a[k] = x[1 + k - 1]
    BY <1>5, <1>6, <2>1, SubSeqProperties
  <2>3. Len(a) = i /\ \A k \in 1 .. i : a[k] = x[k] /\ k \in 1 .. Len(x) /\ k # i + 1
    BY <1>3, <1>6, <2>2
  <2> QED  BY <1>4, <1>6, <2>3
<1>8. \A k \in 1 .. Len(b) : d[b[k]] = c[b[k]]
  <2>1. \A k \in i + 2 .. Len(x) : x[k] \in NodeId
    BY <1>3, <1>6
  <2>2. /\ Len(b) = IF i + 2 <= Len(x) THEN Len(x) - (i + 2) + 1 ELSE 0
        /\ \A k \in 1 .. Len(x) - (i + 2) + 1 : b[k] = x[(i + 2) + k - 1]
    <3>1. PICK m, n : m = i + 2 /\ n = Len(x)
      OBVIOUS
    <3>2. m \in Int /\ n \in Int /\ b = SubSeq(x, m, n) /\ \A k \in m .. n : x[k] \in NodeId
      <4>1. m \in Int /\ n \in Int
        BY <1>3, <1>6, <3>1
      <4>2. b = SubSeq(x, m, n)
        BY <1>5, <1>6, <3>1, Zenon
      <4>3. \A k \in m .. n : x[k] \in NodeId
        BY <2>1, <3>1, Zenon
      <4> QED  BY <4>1, <4>2, <4>3, Zenon
    <3>3. /\ Len(b) = IF m <= n THEN n - m + 1 ELSE 0
          /\ \A k \in 1 .. n - m + 1 : b[k] = x[m + k - 1]
      BY <3>2, SubSeqProperties
    <3> QED  BY <3>1, <3>3
  <2>3. Len(b) = Len(x) - (i + 2) + 1 \/ Len(b) = 0
    BY <2>2
  <2>4. ASSUME NEW k \in 1 .. Len(b) PROVE d[b[k]] = c[b[k]]
    <3>0. PICK l, m : l = Len(b) /\ m = Len(x)
      OBVIOUS
    <3>1. /\ k \in 1 .. Len(x) - (i + 2) + 1
          /\ (i + 2) + k - 1 \in 1 .. Len(x) /\ (i + 2) + k - 1 # i + 1
      <4>1. m \in Nat /\ i < m /\ (l = m - (i + 2) + 1 \/ l = 0) /\ k \in 1 .. l
        BY <1>3, <1>6, <2>3, <3>0
      <4>2. k \in 1 .. m - (i + 2) + 1
        BY <4>1
      <4>3. (i + 2) + k - 1 \in 1 .. m /\ (i + 2) + k - 1 # i + 1
        BY <4>1, <4>2
      <4> QED  BY <3>0, <4>2, <4>3
    <3>2. b[k] = x[(i + 2) + k - 1]
      BY <2>2, <3>1
    <3> QED  BY <1>4, <1>6, <3>1, <3>2
  <2> QED  BY <2>4
<1>9. Gathered(d, a) = Gathered(c, a) /\ Gathered(d, b) = Gathered(c, b)
  BY <1>7, <1>8, GatheredSame
<1>10. /\ LeftIn(d, its2, f) = Gathered(d, a) /\ RightIn(d, its2, f) = Gathered(d, b)
       /\ LeftIn(c, its, f) = Gathered(c, a) /\ RightIn(c, its, f) = Gathered(c, b)
  BY <1>1, <1>2, <1>5, Zenon DEF LeftIn, RightIn
<1> QED  BY <1>9, <1>10 DEF SideAlike

\* The same of a path.
Beside(c, d, its, its2, s) ==
    /\ \A j \in 1 .. Len(s) : Forks(its, s[j]) /\ its2[s[j].node] = its[s[j].node]
    /\ \A j \in 1 .. Len(s) : \A k \in 1 .. Len(its[s[j].node]) :
         k # s[j].index + 1 => d[its[s[j].node][k]] = c[its[s[j].node][k]]

LEMMA SidesSame ==
    ASSUME NEW c, NEW d, NEW its, NEW its2, NEW s, Beside(c, d, its, its2, s)
    PROVE  LeftsIn(d, its2, s) = LeftsIn(c, its, s) /\ RightsIn(d, its2, s) = RightsIn(c, its, s)
<1>1. ASSUME NEW j \in 1 .. Len(s)
      PROVE  /\ LeftIn(d, its2, s[j]) = LeftIn(c, its, s[j])
             /\ RightIn(d, its2, s[j]) = RightIn(c, its, s[j])
  <2>1. PICK f : f = s[j]
    BY Zenon
  <2>2. BesideOf(c, d, its, its2, f)
    BY <2>1 DEF Beside, BesideOf
  <2>3. SideAlike(c, d, its, its2, f)
    BY <2>2, SideSame, Zenon
  <2> QED  BY <2>1, <2>3 DEF SideAlike
<1>2. \A j \in 1 .. Len(s) : Len(s) - j + 1 \in 1 .. Len(s)
  <2>1. CASE Len(s) \in Int
    BY <2>1
  <2>2. CASE Len(s) \notin Int
    BY <2>2
  <2> QED  BY <2>1, <2>2
<1> QED
  BY <1>1, <1>2 DEF LeftsIn, RightsIn

-----------------------------------------------------------------------------
(* The state *)

\* What the nodes hold now.
Now == ContentsIn(items, depth)

LEMMA TreeHolds ==
    ASSUME NEW its, NEW deps, Treelike(its, deps, NodeId)
    PROVE  /\ Holding(ContentsIn(its, deps))
           /\ \A n \in NodeId :
                /\ deps[n] = 1 => ContentsIn(its, deps)[n] = its[n]
                /\ deps[n] # 1 => ContentsIn(its, deps)[n] = Gathered(ContentsIn(its, deps), its[n])
<1>1. Holding(ContentsIn(its, deps))
  BY ContentsTyped DEF Holding
<1>2. ASSUME NEW n \in NodeId, deps[n] # 1
      PROVE  ContentsIn(its, deps)[n] = Gathered(ContentsIn(its, deps), its[n])
  <2>1. /\ deps[n] \in Level /\ its[n] \in Seq(NodeId)
        /\ \A k \in 1 .. Len(its[n]) : deps[n] = deps[its[n][k]] + 1
    BY <1>2 DEF Treelike
  <2>2. \A k \in 1 .. Len(its[n]) : its[n][k] \in NodeId
    BY <2>1, ElementOfSeq
  <2>3. \A m \in NodeId : deps[m] \in Level
    BY DEF Treelike
  <2> QED  BY <1>2, <2>1, <2>2, <2>3, ContentsDown
<1>3. ASSUME NEW n \in NodeId, deps[n] = 1 PROVE ContentsIn(its, deps)[n] = its[n]
  BY <1>3, ContentsDown DEF Treelike
<1> QED
  BY <1>1, <1>2, <1>3, Zenon

\* A node's children are of the level below.
LEMMA NodesTree ==
    ASSUME Memory, Shallow, NEW S, S \subseteq NodeId,
           \A n \in S : Children(n) \subseteq S
    PROVE  Treelike(items, depth, S)
<1> SUFFICES ASSUME NEW n \in S
             PROVE  /\ n \in NodeId /\ depth[n] \in Level
                    /\ depth[n] = 1 => items[n] \in Seq(Values)
                    /\ depth[n] # 1 => items[n] \in Seq(S) /\ \A k \in 1 .. Len(items[n]) :
                                                  depth[n] = depth[items[n][k]] + 1
  BY DEF Treelike
<1>1. n \in NodeId /\ depth[n] \in Level /\ NodesOK /\ Levels
  BY DEF Memory, Shallow, TypeOK
<1>2. ASSUME depth[n] # 1
      PROVE  items[n] \in Seq(S) /\ \A k \in 1 .. Len(items[n]) : depth[n] = depth[items[n][k]] + 1
  <2>1. items[n] \in Seq(NodeId) /\ n \in Inner
    BY <1>1, <1>2, TreeAssumption DEF NodesOK, Inner, Level
  <2>2. \A k \in 1 .. Len(items[n]) : items[n][k] \in Children(n)
    BY <1>2 DEF Children
  <2>3. \A k \in 1 .. Len(items[n]) : items[n][k] \in S /\ depth[n] = depth[items[n][k]] + 1
    BY <1>1, <2>1, <2>2 DEF Levels
  <2>4. Len(items[n]) \in Nat /\ items[n] = [k \in 1 .. Len(items[n]) |-> items[n][k]]
    BY <2>1, LenProperties
  <2> QED  BY <2>3, <2>4
<1> QED
  BY <1>1, <1>2 DEF NodesOK

LEMMA NowTree ==
    Memory /\ Shallow =>
        /\ Holding(Now)
        /\ \A n \in NodeId :
             /\ depth[n] = 1 => Now[n] = items[n] /\ items[n] \in Seq(Values)
             /\ depth[n] # 1 => Now[n] = Gathered(Now, items[n]) /\ items[n] \in Seq(NodeId)
<1> SUFFICES ASSUME Memory, Shallow
             PROVE  /\ Holding(Now)
                    /\ \A n \in NodeId :
                         /\ depth[n] = 1 => Now[n] = items[n] /\ items[n] \in Seq(Values)
                         /\ depth[n] # 1 => Now[n] = Gathered(Now, items[n]) /\ items[n] \in Seq(NodeId)
  OBVIOUS
<1>1. \A n \in NodeId : Children(n) \subseteq NodeId
  <2> SUFFICES ASSUME NEW n \in NodeId PROVE Children(n) \subseteq NodeId
    OBVIOUS
  <2>1. depth[n] # 1 => items[n] \in Seq(NodeId)
    BY DEF Memory, TypeOK, NodesOK
  <2> QED  BY <2>1, ElementOfSeq DEF Children
<1>2. Treelike(items, depth, NodeId)
  BY <1>1, NodesTree
<1>3. \A n \in NodeId : /\ depth[n] = 1 => items[n] \in Seq(Values)
                        /\ depth[n] # 1 => items[n] \in Seq(NodeId)
  BY <1>2 DEF Treelike
<1> QED
  BY <1>2, <1>3, TreeHolds DEF Now

\* The same of the next state.
LEMMA NowTreeNext ==
    (Memory /\ Shallow =>
        /\ Holding(Now)
        /\ \A n \in NodeId :
             /\ depth[n] = 1 => Now[n] = items[n] /\ items[n] \in Seq(Values)
             /\ depth[n] # 1 => Now[n] = Gathered(Now, items[n]) /\ items[n] \in Seq(NodeId))'
  BY NowTree, PTL

\* A step writes to nodes of V only, and no other node points into V.
Spares(V) ==
    \A n \in NodeId \ V :
        items'[n] = items[n] /\ depth'[n] = depth[n] /\ Children(n) \cap V = {}

\* The other nodes hold what they did.
LEMMA ContentsKept ==
    ASSUME Memory, Shallow, NEW V, Spares(V)
    PROVE  \A n \in NodeId \ V : Now'[n] = Now[n]
<1>1. PICK S : S = NodeId \ V
  OBVIOUS
<1>2. \A n \in S : Children(n) \subseteq NodeId
  <2> SUFFICES ASSUME NEW n \in S PROVE Children(n) \subseteq NodeId
    OBVIOUS
  <2>1. depth[n] # 1 => items[n] \in Seq(NodeId)
    BY <1>1 DEF Memory, TypeOK, NodesOK
  <2> QED  BY <2>1, ElementOfSeq DEF Children
<1>3. \A n \in S : Children(n) \subseteq S /\ items'[n] = items[n] /\ depth'[n] = depth[n]
  BY <1>1, <1>2 DEF Spares
<1>4. Treelike(items, depth, S)
  BY <1>1, <1>3, NodesTree
<1>5. \A n \in S : ContentsIn(items', depth')[n] = ContentsIn(items, depth)[n]
  BY <1>3, <1>4, ContentsSame
<1> QED
  BY <1>1, <1>5 DEF Now

-----------------------------------------------------------------------------
(* The path of a thread *)

\* A sequence without its last item.
LEMMA AllButLast ==
    ASSUME NEW S, NEW s \in Seq(S), s # <<>>, NEW p, p = SubSeq(s, 1, Len(s) - 1)
    PROVE  /\ p \in Seq(S) /\ Len(p) = Len(s) - 1 /\ Len(s) \in Nat \ {0}
           /\ \A j \in 1 .. Len(s) - 1 : p[j] = s[j]
<1>1. Len(s) \in Nat \ {0} /\ \A j \in 1 .. Len(s) : s[j] \in S
  BY LenProperties, ElementOfSeq, EmptySeq
<1>2. PICK n : n = Len(s) - 1
  OBVIOUS
<1>3. n \in Nat /\ \A j \in 1 .. n : s[j] \in S
  BY <1>1, <1>2
<1>4. /\ p \in Seq(S) /\ Len(p) = IF 1 <= n THEN n - 1 + 1 ELSE 0
      /\ \A j \in 1 .. n - 1 + 1 : p[j] = s[1 + j - 1]
  BY <1>2, <1>3, SubSeqProperties
<1>5. n - 1 + 1 = n /\ \A j \in 1 .. n : 1 + j - 1 = j
  BY <1>3
<1> QED
  BY <1>1, <1>2, <1>3, <1>4, <1>5

\* The frames of a thread name children.
LEMMA PathForks ==
    ASSUME Memory, NEW t \in Transients, Path(t)
    PROVE  /\ stack[t] \in Seq(FrameSet)
           /\ Forked(items, stack[t])
<1>1. stack[t] \in Seq(FrameSet) /\ NodesOK
  BY DEF Memory, TypeOK, ControlOK
<1>2. ASSUME NEW j \in 1 .. Len(stack[t]) PROVE Forks(items, stack[t][j])
  <2>1. stack[t][j] \in FrameSet
    BY <1>1, ElementOfSeq
  <2>2. PICK f \in FrameSet : f = stack[t][j]
    BY <2>1
  <2>3. f.node \in NodeId /\ f.index \in Nat /\ depth[f.node] > 1 /\ f.index < Len(items[f.node])
    BY <2>2 DEF Path, FrameSet
  <2>4. items[f.node] \in Seq(NodeId)
    <3>1. depth[f.node] # 1
      BY <2>3
    <3> QED  BY <1>1, <2>3, <3>1 DEF NodesOK
  <2>5. Len(items[f.node]) \in Nat
    BY <2>4, LenProperties
  <2>6. Forks(items, f)
    BY <2>3, <2>4, <2>5 DEF Forks
  <2> QED  BY <2>2, <2>6
<1> QED
  BY <1>1, <1>2 DEF Forked

\* What the tree holds is what is left of the node a thread is at on its way down,
\* below it, and right of it.
LEMMA DownHolds ==
    ASSUME Memory, Shallow, NEW t \in Transients, Path(t), pc[t] = "descend"
    PROVE  /\ LeftsIn(Now, items, stack[t]) \in Seq(Values)
           /\ RightsIn(Now, items, stack[t]) \in Seq(Values)
           /\ Now[root[t]] = (LeftsIn(Now, items, stack[t]) \o Now[at[t]])
                               \o RightsIn(Now, items, stack[t])
<1>1. PICK s, c, its : s = stack[t] /\ c = Now /\ its = items
  OBVIOUS
<1>2. s \in Seq(FrameSet) /\ Forked(its, s)
  BY <1>1, PathForks
<1>3. Len(s) \in Nat /\ Holding(c) /\ root[t] \in NodeId
  <2>1. root[t] \in Pointer /\ PhaseOK(t)
    BY DEF Memory, TypeOK, TreesOK, Handle
  <2>2. root[t] \in NodeId
    BY <2>1 DEF PhaseOK, Pointer
  <2> QED  BY <1>1, <1>2, <2>2, LenProperties, NowTree
<1> DEFINE Node(k) == IF k = 0 THEN root[t] ELSE its[s[k].node][s[k].index + 1]
           Agrees(p) == (LeftsIn(c, its, p) \o c[Node(Len(p))]) \o RightsIn(c, its, p)
           Ok(p) == /\ LeftsIn(c, its, p) \in Seq(Values) /\ RightsIn(c, its, p) \in Seq(Values)
                    /\ c[root[t]] = Agrees(p)
           T == {k \in 0 .. Len(s) : \A p \in Seq(FrameSet) :
                   Len(p) = k /\ (\A j \in 1 .. k : p[j] = s[j]) => Ok(p)}
<1>4. 0 \in T
  <2> SUFFICES ASSUME NEW p \in Seq(FrameSet), Len(p) = 0 PROVE Ok(p)
    BY <1>3
  <2>1. p = <<>>
    BY EmptySeq
  <2>2. LeftsIn(c, its, p) = <<>> /\ RightsIn(c, its, p) = <<>>
    <3>1. /\ [j \in 1 .. Len(p) |-> LeftIn(c, its, p[j])] = <<>>
          /\ [j \in 1 .. Len(p) |-> RightIn(c, its, p[Len(p) - j + 1])] = <<>>
      BY <2>1
    <3> QED  BY <3>1, FlatNone DEF LeftsIn, RightsIn
  <2>3. Node(Len(p)) = root[t]
    OBVIOUS
  <2>4. PICK x : x = c[root[t]]
    OBVIOUS
  <2>5. x \in Seq(Values)
    BY <1>3, <2>4 DEF Holding
  <2>6. <<>> \o x = x /\ x \o <<>> = x /\ <<>> \in Seq(Values)
    BY <2>5, NoneJoins, EmptySeq
  <2>7. (<<>> \o x) \o <<>> = x
    BY <2>6
  <2> QED  BY <2>2, <2>3, <2>4, <2>6, <2>7, Zenon
<1>5. ASSUME NEW k \in 0 .. Len(s) - 1, k \in T PROVE k + 1 \in T
  <2>0. k \in Nat /\ k + 1 \in 0 .. Len(s)
    BY <1>3
  <2> SUFFICES ASSUME NEW q \in Seq(FrameSet), Len(q) = k + 1, \A j \in 1 .. k + 1 : q[j] = s[j]
               PROVE  Ok(q)
    <3> HIDE DEF Ok
    <3> QED  BY <2>0, Zenon
  <2>1. PICK p, f : p = SubSeq(q, 1, Len(q) - 1) /\ f = q[Len(q)]
    OBVIOUS
  <2>2. q # <<>>
    BY EmptySeq
  <2>3. p \in Seq(FrameSet) /\ Len(p) = k /\ \A j \in 1 .. k : p[j] = s[j]
    <3>1. /\ p \in Seq(FrameSet) /\ Len(p) = Len(q) - 1
          /\ \A j \in 1 .. Len(q) - 1 : p[j] = q[j]
      BY <2>1, <2>2, AllButLast
    <3> QED  BY <3>1
  <2>4. Ok(p)
    BY <1>5, <2>3
  <2>5. f = s[k + 1] /\ Forks(its, f) /\ k + 1 \in 1 .. Len(s)
    BY <1>2, <1>3, <2>1 DEF Forked
  <2>6. f.node = Node(k) /\ depth[f.node] # 1
    <3>1. CASE k = 0
      <4>1. s # <<>> /\ k + 1 = 1 /\ f = s[1]
        BY <2>5, <3>1, EmptySeq
      <4> QED  BY <1>1, <2>5, <3>1, <4>1 DEF Path
    <3>2. CASE k # 0
      <4>1. k + 1 > 1 /\ (k + 1) - 1 = k
        BY <3>2
      <4>2. f.node = items[stack[t][k].node][stack[t][k].index + 1] /\ depth[f.node] > 1
        BY <1>1, <2>5, <4>1 DEF Path
      <4> QED  BY <1>1, <3>2, <4>2
    <3> QED  BY <3>1, <3>2
  <2>7. c[f.node] = Gathered(c, its[f.node]) /\ f.node \in NodeId
    <3>1. \A n \in NodeId : depth[n] # 1 => c[n] = Gathered(c, its[n])
      BY <1>1, NowTree
    <3>2. f.node \in NodeId
      BY <2>5 DEF Forks
    <3> QED  BY <2>6, <3>1, <3>2, Zenon
  <2>8. /\ its[f.node][f.index + 1] \in NodeId
        /\ c[f.node] = (LeftIn(c, its, f) \o c[its[f.node][f.index + 1]]) \o RightIn(c, its, f)
    <3>1. Around(c, its, f)
      BY <1>3, <2>5 DEF Around
    <3> HIDE DEF Node
    <3>2. /\ its[f.node][f.index + 1] \in NodeId
          /\ Gathered(c, its[f.node])
                = (LeftIn(c, its, f) \o c[its[f.node][f.index + 1]]) \o RightIn(c, its, f)
      BY <3>1, AroundChild, Zenon
    <3> QED  BY <2>7, <3>2, Zenon
  <2>9. PICK x : x = c[its[f.node][f.index + 1]]
    BY Zenon
  <2>10. x \in Strands
    BY <1>3, <2>8, <2>9 DEF Holding, Strands
  <2>11. Ends(c, its, q, p, f)
    <3>1. \A j \in 1 .. k + 1 : j \in 1 .. Len(s)
      BY <1>3
    <3>2. Forked(its, q)
      BY <1>2, <3>1 DEF Forked
    <3> QED  BY <1>3, <2>1, <2>2, <3>2, Zenon DEF Popped, Ends
  <2>12. /\ LeftsIn(c, its, q) \in Strands /\ RightsIn(c, its, q) \in Strands
         /\ (LeftsIn(c, its, p) \o ((LeftIn(c, its, f) \o x) \o RightIn(c, its, f)))
              \o RightsIn(c, its, p)
            = (LeftsIn(c, its, q) \o x) \o RightsIn(c, its, q)
    <3>1. /\ LeftsIn(c, its, q) \in Strands /\ RightsIn(c, its, q) \in Strands
          /\ \A m \in Strands :
                (LeftsIn(c, its, p) \o ((LeftIn(c, its, f) \o m) \o RightIn(c, its, f)))
                    \o RightsIn(c, its, p)
                  = (LeftsIn(c, its, q) \o m) \o RightsIn(c, its, q)
      <4>1. OneUp(c, its, q, p, f)
        BY <2>11, Deeper, Zenon
      <4> QED  BY <4>1, Zenon DEF OneUp
    <3> QED  BY <2>10, <3>1, Zenon
  <2>13. c[root[t]] = (LeftsIn(c, its, p) \o c[Node(k)]) \o RightsIn(c, its, p)
    BY <2>3, <2>4
  <2>14. c[Node(Len(q))] = x
    <3>1. Len(q) # 0 /\ s[Len(q)] = f
      BY <2>5
    <3> QED  BY <2>9, <3>1
  <2> HIDE DEF Node
  <2>15. c[root[t]] = (LeftsIn(c, its, q) \o x) \o RightsIn(c, its, q)
    BY <2>6, <2>8, <2>9, <2>12, <2>13, Zenon
  <2> QED  BY <2>12, <2>14, <2>15, Zenon DEF Strands
<1>6. Ok(s)
  <2> HIDE DEF T
  <2>1. \A k \in 0 .. Len(s) : k \in T
    BY <1>3, <1>4, <1>5, UpTo
  <2>2. Len(s) \in T
    BY <1>3, <2>1
  <2> HIDE DEF Ok
  <2> QED  BY <1>2, <2>2 DEF T
<1>7. Node(Len(s)) = at[t]
  <2>1. CASE s = <<>>
    BY <1>1, <2>1 DEF Path
  <2>2. CASE s # <<>>
    BY <1>1, <1>2, <2>2, EmptySeq DEF Path, Frame
  <2> QED  BY <2>1, <2>2
<1> QED
  <2> HIDE DEF Node
  <2> QED  BY <1>1, <1>6, <1>7, Zenon

-----------------------------------------------------------------------------
(* What an object holds *)

\* NewTip, Middle and Outlook of what nodes hold.
TipIn(its, s, p, r) ==
    IF p # Nil THEN p
    ELSE IF s = <<>> THEN r
    ELSE its[s[Len(s)].node][s[Len(s)].index + 1]

MiddleIn(c, phase, tip, rt) ==
    CASE phase = "replace" -> c[tip]
      [] phase = "split"   -> c[tip] \o c[rt]
      [] phase = "erase"   -> <<>>

OutlookIn(c, its, s, m) == (LeftsIn(c, its, s) \o m) \o RightsIn(c, its, s)

Climbing(phase) == phase \in {"replace", "split", "erase"}

HoldsIn(c, its, h, r, phase, s, m) ==
    IF r = Nil THEN <<>>
    ELSE IF h \in Transients /\ Climbing(phase) THEN OutlookIn(c, its, s, m)
    ELSE c[r]

LEMMA HoldsIs ==
    /\ \A n : Contents(n) = Now[n]
    /\ \A t : NewTip(t) = TipIn(items, stack[t], ptr[t], root[t])
    /\ \A t : Middle(t) = MiddleIn(Now, pc[t], NewTip(t), right[t])
    /\ \A h : Holds(h) = HoldsIn(Now, items, h, root[h], pc[h], stack[h], Middle(h))
<1>1. \A n : Contents(n) = Now[n]
  BY DEF Contents, Now
<1>2. \A t : NewTip(t) = TipIn(items, stack[t], ptr[t], root[t])
  BY DEF NewTip, TipIn, Frame
<1>3. \A t : Middle(t) = MiddleIn(Now, pc[t], NewTip(t), right[t])
  BY DEF Middle, MiddleIn, Contents, Now
<1>4. \A f : LeftOf(f) = LeftIn(Now, items, f) /\ RightOf(f) = RightIn(Now, items, f)
  BY DEF LeftOf, RightOf, LeftIn, RightIn, Beneath, Now
<1>5. \A s : Lefts(s) = LeftsIn(Now, items, s) /\ Rights(s) = RightsIn(Now, items, s)
  BY <1>4 DEF Lefts, Rights, LeftsIn, RightsIn
<1>6. \A t : Outlook(t) = OutlookIn(Now, items, stack[t], Middle(t))
  BY <1>5, Zenon DEF Outlook, OutlookIn
<1>7. \A h : Holds(h) = HoldsIn(Now, items, h, root[h], pc[h], stack[h], Middle(h))
  BY <1>1, <1>6, Zenon DEF Holds, HoldsIn, Climbing
<1> QED
  BY <1>1, <1>2, <1>3, <1>7

\* The same of the next state.
LEMMA HoldsIsNext ==
    (/\ \A n : Contents(n) = Now[n]
     /\ \A t : NewTip(t) = TipIn(items, stack[t], ptr[t], root[t])
     /\ \A t : Middle(t) = MiddleIn(Now, pc[t], NewTip(t), right[t])
     /\ \A h : Holds(h) = HoldsIn(Now, items, h, root[h], pc[h], stack[h], Middle(h)))'
<1>1. (\A n : Contents(n) = Now[n])'
  BY DEF Contents, Now
<1>2. (\A t : NewTip(t) = TipIn(items, stack[t], ptr[t], root[t]))'
  BY DEF NewTip, TipIn, Frame
<1>3. (\A t : Middle(t) = MiddleIn(Now, pc[t], NewTip(t), right[t]))'
  BY DEF Middle, MiddleIn, Contents, Now
<1>4. (\A f : LeftOf(f) = LeftIn(Now, items, f) /\ RightOf(f) = RightIn(Now, items, f))'
  BY DEF LeftOf, RightOf, LeftIn, RightIn, Beneath, Now
<1>5. (\A s : Lefts(s) = LeftsIn(Now, items, s) /\ Rights(s) = RightsIn(Now, items, s))'
  BY <1>4 DEF Lefts, Rights, LeftsIn, RightsIn
<1>6. (\A t : Outlook(t) = OutlookIn(Now, items, stack[t], Middle(t)))'
  BY <1>5, Zenon DEF Outlook, OutlookIn
<1>7. (\A h : Holds(h) = HoldsIn(Now, items, h, root[h], pc[h], stack[h], Middle(h)))'
  BY <1>1, <1>6, Zenon DEF Holds, HoldsIn, Climbing
<1> QED
  BY <1>1, <1>2, <1>3, <1>7

\* Object h, and what thread h is at if it is a Transient, are not touched by a step
\* that writes to the nodes of V.
Still(h) ==
    /\ root'[h] = root[h]
    /\ h \in Transients =>
         /\ pc'[h] = pc[h] /\ stack'[h] = stack[h]
         /\ ptr'[h] = ptr[h] /\ right'[h] = right[h]

Apart(V, h) ==
    /\ Still(h) /\ root[h] \notin V
    /\ h \in Transients =>
         /\ ptr[h] \notin V /\ right[h] \notin V
         /\ \A j \in 1 .. Len(stack[h]) : stack[h][j].node \notin V

\* It holds what it did.
LEMMA HoldsKept ==
    ASSUME Memory, Shallow, Threads, NEW V, Spares(V), NEW h \in Handle, Apart(V, h)
    PROVE  /\ Holds(h)' = Holds(h)
           /\ h \in Transients /\ pc[h] = "persist" => Contents(ptr[h])' = Contents(ptr[h])
<1>1. \A n \in NodeId \ V : Now'[n] = Now[n]
  BY ContentsKept
<1>2. /\ root'[h] = root[h] /\ root[h] \notin V
      /\ h \in Transients =>
           /\ pc'[h] = pc[h] /\ stack'[h] = stack[h]
           /\ ptr'[h] = ptr[h] /\ right'[h] = right[h]
           /\ ptr[h] \notin V /\ right[h] \notin V
           /\ \A j \in 1 .. Len(stack[h]) : stack[h][j].node \notin V
  BY DEF Apart, Still
<1>3. /\ root[h] \in Pointer
      /\ h \in Transients => ptr[h] \in Pointer /\ right[h] \in Pointer /\ PhaseOK(h)
  BY DEF Memory, TypeOK, TreesOK, ResultOK, Handle
<1>4. \A n \in Pointer \ V : n # Nil => Now'[n] = Now[n]
  BY <1>1 DEF Pointer
<1>5. ASSUME h \in Transients, pc[h] = "persist" PROVE Contents(ptr[h])' = Contents(ptr[h])
  <2>1. Results(h)
    BY <1>5 DEF Threads
  <2>2. ptr[h] # Nil
    BY <1>5, <2>1 DEF Results
  <2>3. Now'[ptr[h]] = Now[ptr[h]]
    BY <1>2, <1>3, <1>4, <1>5, <2>2
  <2>4. Contents(ptr[h]) = Now[ptr[h]] /\ Contents(ptr[h])' = Now'[ptr'[h]]
    BY DEF Contents, Now
  <2> QED  BY <1>2, <1>5, <2>3, <2>4
<1>6. CASE root[h] = Nil
  <2>1. Holds(h) = <<>> /\ Holds(h)' = <<>>
    BY <1>2, <1>6 DEF Holds
  <2> QED  BY <1>5, <2>1
<1>7. CASE root[h] # Nil /\ ~(h \in Transients /\ Climbing(pc[h]))
  <2>1. Holds(h) = Now[root[h]]
    BY <1>7, HoldsIs DEF HoldsIn
  <2>2. ~(h \in Transients /\ Climbing(pc'[h])) /\ root'[h] # Nil
    BY <1>2, <1>7
  <2>3. Holds(h)' = Now'[root'[h]]
    BY <2>2, HoldsIsNext DEF HoldsIn
  <2>4. Now'[root[h]] = Now[root[h]]
    BY <1>2, <1>3, <1>4, <1>7
  <2> QED  BY <1>2, <1>5, <2>1, <2>3, <2>4
<1>8. CASE root[h] # Nil /\ h \in Transients /\ Climbing(pc[h])
  <2>1. Path(h)
    BY <1>8 DEF Threads
  <2>2. PICK s : s = stack[h]
    BY Zenon
  <2>3. s \in Seq(FrameSet) /\ Forked(items, s) /\ stack'[h] = s
    BY <1>2, <1>8, <2>1, <2>2, PathForks
  <2>4. \A j \in 1 .. Len(s) : /\ s[j].node \in NodeId \ V /\ Forks(items, s[j])
                               /\ depth[s[j].node] # 1
    BY <1>2, <1>8, <2>1, <2>2, <2>3 DEF Forked, Forks, Path
  <2>5. \A j \in 1 .. Len(s) : \A k \in 1 .. Len(items[s[j].node]) :
            items[s[j].node][k] \in NodeId \ V
    <3> SUFFICES ASSUME NEW j \in 1 .. Len(s), NEW k \in 1 .. Len(items[s[j].node])
                 PROVE  items[s[j].node][k] \in NodeId \ V
      OBVIOUS
    <3>1. PICK n : n = s[j].node
      BY Zenon
    <3>2. n \in NodeId \ V /\ items[n] \in Seq(NodeId) /\ depth[n] # 1
      BY <2>4, <3>1 DEF Forks
    <3>3. items[n][k] \in Children(n) /\ items[n][k] \in NodeId
      BY <3>1, <3>2, ElementOfSeq DEF Children
    <3>4. items[n][k] \notin V
      BY <3>2, <3>3 DEF Spares
    <3> QED  BY <3>1, <3>3, <3>4
  <2>6. Beside(Now, Now', items, items', s)
    <3>1. \A j \in 1 .. Len(s) : items'[s[j].node] = items[s[j].node]
      BY <2>4 DEF Spares
    <3> QED  BY <1>1, <2>4, <2>5, <3>1 DEF Beside
  <2>7. LeftsIn(Now', items', s) = LeftsIn(Now, items, s) /\ RightsIn(Now', items', s) = RightsIn(Now, items, s)
    BY <2>6, SidesSame
  <2>8. NewTip(h)' = NewTip(h) /\ NewTip(h) \in NodeId \ V
    <3>1. CASE ptr[h] # Nil
      BY <1>2, <1>3, <1>8, <3>1 DEF NewTip, Pointer
    <3>2. CASE ptr[h] = Nil /\ s = <<>>
      BY <1>2, <1>3, <1>8, <2>2, <3>2 DEF NewTip, Pointer
    <3>3. CASE ptr[h] = Nil /\ s # <<>>
      <4>1. Len(s) \in 1 .. Len(s)
        BY <2>3, <3>3, EmptySeq, LenProperties
      <4>2. PICK f : f = s[Len(s)]
        BY Zenon
      <4>3. Forks(items, f) /\ f.node \in NodeId \ V
        BY <2>4, <4>1, <4>2
      <4>4. f.index + 1 \in 1 .. Len(items[f.node])
        BY <4>3, LenProperties DEF Forks
      <4>5. items[f.node][f.index + 1] \in NodeId \ V /\ items'[f.node] = items[f.node]
        BY <2>5, <4>1, <4>2, <4>3, <4>4 DEF Spares
      <4>6. NewTip(h) = items[f.node][f.index + 1] /\ NewTip(h)' = items'[f.node][f.index + 1]
        BY <1>2, <1>8, <2>2, <2>3, <3>3, <4>2 DEF NewTip, Frame
      <4> QED  BY <4>5, <4>6
    <3> QED  BY <3>1, <3>2, <3>3
  <2>9. pc[h] = "split" => right[h] \in NodeId \ V
    BY <1>2, <1>3, <1>8 DEF PhaseOK, Pointer
  <2>10. Middle(h)' = Middle(h)
    <3>1. Now'[NewTip(h)] = Now[NewTip(h)] /\ (pc[h] = "split" => Now'[right[h]] = Now[right[h]])
      BY <1>1, <2>8, <2>9
    <3>2. Middle(h) = MiddleIn(Now, pc[h], NewTip(h), right[h])
      BY HoldsIs
    <3>3. Middle(h)' = MiddleIn(Now', pc'[h], NewTip(h)', right'[h])
      BY HoldsIsNext
    <3>4. MiddleIn(Now', pc[h], NewTip(h), right[h]) = MiddleIn(Now, pc[h], NewTip(h), right[h])
      BY <1>8, <3>1 DEF MiddleIn, Climbing
    <3> QED  BY <1>2, <1>8, <2>8, <3>2, <3>3, <3>4
  <2>11. Holds(h) = OutlookIn(Now, items, s, Middle(h))
    BY <1>8, <2>2, HoldsIs DEF HoldsIn
  <2>12. Holds(h)' = OutlookIn(Now', items', s, Middle(h)')
    BY <1>2, <1>8, <2>3, HoldsIsNext DEF HoldsIn
  <2>13. Holds(h)' = Holds(h)
    BY <2>7, <2>10, <2>11, <2>12, Zenon DEF OutlookIn
  <2> QED  BY <1>5, <2>13
<1> QED
  BY <1>6, <1>7, <1>8

-----------------------------------------------------------------------------
(* What a step leaves alone *)

\* The nodes outside V are not written.
Spared(V) == \A n \in NodeId \ V : items'[n] = items[n] /\ depth'[n] = depth[n]

Lone(V) == Spared(V) /\ \A n \in V : n \in NodeId /\ Loose(n)

\* Nodes that nothing points to may be written.
LEMMA LoneApart ==
    ASSUME Memory, Threads, NEW V, Lone(V)
    PROVE  /\ Spares(V)
           /\ \A h \in Handle : Still(h) => Apart(V, h)
<1>1. Spares(V)
  <2> SUFFICES ASSUME NEW n \in NodeId \ V, NEW c \in Children(n), c \in V PROVE FALSE
    BY DEF Lone, Spared, Spares
  <2> QED  BY DEF Lone, Loose, Placed
<1>2. ASSUME NEW h \in Handle, Still(h) PROVE Apart(V, h)
  <2>1. root[h] \notin V
    BY DEF Lone, Loose, Placed
  <2>2. ASSUME h \in Transients
        PROVE  /\ ptr[h] \notin V /\ right[h] \notin V
               /\ \A j \in 1 .. Len(stack[h]) : stack[h][j].node \notin V
    <3>1. Path(h)
      BY <2>2 DEF Threads
    <3>2. \A j \in 1 .. Len(stack[h]) : Placed(stack[h][j].node)
      BY <2>2, <3>1, PathPlaced
    <3> QED  BY <2>2, <3>2 DEF Lone, Loose
  <2> QED  BY <1>2, <2>1, <2>2 DEF Apart
<1> QED
  BY <1>1, <1>2

\* The line of a thread is no other's.
LEMMA LineApart ==
    ASSUME NEW owner, MemInv(owner), NEW t \in Transients, Travels(t),
           NEW V, V = Line(t), Spared(V)
    PROVE  /\ Spares(V)
           /\ \A h \in Handle \ {t} : Still(h) => Apart(V, h)
<1>1. Memory /\ Threads /\ Owned(owner)
  BY DEF MemInv
<1>2. \A n \in V : n \in NodeId /\ (refs[n] = 0 \/ n \in OwnLine(t))
  BY DEF Line, OwnLine
<1>3. \A n \in NodeId : n \in V /\ refs[n] > 0 => n \in OwnLine(t) /\ owner[n] = t
  <2> SUFFICES ASSUME NEW n \in NodeId, n \in V, refs[n] > 0
               PROVE  n \in OwnLine(t) /\ owner[n] = t
    OBVIOUS
  <2>1. n \in OwnLine(t)
    BY <1>2
  <2> QED  BY <2>1, LineOwned
<1>4. Spares(V)
  <2> SUFFICES ASSUME NEW m \in NodeId \ V, NEW c \in Children(m), c \in V PROVE FALSE
    BY DEF Spared, Spares
  <2>1. items[m] \in Seq(NodeId) /\ depth[m] > 1
    BY <1>1 DEF Children, Memory, TypeOK, NodesOK
  <2>2. PICK k \in 1 .. Len(items[m]) : items[m][k] = c
    BY <2>1 DEF Children
  <2>3. c \in NodeId /\ refs[c] > 0
    BY <1>1, <1>2, AliveNow DEF Placed
  <2>4. c \in OwnLine(t)
    BY <1>3, <2>3
  <2>5. m \in OwnLine(t)
    BY <2>1, <2>2, <2>4, LineSlot
  <2> QED  BY <2>5 DEF Line
<1>5. ASSUME NEW h \in Handle \ {t}, Still(h) PROVE Apart(V, h)
  <2>1. \A n \in NodeId : owner[n] # t /\ refs[n] > 0 => n \notin V
    BY <1>3
  <2>2. Nil \notin V
    BY <1>2 DEF NodeId, Nil
  <2>3. root[h] \notin V
    <3>1. CASE root[h] \notin NodeId
      BY <1>2, <3>1
    <3>2. CASE root[h] \in NodeId
      <4>1. refs[root[h]] > 0
        BY <1>1, <3>2, AliveNow DEF Placed
      <4>2. CASE h \in Persistents
        BY <1>1, <2>1, <3>2, <4>1, <4>2, NoOneIsNoThread DEF Owned
      <4>3. CASE h \in Transients
        <5>1. Sees(owner, h, root[h])
          BY <1>1, <4>3 DEF Owned, Held
        <5> QED  BY <2>1, <3>2, <4>1, <5>1, NoOneIsNoThread DEF Sees
      <4> QED  BY <4>2, <4>3 DEF Handle
    <3> QED  BY <3>1, <3>2
  <2>4. ASSUME h \in Transients
        PROVE  /\ ptr[h] \notin V /\ right[h] \notin V
               /\ \A j \in 1 .. Len(stack[h]) : stack[h][j].node \notin V
    <3>1. Path(h) /\ Held(owner, h)
      BY <1>1, <2>4 DEF Threads, Owned
    <3>2. \A n \in NodeId : Sees(owner, h, n) /\ refs[n] > 0 => n \notin V
      BY <2>1, NoOneIsNoThread DEF Sees
    <3>3. ptr[h] \notin V /\ right[h] \notin V
      <4>1. ptr[h] \in NodeId => refs[ptr[h]] > 0
        BY <1>1, <2>4, AliveNow
      <4>2. right[h] \in NodeId => refs[right[h]] > 0
        BY <1>1, <2>4, AliveNow
      <4> QED  BY <1>2, <3>1, <3>2, <4>1, <4>2 DEF Held
    <3>4. ASSUME NEW j \in 1 .. Len(stack[h]) PROVE stack[h][j].node \notin V
      <4>1. stack[h][j].node \in NodeId /\ Placed(stack[h][j].node)
        BY <1>1, <2>4, <3>1, PathPlaced
      <4>2. refs[stack[h][j].node] > 0
        BY <1>1, <4>1, AliveNow
      <4> QED  BY <3>1, <3>2, <4>1, <4>2 DEF Held
    <3> QED  BY <3>3, <3>4
  <2> QED  BY <1>5, <2>3, <2>4 DEF Apart
<1> QED
  BY <1>4, <1>5

-----------------------------------------------------------------------------
(* The path of the thread that takes a step *)

OffWay(t, j, m, k) ==
    /\ j \in 1 .. Len(stack[t]) /\ m = stack[t][j].node
    /\ k \in 1 .. Len(items[m]) /\ k # stack[t][j].index + 1

\* The nodes of a path are of different levels.
LEMMA PathLevels ==
    ASSUME Memory, NEW t \in Transients, Path(t)
    PROVE  \A i, j \in 1 .. Len(stack[t]) : stack[t][i].node = stack[t][j].node => i = j
<1>1. Len(stack[t]) \in Nat /\ root[t] \in Pointer
  BY LenProperties DEF Memory, TypeOK, ControlOK, TreesOK, Handle
<1> SUFFICES ASSUME NEW i \in 1 .. Len(stack[t]), NEW j \in 1 .. Len(stack[t]),
                    stack[t][i].node = stack[t][j].node
             PROVE  i = j
  OBVIOUS
<1>2. /\ depth[stack[t][i].node] = depth[root[t]] - i + 1
      /\ depth[stack[t][j].node] = depth[root[t]] - j + 1
  BY DEF Path
<1>3. root[t] \in NodeId
  <2>1. stack[t] # <<>> /\ root[t] = stack[t][1].node
    BY <1>1, EmptySeq DEF Path
  <2> QED  BY <1>1, <2>1, PathPlaced
<1>4. depth[root[t]] \in Int
  BY <1>3 DEF Memory, TypeOK, NodesOK
<1> QED
  BY <1>1, <1>2, <1>4

\* A child that is not on the path is not of the line.
LEMMA OffPath ==
    ASSUME NEW owner, MemInv(owner), NEW t \in Transients, Travels(t),
           NEW j, NEW m, NEW k, OffWay(t, j, m, k)
    PROVE  items[m][k] \in NodeId \ Line(t)
<1>1. /\ Memory /\ Path(t)
      /\ j \in 1 .. Len(stack[t]) /\ m = stack[t][j].node
      /\ k \in 1 .. Len(items[m]) /\ k # stack[t][j].index + 1
  BY DEF MemInv, Threads, OffWay
<1>2. m \in NodeId /\ depth[m] > 1 /\ stack[t][j].index \in Nat
  <2>1. stack[t][j] \in FrameSet
    BY <1>1, ElementOfSeq DEF Memory, TypeOK, ControlOK
  <2> QED  BY <1>1, <2>1 DEF FrameSet, Path
<1>3. items[m] \in Seq(NodeId)
  BY <1>1, <1>2 DEF Memory, TypeOK, NodesOK
<1>4. PICK c : c = items[m][k]
  OBVIOUS
<1>5. c \in NodeId /\ c \in Children(m)
  BY <1>1, <1>2, <1>3, <1>4, ElementOfSeq DEF Children
<1>6. refs[c] > 0
  BY <1>1, <1>2, <1>5, AliveNow DEF Placed
<1>7. c \notin OwnLine(t)
  <2> SUFFICES ASSUME c \in OwnLine(t) PROVE FALSE
    OBVIOUS
  <2>1. Passes(stack[t], m, k)
    BY <1>1, <1>2, <1>4, LineSlot
  <2>2. PICK i \in 1 .. Len(stack[t]) : stack[t][i].node = m /\ stack[t][i].index = k - 1
    BY <2>1 DEF Passes
  <2>3. i = j
    BY <1>1, <2>2, PathLevels
  <2> QED  BY <1>1, <1>2, <1>3, <2>2, <2>3, LenProperties
<1> QED
  BY <1>4, <1>5, <1>6, <1>7 DEF Line

\* Thread t goes on from node n, and writes to nodes of its line only, none of which is
\* on its path but n.
Went(t, n) ==
    /\ Through(t, n) /\ ~Busy(t) /\ n \in NodeId /\ Spared(Line(t))
    /\ \A m \in NodeId : refs[m] > 0 /\ m # n => items'[m] = items[m]

\* What is left and right of the path that remains is as it was.
LEMMA WentBeside ==
    ASSUME NEW owner, MemInv(owner), Shallow, NEW t \in Transients, NEW n, Went(t, n)
    PROVE  /\ Travels(t) /\ Spares(Line(t))
           /\ \A m \in NodeId \ Line(t) : Now'[m] = Now[m]
           /\ Beside(Now, Now', items, items', stack'[t])
<1>1. Memory /\ Path(t) /\ Through(t, n) /\ n \in NodeId
  BY DEF MemInv, Threads, Went
<1>2. Travels(t)
  BY ThroughLine DEF Went
<1>3. Spares(Line(t))
  BY <1>2, LineApart DEF Went
<1>4. \A m \in NodeId \ Line(t) : Now'[m] = Now[m]
  BY <1>1, <1>3, ContentsKept
<1>5. /\ stack[t] \in Seq(FrameSet) /\ Len(stack[t]) \in Nat /\ Forked(items, stack[t])
      /\ stack \in [Transients -> Seq(FrameSet)]
  BY <1>1, PathForks, LenProperties DEF Memory, TypeOK, ControlOK
<1>6. \A j \in 1 .. Len(stack'[t]) :
        /\ j \in 1 .. Len(stack[t]) /\ stack'[t][j] = stack[t][j]
        /\ stack[t][j].node # n
  <2>1. CASE pc[t] = "descend" /\ n = at[t] /\ stack'[t] = stack[t]
    <3> SUFFICES ASSUME NEW j \in 1 .. Len(stack[t]), stack[t][j].node = n PROVE FALSE
      BY <2>1
    <3>1. depth[n] = Height(t) /\ depth[n] = depth[root[t]] - j + 1
      BY <1>1, <2>1 DEF Path
    <3>2. root[t] \in NodeId
      BY <1>1, PathPlaced, <2>1 DEF Memory, TypeOK, TreesOK, Handle, PhaseOK
    <3>3. depth[root[t]] \in Int
      BY <1>1, <3>2 DEF Memory, TypeOK, NodesOK
    <3> QED  BY <1>5, <3>1, <3>3 DEF Height
  <2>2. CASE stack[t] # <<>> /\ n = Frame(t).node /\ Pops(t)
    <3>1. stack'[t] = SubSeq(stack[t], 1, Len(stack[t]) - 1)
      BY <1>5, <2>2 DEF Pops
    <3>2. /\ Len(stack'[t]) = Len(stack[t]) - 1
          /\ \A j \in 1 .. Len(stack[t]) - 1 : stack'[t][j] = stack[t][j]
      <4>1. PICK s, p : s = stack[t] /\ p = SubSeq(s, 1, Len(s) - 1)
        OBVIOUS
      <4>2. s \in Seq(FrameSet) /\ s # <<>> /\ p = SubSeq(s, 1, Len(s) - 1)
        BY <1>5, <2>2, <4>1
      <4>3. Len(p) = Len(s) - 1 /\ \A j \in 1 .. Len(s) - 1 : p[j] = s[j]
        BY <4>2, AllButLast
      <4> QED  BY <3>1, <4>1, <4>3
    <3>3. Len(stack[t]) \in 1 .. Len(stack[t]) /\ n = stack[t][Len(stack[t])].node
      BY <1>1, <2>2, PathPlaced DEF Frame
    <3>4. \A j \in 1 .. Len(stack[t]) : stack[t][j].node = n => j = Len(stack[t])
      BY <1>1, <3>3, PathLevels
    <3> QED  BY <1>5, <3>2, <3>4
  <2> QED  BY <1>1, <2>1, <2>2 DEF Through
<1>7. Beside(Now, Now', items, items', stack'[t])
  <2> SUFFICES ASSUME NEW j \in 1 .. Len(stack'[t])
               PROVE  /\ Forks(items, stack'[t][j])
                      /\ items'[stack'[t][j].node] = items[stack'[t][j].node]
                      /\ \A k \in 1 .. Len(items[stack'[t][j].node]) :
                           k # stack'[t][j].index + 1 =>
                              Now'[items[stack'[t][j].node][k]] = Now[items[stack'[t][j].node][k]]
    BY DEF Beside
  <2>1. PICK m : m = stack[t][j].node
    OBVIOUS
  <2>2. j \in 1 .. Len(stack[t]) /\ stack'[t][j] = stack[t][j] /\ m # n
    BY <1>6, <2>1
  <2>3. m \in NodeId /\ refs[m] > 0
    BY <1>1, <2>1, <2>2, PathPlaced, AliveNow
  <2>4. items'[m] = items[m]
    BY <2>2, <2>3 DEF Went
  <2>5. \A k \in 1 .. Len(items[m]) : k # stack[t][j].index + 1 => Now'[items[m][k]] = Now[items[m][k]]
    BY <1>2, <1>4, <2>1, <2>2, OffPath DEF OffWay
  <2> QED  BY <1>5, <2>1, <2>2, <2>4, <2>5 DEF Forked
<1> QED
  BY <1>2, <1>3, <1>4, <1>7

-----------------------------------------------------------------------------
(* The continuation of an inner node *)

\* What takes the place of the child.
Mids(t) ==
    CASE pc[t] = "replace" -> <<NewTip(t)>>
      [] pc[t] = "split"   -> <<NewTip(t), right[t]>>
      [] pc[t] = "erase"   -> <<>>

\* It is not of the line.
LEMMA TipsAway ==
    ASSUME NEW owner, MemInv(owner), NEW t \in Transients, Travels(t),
           NEW phase, AtNode(t, phase), Climbing(phase)
    PROVE  /\ pc[t] = phase
           /\ phase # "erase" => NewTip(t) \in NodeId \ Line(t)
           /\ phase = "split" => right[t] \in NodeId \ Line(t)
<1>1. PICK n : n = Frame(t).node
  OBVIOUS
<1>2. /\ Memory /\ Path(t) /\ pc[t] = phase /\ stack[t] # <<>> /\ Len(stack[t]) \in Nat \ {0}
      /\ n \in NodeId /\ depth[n] = depth[root[t]] - Len(stack[t]) + 1 /\ root[t] \in NodeId
  BY <1>1, FrameHeld
<1>3. /\ \A m \in Children(n) : m \in NodeId /\ refs[m] > 0 /\ depth[n] = depth[m] + 1
      /\ FrameItem(t) \in Children(n)
      /\ \A m \in NodeId : m = ptr[t] \/ m = right[t] => refs[m] = 1 /\ ~Placed(m)
      /\ ptr[t] \in Pointer /\ right[t] \in Pointer
  <2>1. phase \in {"replace", "split", "erase"}
    BY DEF Climbing
  <2> QED  BY <1>1, <2>1, InnerHeld
<1>4. pc[t] # "descend"
  BY <1>2 DEF Climbing
<1>5. ASSUME NEW m \in NodeId, refs[m] > 0, ~Placed(m) PROVE m \notin Line(t)
  <2>1. \A j \in 1 .. Len(stack[t]) : Placed(stack[t][j].node)
    BY <1>2, PathPlaced
  <2> QED  BY <1>4, <1>5, <2>1 DEF Line, OwnLine
<1>6. FrameItem(t) \in NodeId \ Line(t)
  <2>1. /\ FrameItem(t) \in NodeId /\ refs[FrameItem(t)] > 0
        /\ depth[n] = depth[FrameItem(t)] + 1
    BY <1>3
  <2>2. ASSUME NEW j \in 1 .. Len(stack[t]) PROVE FrameItem(t) # stack[t][j].node
    <3>1. depth[stack[t][j].node] = depth[root[t]] - j + 1
      BY <1>2 DEF Path
    <3>2. depth[root[t]] \in Nat /\ depth[FrameItem(t)] \in Nat
      BY <1>2, <2>1 DEF Memory, TypeOK, NodesOK
    <3>3. PICK r, d, l : r = depth[root[t]] /\ d = depth[FrameItem(t)] /\ l = Len(stack[t])
      OBVIOUS
    <3>4. r \in Nat /\ d \in Nat /\ l \in Nat /\ r - l + 1 = d + 1 /\ j \in 1 .. l
      BY <1>2, <2>1, <3>2, <3>3
    <3>5. r - j + 1 # d
      BY <3>4
    <3> QED  BY <3>1, <3>3, <3>5
  <2> QED  BY <1>4, <2>1, <2>2 DEF Line, OwnLine
<1>7. phase # "erase" => NewTip(t) \in NodeId \ Line(t)
  <2>1. CASE ptr[t] # Nil
    <3>1. ptr[t] \in NodeId /\ refs[ptr[t]] > 0 /\ ~Placed(ptr[t])
      BY <1>3, <2>1 DEF Pointer
    <3> QED  BY <1>5, <2>1, <3>1 DEF NewTip
  <2>2. CASE ptr[t] = Nil
    BY <1>2, <1>6, <2>2 DEF NewTip, FrameItem
  <2> QED  BY <2>1, <2>2
<1>8. phase = "split" => right[t] \in NodeId \ Line(t)
  <2> SUFFICES ASSUME phase = "split" PROVE right[t] \in NodeId \ Line(t)
    OBVIOUS
  <2>1. PhaseOK(t)
    BY <1>2 DEF Memory, TypeOK
  <2>2. right[t] \in NodeId
    BY <1>2, <1>3, <2>1 DEF PhaseOK, Pointer
  <2>3. refs[right[t]] > 0 /\ ~Placed(right[t])
    BY <1>3, <2>2
  <2> QED  BY <1>5, <2>2, <2>3
<1> QED
  BY <1>2, <1>7, <1>8

\* One node, or two, hold what each of them does.
LEMMA GatheredPair ==
    ASSUME NEW c, NEW x \in NodeId, NEW y \in NodeId, Holding(c)
    PROVE  /\ Gathered(c, <<x>>) = c[x] /\ Gathered(c, <<x, y>>) = c[x] \o c[y]
           /\ c[x] \in Strands /\ c[y] \in Strands /\ c[x] \o c[y] \in Strands
           /\ <<x>> \in Seq(NodeId) /\ <<x, y>> \in Seq(NodeId)
<1>1. c[x] \in Strands /\ c[y] \in Strands
  BY DEF Holding, Strands
<1>2. Gathered(c, <<x>>) = c[x] /\ Gathered(c, <<y>>) = c[y]
  BY <1>1, GatheredOne DEF Strands
<1>3. PICK a, b, ab : a = <<x>> /\ b = <<y>> /\ ab = a \o b
  OBVIOUS
<1>4. a \in Seq(NodeId) /\ b \in Seq(NodeId) /\ ab = <<x, y>> /\ ab \in Seq(NodeId)
  <2>1. a \in Seq(NodeId) /\ b \in Seq(NodeId)
    BY <1>3
  <2>2. /\ ab \in Seq(NodeId) /\ Len(ab) = 2 /\ ab[1] = x /\ ab[2] = y
    BY <1>3, <2>1, ConcatProperties
  <2> QED  BY <2>1, <2>2
<1>5. Joining(c, a, b, ab)
  BY <1>3, <1>4 DEF Joining
<1>6. Joint(c, a, b, ab)
  BY <1>5, GatheredJoin, Zenon
<1>7. Gathered(c, ab) = c[x] \o c[y]
  BY <1>2, <1>3, <1>6, Zenon DEF Joint
<1>8. c[x] \o c[y] \in Strands
  BY <1>1, StrandsJoin, Zenon
<1> QED
  BY <1>1, <1>2, <1>3, <1>4, <1>7, <1>8

\* Nodes that hold the middle.
LEMMA MidsHold ==
    ASSUME NEW owner, MemInv(owner), Shallow, Memory', Shallow', NEW t \in Transients,
           NEW phase, AtNode(t, phase), Climbing(phase), Went(t, Frame(t).node)
    PROVE  /\ Mids(t) \in Seq(NodeId) /\ Middle(t) \in Strands
           /\ Gathered(Now', Mids(t)) = Middle(t)
<1>1. Travels(t) /\ \A m \in NodeId \ Line(t) : Now'[m] = Now[m]
  BY WentBeside
<1>2. /\ pc[t] = phase
      /\ phase # "erase" => NewTip(t) \in NodeId \ Line(t)
      /\ phase = "split" => right[t] \in NodeId \ Line(t)
  BY <1>1, TipsAway
<1>3. Holding(Now) /\ Holding(Now')
  BY NowTree, NowTreeNext DEF MemInv, Holding
<1>4. Middle(t) = MiddleIn(Now, pc[t], NewTip(t), right[t])
  BY HoldsIs
<1>5. PICK x, y, d : x = NewTip(t) /\ y = right[t] /\ d = Now'
  BY Zenon
<1>6. CASE phase = "replace"
  <2>1. Middle(t) = d[x] /\ Mids(t) = <<x>> /\ x \in NodeId
    BY <1>1, <1>2, <1>4, <1>5, <1>6 DEF MiddleIn, Mids
  <2>2. Gathered(d, <<x>>) = d[x] /\ d[x] \in Strands /\ <<x>> \in Seq(NodeId)
    BY <1>3, <1>5, <2>1, GatheredPair
  <2> QED  BY <1>5, <2>1, <2>2
<1>7. CASE phase = "split"
  <2>1. Now'[x] = Now[x] /\ Now'[y] = Now[y] /\ x \in NodeId /\ y \in NodeId
    BY <1>1, <1>2, <1>5, <1>7
  <2>2. Middle(t) = d[x] \o d[y] /\ Mids(t) = <<x, y>>
    BY <1>2, <1>4, <1>5, <1>7, <2>1 DEF MiddleIn, Mids
  <2>3. Holding(d)
    BY <1>3, <1>5
  <2>4. Gathered(d, <<x, y>>) = d[x] \o d[y] /\ d[x] \o d[y] \in Strands /\ <<x, y>> \in Seq(NodeId)
    BY <2>1, <2>3, GatheredPair
  <2> QED  BY <1>5, <2>2, <2>4, Zenon
<1>8. CASE phase = "erase"
  <2>1. Middle(t) = <<>> /\ Mids(t) = <<>>
    BY <1>2, <1>4, <1>8 DEF MiddleIn, Mids
  <2> QED  BY <2>1, GatheredNone, StrandsJoin
<1> QED
  BY <1>6, <1>7, <1>8 DEF Climbing

\* The children of the node, with the middle in the place of the one on the path.
Turning(t, f, a, b, all) ==
    /\ f = Frame(t)
    /\ a = SubSeq(items[f.node], 1, f.index)
    /\ b = SubSeq(items[f.node], f.index + 2, Len(items[f.node]))
    /\ all = (a \o Mids(t)) \o b

Turns(t, f, all) ==
    Gathered(Now', all) = (LeftIn(Now, items, f) \o Middle(t)) \o RightIn(Now, items, f)

LEMMA Turned ==
    ASSUME NEW owner, MemInv(owner), Shallow, Memory', Shallow', NEW t \in Transients,
           NEW phase, AtNode(t, phase), Climbing(phase), Went(t, Frame(t).node),
           NEW f, NEW a, NEW b, NEW all, Turning(t, f, a, b, all)
    PROVE  all \in Seq(NodeId) /\ Turns(t, f, all)
<1>1. /\ f = Frame(t)
      /\ a = SubSeq(items[f.node], 1, f.index)
      /\ b = SubSeq(items[f.node], f.index + 2, Len(items[f.node]))
      /\ all = (a \o Mids(t)) \o b
  BY DEF Turning
<1>2. Travels(t) /\ \A m \in NodeId \ Line(t) : Now'[m] = Now[m]
  BY WentBeside
<1>3. Memory /\ Path(t) /\ f = stack[t][Len(stack[t])] /\ Len(stack[t]) \in 1 .. Len(stack[t])
  <2>1. /\ Memory /\ Path(t) /\ Frame(t) = stack[t][Len(stack[t])]
        /\ Len(stack[t]) \in Nat \ {0}
    BY FrameHeld
  <2>2. Len(stack[t]) \in 1 .. Len(stack[t])
    BY <2>1
  <2> QED  BY <1>1, <2>1, <2>2, Zenon
<1>4. Forks(items, f)
  <2>1. Forked(items, stack[t])
    BY <1>3, PathForks
  <2> QED  BY <1>3, <2>1 DEF Forked
<1>5. BesideOf(Now, Now', items, items, f)
  <2>1. ASSUME NEW k \in 1 .. Len(items[f.node]), k # f.index + 1
        PROVE  Now'[items[f.node][k]] = Now[items[f.node][k]]
    <3>1. PICK j, n : j = Len(stack[t]) /\ n = f.node
      OBVIOUS
    <3>2. OffWay(t, j, n, k)
      BY <1>3, <2>1, <3>1 DEF OffWay
    <3>3. items[n][k] \in NodeId \ Line(t)
      BY <1>2, <3>2, OffPath
    <3> QED  BY <1>2, <3>1, <3>3
  <2> QED  BY <1>4, <2>1 DEF BesideOf
<1>6. PICK c, d, its : c = Now /\ d = Now' /\ its = items
  OBVIOUS
<1>7. SideAlike(c, d, its, its, f)
  <2>1. BesideOf(c, d, its, its, f)
    BY <1>5, <1>6
  <2> QED  BY <2>1, SideSame, Zenon
<1>8. PICK m, am : m = Mids(t) /\ am = a \o m
  BY Zenon
<1>9. m \in Seq(NodeId) /\ Middle(t) \in Strands /\ Gathered(d, m) = Middle(t)
  <2>1. /\ Mids(t) \in Seq(NodeId) /\ Middle(t) \in Strands
        /\ Gathered(Now', Mids(t)) = Middle(t)
    BY <1>1, MidsHold
  <2> QED  BY <1>6, <1>8, <2>1
<1>10. a \in Seq(NodeId) /\ b \in Seq(NodeId)
  <2>1. PICK s, i : s = items[f.node] /\ i = f.index
    OBVIOUS
  <2>2. s \in Seq(NodeId) /\ i \in 0 .. Len(s) - 1
    BY <1>4, <2>1 DEF Forks
  <2>3. SubSeq(s, 1, i) \in Seq(NodeId) /\ SubSeq(s, i + 2, Len(s)) \in Seq(NodeId)
    BY <2>2, CutAround
  <2> QED  BY <1>1, <2>1, <2>3
<1>11. am \in Seq(NodeId) /\ all \in Seq(NodeId) /\ all = am \o b
  BY <1>1, <1>8, <1>9, <1>10, Joins
<1>12. Holding(d)
  BY <1>6, NowTreeNext DEF Holding
<1>13. Joint(d, a, m, am)
  <2>1. Joining(d, a, m, am)
    BY <1>8, <1>9, <1>10, <1>12, Zenon DEF Joining
  <2> QED  BY <2>1, GatheredJoin, Zenon
<1>14. Joint(d, am, b, all)
  <2>1. Joining(d, am, b, all)
    BY <1>10, <1>11, <1>12, Zenon DEF Joining
  <2> QED  BY <2>1, GatheredJoin, Zenon
<1>15. Gathered(d, a) = LeftIn(d, its, f) /\ Gathered(d, b) = RightIn(d, its, f)
  BY <1>1, <1>6, Zenon DEF LeftIn, RightIn
<1>16. Gathered(d, all) = (LeftIn(c, its, f) \o Middle(t)) \o RightIn(c, its, f)
  BY <1>7, <1>9, <1>13, <1>14, <1>15, Zenon DEF SideAlike, Joint
<1> QED
  BY <1>6, <1>11, <1>16, Zenon DEF Turns

\* The tree holds what it did when the middle of the next step is that.
LEMMA LevelHolds ==
    ASSUME NEW owner, MemInv(owner), Shallow, NEW t \in Transients,
           NEW phase, AtNode(t, phase), Climbing(phase), Went(t, Frame(t).node),
           NEW f, f = Frame(t), root'[t] = root[t], Climbing(pc'[t]),
           Middle(t) \in Strands,
           Middle(t)' = (LeftIn(Now, items, f) \o Middle(t)) \o RightIn(Now, items, f)
    PROVE  Holds(t)' = Holds(t)
<1>1. /\ Memory /\ Path(t) /\ pc[t] = phase /\ stack[t] # <<>> /\ root[t] # Nil
      /\ f = stack[t][Len(stack[t])]
  <2>1. root[t] \in NodeId
    BY FrameHeld
  <2> QED  BY <2>1, FrameHeld DEF NodeId, Nil
<1>2. PICK c, its, s, p : c = Now /\ its = items /\ s = stack[t] /\ p = SubSeq(s, 1, Len(s) - 1)
  OBVIOUS
<1>3. stack'[t] = p
  <2>1. pc[t] # "descend"
    BY <1>1 DEF Climbing
  <2>2. Pops(t)
    BY <2>1 DEF Went, Through
  <2> QED  BY <1>1, <1>2, <2>2, PoppedFrames
<1>4. OneUp(c, its, s, p, f)
  <2>1. s \in Seq(FrameSet) /\ Forked(its, s)
    BY <1>1, <1>2, PathForks
  <2>2. Holding(c)
    BY <1>1, <1>2, NowTree
  <2>3. Popped(s, p, f)
    BY <1>1, <1>2, <2>1 DEF Popped
  <2>4. Ends(c, its, s, p, f)
    BY <2>1, <2>2, <2>3 DEF Ends
  <2> QED  BY <2>4, Deeper, Zenon
<1>5. PICK d, its2 : d = Now' /\ its2 = items'
  OBVIOUS
<1>6. LeftsIn(d, its2, p) = LeftsIn(c, its, p) /\ RightsIn(d, its2, p) = RightsIn(c, its, p)
  <2>1. Beside(Now, Now', items, items', stack'[t])
    BY WentBeside
  <2>2. Beside(c, d, its, its2, p)
    BY <1>2, <1>3, <1>5, <2>1
  <2> QED  BY <2>2, SidesSame
<1>7. PICK m, m2 : m = Middle(t) /\ m2 = Middle(t)'
  BY Zenon
<1>8. Holds(t) = (LeftsIn(c, its, s) \o m) \o RightsIn(c, its, s)
  <2>1. Holds(t) = OutlookIn(Now, items, stack[t], Middle(t))
    BY <1>1, HoldsIs DEF HoldsIn, Handle
  <2> QED  BY <1>2, <1>7, <2>1, Zenon DEF OutlookIn
<1>9. Holds(t)' = (LeftsIn(d, its2, p) \o m2) \o RightsIn(d, its2, p)
  <2>1. Holds(t)' = OutlookIn(Now', items', stack'[t], Middle(t)')
    BY <1>1, HoldsIsNext DEF HoldsIn, Handle
  <2> QED  BY <1>3, <1>5, <1>7, <2>1, Zenon DEF OutlookIn
<1>10. m2 = (LeftIn(c, its, f) \o m) \o RightIn(c, its, f) /\ m \in Strands
  BY <1>2, <1>7, Zenon
<1>11. (LeftsIn(c, its, p) \o ((LeftIn(c, its, f) \o m) \o RightIn(c, its, f))) \o RightsIn(c, its, p)
         = (LeftsIn(c, its, s) \o m) \o RightsIn(c, its, s)
  BY <1>4, <1>10, Zenon DEF OneUp
<1> QED
  BY <1>6, <1>8, <1>9, <1>10, <1>11, Zenon

-----------------------------------------------------------------------------
(* A node that a thread writes to *)

\* The new version of node n is dst, and R is a right half, if there is one.
Writing(t, n, dst, R) ==
    /\ R \subseteq FreeNodes /\ dst \in NodeId /\ Rewrites(n, dst, R)
    /\ Makes({dst} \cup R, depth[n])
    /\ \A m \in NodeId \ ({dst} \cup R) : items'[m] = items[m]
    /\ Through(t, n) /\ ~Busy(t)
    /\ root'[t] = root[t] /\ ptr'[t] = Changed(n, dst)

LEMMA WritingWent ==
    ASSUME NEW owner, MemInv(owner), NEW t \in Transients,
           NEW n \in NodeId, refs[n] > 0, NEW dst, NEW R, Writing(t, n, dst, R)
    PROVE  /\ Went(t, n)
           /\ \A m \in {dst} \cup R : m \in NodeId /\ depth'[m] = depth[n]
<1>1. Memory /\ Through(t, n) /\ ~Busy(t) /\ R \subseteq FreeNodes
  BY DEF MemInv, Writing
<1>2. R \subseteq Line(t) /\ \A m \in R : m \in NodeId /\ refs[m] = 0
  BY <1>1, FreeFacts DEF Line
<1>3. IF persistent[n] THEN dst \in FreeNodes ELSE dst = n
  BY DEF Writing, Rewrites, Allocates
<1>4. dst \in Line(t) /\ dst \in NodeId /\ (dst = n \/ refs[dst] = 0)
  <2>1. CASE persistent[n]
    BY <1>1, <1>3, <2>1, FreeFacts DEF Line
  <2>2. CASE ~persistent[n]
    <3>1. n \in OwnLine(t)
      BY <1>1, <2>2, ThroughLine
    <3> QED  BY <1>3, <2>2, <3>1 DEF Line
  <2> QED  BY <2>1, <2>2
<1>5. Spared(Line(t))
  <2> SUFFICES ASSUME NEW m \in NodeId \ Line(t)
               PROVE  items'[m] = items[m] /\ depth'[m] = depth[m]
    BY DEF Spared
  <2>1. m \notin {dst} \cup R
    BY <1>2, <1>4
  <2> QED  BY <2>1 DEF Writing, Makes
<1>6. \A m \in NodeId : refs[m] > 0 /\ m # n => items'[m] = items[m]
  <2> SUFFICES ASSUME NEW m \in NodeId, refs[m] > 0, m # n PROVE items'[m] = items[m]
    OBVIOUS
  <2>1. m \notin {dst} \cup R
    BY <1>2, <1>4
  <2> QED  BY <2>1 DEF Writing
<1>7. \A m \in {dst} \cup R : m \in NodeId /\ depth'[m] = depth[n]
  BY <1>2, <1>4 DEF Writing, Makes
<1> QED
  BY <1>1, <1>5, <1>6, <1>7 DEF Went

\* It is where the thread goes on.
LEMMA WritingTip ==
    ASSUME NEW owner, MemInv(owner), Shallow, NEW t \in Transients,
           NEW n \in NodeId, refs[n] > 0, NEW dst, NEW R, Writing(t, n, dst, R)
    PROVE  NewTip(t)' = dst
<1>1. /\ Memory /\ Path(t) /\ stack[t] \in Seq(FrameSet)
      /\ root'[t] = root[t] /\ ptr'[t] = Changed(n, dst) /\ dst \in NodeId /\ Through(t, n)
      /\ stack \in [Transients -> Seq(FrameSet)]
  BY DEF MemInv, Threads, Writing, Memory, TypeOK, ControlOK
<1>2. NewTip(t)' = TipIn(items', stack'[t], ptr'[t], root'[t])
  BY HoldsIsNext
<1>3. CASE persistent[n]
  <2>1. ptr'[t] = dst /\ dst # Nil
    BY <1>1, <1>3 DEF Changed, NodeId, Nil
  <2> QED  BY <1>2, <2>1 DEF TipIn
<1>4. CASE ~persistent[n]
  <2>1. ptr'[t] = Nil /\ dst = n
    BY <1>1, <1>4 DEF Changed, Writing, Rewrites
  <2>2. PICK p : p = stack'[t]
    BY Zenon
  <2>3. \A j \in 1 .. Len(p) : items'[p[j].node] = items[p[j].node]
    <3>1. Went(t, n)
      BY WritingWent
    <3>2. Beside(Now, Now', items, items', stack'[t])
      BY <3>1, WentBeside
    <3> QED  BY <2>2, <3>2 DEF Beside
  <2>4. CASE pc[t] = "descend" /\ n = at[t] /\ stack'[t] = stack[t]
    <3>1. CASE p = <<>>
      BY <1>1, <1>2, <2>1, <2>2, <2>4, <3>1 DEF TipIn, Path
    <3>2. CASE p # <<>>
      <4>1. Len(p) \in 1 .. Len(p) /\ Frame(t) = p[Len(p)]
        BY <1>1, <2>2, <2>4, <3>2, PathPlaced
      <4>2. at[t] = items[p[Len(p)].node][p[Len(p)].index + 1]
        BY <1>1, <2>2, <2>4, <3>2, <4>1 DEF Path
      <4> QED  BY <1>2, <2>1, <2>2, <2>3, <2>4, <3>2, <4>1, <4>2 DEF TipIn
    <3> QED  BY <3>1, <3>2
  <2>5. CASE stack[t] # <<>> /\ n = Frame(t).node /\ Pops(t)
    <3>1. PICK s, l : s = stack[t] /\ l = Len(s)
      OBVIOUS
    <3>2. /\ l \in Nat \ {0} /\ Len(p) = l - 1 /\ n = s[l].node
          /\ \A k \in 1 .. Len(p) : p[k] = s[k]
      BY <1>1, <2>2, <2>5, <3>1, PoppedFrames DEF Frame
    <3>3. CASE p = <<>>
      <4>1. l = 1
        BY <3>2, <3>3
      <4> QED  BY <1>1, <1>2, <2>1, <2>2, <2>5, <3>1, <3>2, <3>3, <4>1 DEF TipIn, Path
    <3>4. CASE p # <<>>
      <4>1. p \in Seq(FrameSet)
        <5>1. PICK q : q = SubSeq(s, 1, Len(s) - 1)
          OBVIOUS
        <5>2. s \in Seq(FrameSet) /\ s # <<>>
          BY <1>1, <2>5, <3>1
        <5>3. q \in Seq(FrameSet)
          BY <5>1, <5>2, AllButLast
        <5> QED  BY <1>1, <2>2, <2>5, <3>1, <5>1, <5>3 DEF Pops
      <4>2. Len(p) # 0
        BY <3>4, <4>1, EmptySeq
      <4>3. l - 1 \in 1 .. Len(p) /\ l \in 1 .. Len(s) /\ l > 1 /\ Len(p) = l - 1
        <5>1. PICK k : k = Len(p)
          OBVIOUS
        <5>2. l \in Nat \ {0} /\ k = l - 1 /\ k # 0 /\ l = Len(s)
          BY <3>1, <3>2, <4>2, <5>1
        <5>3. l - 1 \in 1 .. k /\ l \in 1 .. l /\ l > 1
          BY <5>2
        <5> QED  BY <5>1, <5>2, <5>3
      <4>4. s[l].node = items[s[l - 1].node][s[l - 1].index + 1]
        BY <1>1, <3>1, <4>3 DEF Path
      <4>5. p[Len(p)] = s[l - 1]
        BY <3>2, <4>3
      <4>6. items'[p[Len(p)].node] = items[p[Len(p)].node]
        BY <2>3, <4>3
      <4> QED  BY <1>2, <2>1, <2>2, <3>2, <3>4, <4>4, <4>5, <4>6 DEF TipIn
    <3> QED  BY <3>3, <3>4
  <2> QED  BY <1>1, <2>4, <2>5 DEF Through
<1> QED
  BY <1>3, <1>4

\* A continuation that calls do_replace: the node's new version has the middle in the
\* place of the child.
LEMMA ReplaceTurns ==
    ASSUME NEW owner, MemInv(owner), Shallow, Memory', Shallow', NEW t \in Transients,
           NEW phase, AtNode(t, phase), Climbing(phase),
           NEW dst, Writing(t, Frame(t).node, dst, {}), pc'[t] = "replace",
           NEW f, NEW a, NEW b, Turning(t, f, a, b, items'[dst])
    PROVE  Holds(t)' = Holds(t)
<1>1. PICK n : n = Frame(t).node
  OBVIOUS
<1>2. n \in NodeId /\ refs[n] > 0 /\ root'[t] = root[t] /\ depth[n] > 1
  BY <1>1, FrameHeld DEF AtNode, Writing
<1>3. Went(t, n) /\ depth'[dst] = depth[n] /\ dst \in NodeId
  BY <1>1, <1>2, WritingWent
<1>4. NewTip(t)' = dst
  BY <1>1, <1>2, WritingTip
<1>5. Now'[dst] = Gathered(Now', items'[dst])
  BY <1>2, <1>3, NowTreeNext
<1>6. Middle(t)' = Now'[dst]
  <2>1. Middle(t)' = MiddleIn(Now', pc'[t], NewTip(t)', right'[t])
    BY HoldsIsNext
  <2> QED  BY <1>4, <2>1 DEF MiddleIn
<1>7. Turns(t, f, items'[dst]) /\ f = Frame(t)
  BY <1>1, <1>3, Turned DEF Turning
<1>8. Middle(t) \in Strands
  BY <1>1, <1>3, MidsHold
<1>9. Middle(t)' = (LeftIn(Now, items, f) \o Middle(t)) \o RightIn(Now, items, f)
  BY <1>5, <1>6, <1>7, Zenon DEF Turns
<1> QED
  BY <1>1, <1>2, <1>3, <1>7, <1>8, <1>9, LevelHolds DEF Climbing

\* One that calls do_split: the two halves have it.
LEMMA SplitTurns ==
    ASSUME NEW owner, MemInv(owner), Shallow, Memory', Shallow', NEW t \in Transients,
           NEW phase, AtNode(t, phase), Climbing(phase),
           NEW dst, NEW r, Writing(t, Frame(t).node, dst, {r}),
           pc'[t] = "split", right'[t] = r,
           NEW f, NEW a, NEW b, NEW all, Turning(t, f, a, b, all),
           all = items'[dst] \o items'[r]
    PROVE  Holds(t)' = Holds(t)
<1>1. PICK n : n = Frame(t).node
  OBVIOUS
<1>2. n \in NodeId /\ refs[n] > 0 /\ root'[t] = root[t] /\ depth[n] > 1
  BY <1>1, FrameHeld DEF AtNode, Writing
<1>3. /\ Went(t, n) /\ depth'[dst] = depth[n] /\ dst \in NodeId
      /\ depth'[r] = depth[n] /\ r \in NodeId
  BY <1>1, <1>2, WritingWent
<1>4. NewTip(t)' = dst
  BY <1>1, <1>2, WritingTip
<1>5. PICK d, x, y : d = Now' /\ x = items'[dst] /\ y = items'[r]
  OBVIOUS
<1>6. /\ d[dst] = Gathered(d, x) /\ d[r] = Gathered(d, y)
      /\ x \in Seq(NodeId) /\ y \in Seq(NodeId) /\ Holding(d)
  BY <1>2, <1>3, <1>5, NowTreeNext DEF Holding
<1>7. Middle(t)' = d[dst] \o d[r]
  <2>1. Middle(t)' = MiddleIn(Now', pc'[t], NewTip(t)', right'[t])
    BY HoldsIsNext
  <2> QED  BY <1>4, <1>5, <2>1 DEF MiddleIn
<1>8. Gathered(d, all) = d[dst] \o d[r]
  <2>1. Joining(d, x, y, all)
    BY <1>5, <1>6 DEF Joining
  <2>2. Joint(d, x, y, all)
    BY <2>1, GatheredJoin, Zenon
  <2> QED  BY <1>6, <2>2, Zenon DEF Joint
<1>9. Turns(t, f, all) /\ f = Frame(t)
  BY <1>1, <1>3, Turned DEF Turning
<1>10. Middle(t) \in Strands
  BY <1>1, <1>3, MidsHold
<1>11. Middle(t)' = (LeftIn(Now, items, f) \o Middle(t)) \o RightIn(Now, items, f)
  BY <1>5, <1>7, <1>8, <1>9, Zenon DEF Turns
<1> QED
  BY <1>1, <1>2, <1>3, <1>9, <1>10, <1>11, LevelHolds DEF Climbing

-----------------------------------------------------------------------------
(* Arrays, cut in pieces *)

Flanked(S, a, b, w) == a \in Seq(S) /\ b \in Seq(S) /\ w = a \o b

LEMMA FlankItems ==
    ASSUME NEW S, NEW a, NEW b, NEW w, Flanked(S, a, b, w)
    PROVE  /\ w \in Seq(S) /\ Len(a) \in Nat /\ Len(b) \in Nat /\ Len(w) = Len(a) + Len(b)
           /\ \A k \in 1 .. Len(a) : w[k] = a[k] /\ a[k] \in S
           /\ \A k \in 1 .. Len(b) : w[Len(a) + k] = b[k] /\ b[k] \in S
<1>1. a \in Seq(S) /\ b \in Seq(S) /\ w = a \o b
  BY DEF Flanked
<1>2. /\ w \in Seq(S) /\ Len(w) = Len(a) + Len(b)
      /\ \A k \in 1 .. Len(a) + Len(b) : w[k] = IF k <= Len(a) THEN a[k] ELSE b[k - Len(a)]
  BY <1>1, ConcatProperties
<1>3. PICK l, m : l = Len(a) /\ m = Len(b)
  OBVIOUS
<1>4. l \in Nat /\ m \in Nat
  BY <1>1, <1>3, LenProperties
<1>5. \A k \in 1 .. l : k \in 1 .. l + m /\ k <= l
  BY <1>4
<1>6. \A k \in 1 .. m : l + k \in 1 .. l + m /\ ~(l + k <= l) /\ (l + k) - l = k
  BY <1>4
<1>7. /\ \A k \in 1 .. l : w[k] = a[k]
      /\ \A k \in 1 .. m : w[l + k] = b[k]
  BY <1>2, <1>3, <1>5, <1>6
<1>8. (\A k \in 1 .. l : a[k] \in S) /\ (\A k \in 1 .. m : b[k] \in S)
  BY <1>1, <1>3, ElementOfSeq
<1> QED
  BY <1>2, <1>3, <1>4, <1>7, <1>8

\* The two pieces.
LEMMA FlankCuts ==
    ASSUME NEW S, NEW a, NEW b, NEW w, Flanked(S, a, b, w)
    PROVE  SubSeq(w, 1, Len(a)) = a /\ SubSeq(w, Len(a) + 1, Len(w)) = b
<1>1. a \in Seq(S) /\ b \in Seq(S)
  BY DEF Flanked
<1>2. PICK l, m : l = Len(a) /\ m = Len(b)
  OBVIOUS
<1>3. /\ w \in Seq(S) /\ l \in Nat /\ m \in Nat /\ Len(w) = l + m
      /\ \A k \in 1 .. l : w[k] = a[k] /\ a[k] \in S
      /\ \A k \in 1 .. m : w[l + k] = b[k] /\ b[k] \in S
  BY <1>2, FlankItems
<1>4. SubSeq(w, 1, l) = a
  <2>1. PICK x : x = SubSeq(w, 1, l)
    OBVIOUS
  <2>2. \A k \in 1 .. l : w[k] \in S
    BY <1>3
  <2>3. /\ x \in Seq(S) /\ Len(x) = (IF 1 <= l THEN l - 1 + 1 ELSE 0)
        /\ \A k \in 1 .. l - 1 + 1 : x[k] = w[1 + k - 1]
    BY <1>3, <2>1, <2>2, SubSeqProperties
  <2>4. Len(x) = l /\ \A k \in 1 .. l : x[k] = a[k]
    BY <1>3, <2>3
  <2>5. x = a
    BY <1>1, <1>2, <2>3, <2>4, SeqEqual
  <2> QED  BY <2>1, <2>5
<1>5. SubSeq(w, l + 1, Len(w)) = b
  <2>1. PICK x, i, n : i = l + 1 /\ n = l + m /\ x = SubSeq(w, i, n)
    OBVIOUS
  <2>2. i \in Int /\ n \in Int /\ \A k \in i .. n : w[k] \in S
    <3>1. \A k \in i .. n : k - l \in 1 .. m /\ l + (k - l) = k
      BY <1>3, <2>1
    <3> QED  BY <1>3, <2>1, <3>1
  <2>3. /\ x \in Seq(S) /\ Len(x) = (IF i <= n THEN n - i + 1 ELSE 0)
        /\ \A k \in 1 .. n - i + 1 : x[k] = w[i + k - 1]
    <3>1. w \in Seq(S) /\ x = SubSeq(w, i, n)
      BY <1>3, <2>1
    <3> QED  BY <2>2, <3>1, SubSeqProperties
  <2>4. Len(x) = m /\ n - i + 1 = m /\ \A k \in 1 .. m : i + k - 1 = l + k
    BY <1>3, <2>1, <2>3
  <2>5. \A k \in 1 .. m : x[k] = b[k]
    BY <1>3, <2>3, <2>4
  <2>6. x = b
    BY <1>1, <1>2, <2>3, <2>4, <2>5, SeqEqual
  <2> QED  BY <1>3, <2>1, <2>6
<1> QED
  BY <1>2, <1>4, <1>5

\* An item between two pieces.
Sandwiched(S, a, e, b, w) ==
    a \in Seq(S) /\ b \in Seq(S) /\ e \in S /\ w = (a \o <<e>>) \o b

LEMMA SandwichItems ==
    ASSUME NEW S, NEW a, NEW e, NEW b, NEW w, Sandwiched(S, a, e, b, w)
    PROVE  /\ w \in Seq(S) /\ Len(a) \in Nat /\ Len(b) \in Nat /\ Len(w) = Len(a) + 1 + Len(b)
           /\ a \o <<e>> \in Seq(S) /\ Len(a \o <<e>>) = Len(a) + 1
           /\ \A k \in 1 .. Len(a) : w[k] = a[k]
           /\ w[Len(a) + 1] = e
           /\ \A k \in 1 .. Len(b) : w[Len(a) + 1 + k] = b[k]
<1>1. a \in Seq(S) /\ b \in Seq(S) /\ e \in S /\ w = (a \o <<e>>) \o b
  BY DEF Sandwiched
<1>2. PICK o, p : o = <<e>> /\ p = a \o o
  OBVIOUS
<1>3. o \in Seq(S) /\ Len(o) = 1 /\ o[1] = e
  BY <1>1, <1>2
<1>4. Flanked(S, a, o, p)
  BY <1>1, <1>2, <1>3 DEF Flanked
<1>5. /\ p \in Seq(S) /\ Len(a) \in Nat /\ Len(p) = Len(a) + Len(o)
      /\ \A k \in 1 .. Len(a) : p[k] = a[k]
      /\ \A k \in 1 .. Len(o) : p[Len(a) + k] = o[k]
  BY <1>4, FlankItems
<1>6. Flanked(S, p, b, w)
  BY <1>1, <1>2, <1>5, Zenon DEF Flanked
<1>7. /\ w \in Seq(S) /\ Len(p) \in Nat /\ Len(b) \in Nat /\ Len(w) = Len(p) + Len(b)
      /\ \A k \in 1 .. Len(p) : w[k] = p[k]
      /\ \A k \in 1 .. Len(b) : w[Len(p) + k] = b[k]
  BY <1>6, FlankItems
<1>8. Len(p) = Len(a) + 1 /\ p[Len(a) + 1] = e
  BY <1>3, <1>5
<1>9. PICK l : l = Len(a)
  OBVIOUS
<1>10. l \in Nat /\ l + 1 \in 1 .. l + 1 /\ \A k \in 1 .. l : k \in 1 .. l + 1
  BY <1>5, <1>9
<1>11. w[l + 1] = e /\ \A k \in 1 .. l : w[k] = a[k]
  BY <1>5, <1>7, <1>8, <1>9, <1>10
<1> QED
  BY <1>2, <1>5, <1>7, <1>8, <1>9, <1>11

\* The pieces of these three.
Pieces(a, e, b, w) ==
    /\ SubSeq(w, 1, Len(a)) = a /\ SubSeq(w, Len(a) + 2, Len(w)) = b
    /\ SubSeq(w, 1, Len(a) + 1) = a \o <<e>>

LEMMA SandwichCuts ==
    ASSUME NEW S, NEW a, NEW e, NEW b, NEW w, Sandwiched(S, a, e, b, w)
    PROVE  Pieces(a, e, b, w)
<1>1. a \in Seq(S) /\ b \in Seq(S) /\ e \in S /\ w = (a \o <<e>>) \o b
  BY DEF Sandwiched
<1>2. PICK o, p, q : o = <<e>> /\ p = a \o o /\ q = o \o b
  OBVIOUS
<1>3. o \in Seq(S) /\ q \in Seq(S)
  <2>1. o \in Seq(S)
    BY <1>1, <1>2
  <2> QED  BY <1>1, <1>2, <2>1, Joins
<1>4. Len(a) \in Nat /\ Len(a \o <<e>>) = Len(a) + 1 /\ a \o <<e>> \in Seq(S)
  BY SandwichItems
<1>5. SubSeq(w, 1, Len(p)) = p /\ SubSeq(w, Len(p) + 1, Len(w)) = b
  <2>1. Flanked(S, p, b, w)
    BY <1>1, <1>2, <1>4, Zenon DEF Flanked
  <2> QED  BY <2>1, FlankCuts
<1>6. SubSeq(w, 1, Len(a)) = a
  <2>1. w = a \o q
    BY <1>1, <1>2, <1>3, ConcatAssociative
  <2>2. Flanked(S, a, q, w)
    BY <1>1, <1>3, <2>1 DEF Flanked
  <2> QED  BY <2>2, FlankCuts
<1>7. Len(p) = Len(a) + 1 /\ Len(p) + 1 = Len(a) + 2
  BY <1>2, <1>4
<1> QED
  BY <1>2, <1>5, <1>6, <1>7, Zenon DEF Pieces

\* An array around item i.
Cut(S, s, i, a, b) ==
    /\ s \in Seq(S) /\ i \in 0 .. Len(s) - 1
    /\ a = SubSeq(s, 1, i) /\ b = SubSeq(s, i + 2, Len(s))

CutAt(S, s, i) == s \in Seq(S) /\ i \in 0 .. Len(s) - 1
CutUp(S, s, i, a, b) == Sandwiched(S, a, s[i + 1], b, s) /\ Len(a) = i /\ i \in Nat

LEMMA CutUpAt ==
    ASSUME NEW S, NEW s, NEW i, CutAt(S, s, i)
    PROVE  CutUp(S, s, i, SubSeq(s, 1, i), SubSeq(s, i + 2, Len(s)))
<1>1. s \in Seq(S) /\ i \in 0 .. Len(s) - 1
  BY DEF CutAt
<1>2. i \in Nat
  BY <1>1
<1>3. /\ SubSeq(s, 1, i) \in Seq(S) /\ Len(SubSeq(s, 1, i)) = i
      /\ SubSeq(s, i + 2, Len(s)) \in Seq(S)
      /\ s[i + 1] \in S
      /\ s = (SubSeq(s, 1, i) \o <<s[i + 1]>>) \o SubSeq(s, i + 2, Len(s))
  BY <1>1, CutAround, ZenonT(60)
<1> QED
  BY <1>2, <1>3, Zenon DEF CutUp, Sandwiched

LEMMA CutSandwich ==
    ASSUME NEW S, NEW s, NEW i, NEW a, NEW b, Cut(S, s, i, a, b)
    PROVE  \E x : Sandwiched(S, a, x, b, s) /\ Len(a) = i /\ i \in Nat
<1>1. CutAt(S, s, i)
  BY DEF Cut, CutAt
<1>2. a = SubSeq(s, 1, i) /\ b = SubSeq(s, i + 2, Len(s))
  BY DEF Cut
<1>3. CutUp(S, s, i, SubSeq(s, 1, i), SubSeq(s, i + 2, Len(s)))
  BY <1>1, CutUpAt, Zenon
<1>4. CutUp(S, s, i, a, b)
  BY <1>2, <1>3, Zenon
<1> QED
  BY <1>4, Zenon DEF CutUp

\* Another item in its place,
CutWith(S, s, i, a, b, y)  == Cut(S, s, i, a, b) /\ y \in S
InPlace(s, i, a, b, y)     == ReplaceItem(s, i, y) = (a \o <<y>>) \o b

LEMMA CutReplace ==
    ASSUME NEW S, NEW s, NEW i, NEW a, NEW b, NEW y, CutWith(S, s, i, a, b, y)
    PROVE  InPlace(s, i, a, b, y)
<1> USE DEF InPlace
<1>00. Cut(S, s, i, a, b) /\ y \in S
  BY DEF CutWith
<1>0. PICK x : Sandwiched(S, a, x, b, s) /\ Len(a) = i /\ i \in Nat
  BY <1>00, CutSandwich
<1>1. s \in Seq(S) /\ i \in 0 .. Len(s) - 1 /\ Len(a) = i
  BY <1>0, <1>00 DEF Cut
<1>2. PICK r, w : r = ReplaceItem(s, i, y) /\ w = (a \o <<y>>) \o b
  OBVIOUS
<1>3. Sandwiched(S, a, y, b, w) /\ Sandwiched(S, a, x, b, s)
  BY <1>0, <1>00, <1>2, Zenon DEF Sandwiched
<1>4. /\ s \in Seq(S) /\ Len(a) \in Nat /\ Len(b) \in Nat /\ Len(s) = Len(a) + 1 + Len(b)
      /\ \A k \in 1 .. Len(a) : s[k] = a[k]
      /\ \A k \in 1 .. Len(b) : s[Len(a) + 1 + k] = b[k]
  BY <1>3, SandwichItems
<1>5. /\ w \in Seq(S) /\ Len(w) = Len(a) + 1 + Len(b)
      /\ \A k \in 1 .. Len(a) : w[k] = a[k]
      /\ w[Len(a) + 1] = y
      /\ \A k \in 1 .. Len(b) : w[Len(a) + 1 + k] = b[k]
  BY <1>3, SandwichItems
<1>6. /\ r \in Seq(S) /\ Len(r) = Len(s)
      /\ \A k \in 1 .. Len(s) : r[k] = IF k = i + 1 THEN y ELSE s[k]
  <2>1. s \in Seq(S) /\ i \in 0 .. Len(s) - 1 /\ y \in S
    BY <1>1, <1>00
  <2>2. /\ ReplaceItem(s, i, y) \in Seq(S) /\ Len(ReplaceItem(s, i, y)) = Len(s)
        /\ \A k \in 1 .. Len(s) : ReplaceItem(s, i, y)[k] = IF k = i + 1 THEN y ELSE s[k]
    BY <2>1, ReplaceItemProperties
  <2> QED  BY <1>2, <2>2, Zenon
<1>7. PICK m, n : m = Len(b) /\ n = Len(s)
  OBVIOUS
<1>8. i \in Nat /\ m \in Nat /\ n = i + 1 + m
  BY <1>1, <1>4, <1>7
<1>9. ASSUME NEW k \in 1 .. n PROVE r[k] = w[k]
  <2>1. CASE k <= i
    BY <1>1, <1>4, <1>5, <1>6, <1>7, <1>8, <2>1
  <2>2. CASE k = i + 1
    BY <1>1, <1>5, <1>6, <1>7, <2>2
  <2>3. CASE k > i + 1
    <3>1. k - (i + 1) \in 1 .. m /\ i + 1 + (k - (i + 1)) = k /\ k # i + 1
      BY <1>8, <2>3
    <3> QED  BY <1>1, <1>4, <1>5, <1>6, <1>7, <3>1
  <2> QED  BY <1>8, <2>1, <2>2, <2>3
<1>10. Len(r) = Len(w) /\ \A k \in 1 .. Len(r) : r[k] = w[k]
  BY <1>1, <1>4, <1>5, <1>6, <1>7, <1>9
<1>11. r = w
  BY <1>5, <1>6, <1>10, SeqEqual
<1> QED
  BY <1>2, <1>11

\* or none,
Removed(s, i, a, b) == EraseItem(s, i) = a \o b

LEMMA CutErase ==
    ASSUME NEW S, NEW s, NEW i, NEW a, NEW b, Cut(S, s, i, a, b)
    PROVE  Removed(s, i, a, b)
<1> USE DEF Removed
<1>0. PICK x : Sandwiched(S, a, x, b, s)
  BY CutSandwich
<1>1. a = SubSeq(s, 1, i) /\ b = SubSeq(s, i + 2, Len(s))
  BY DEF Cut
<1>2. a \in Seq(S) /\ b \in Seq(S)
  BY <1>0 DEF Sandwiched
<1>3. Len(a) \in Nat /\ Len(b) \in Nat /\ Len(s) = Len(a) + 1 + Len(b)
  BY <1>0, SandwichItems
<1>4. PICK w : w = a \o b
  OBVIOUS
<1>5. w \in Seq(S) /\ Len(w) = Len(a) + Len(b)
  BY <1>2, <1>4, Joins
<1>6. PICK n : n = Len(s) - 1
  OBVIOUS
<1>7. n = Len(w) /\ n \in Nat
  BY <1>3, <1>5, <1>6
<1>8. EraseItem(s, i) = SubSeq(w, 1, n)
  BY <1>1, <1>4, <1>6, Zenon DEF EraseItem
<1>9. SubSeq(w, 1, Len(w)) = w
  <2>1. PICK e : e = <<>>
    OBVIOUS
  <2>2. Flanked(S, w, e, w)
    BY <1>5, <2>1, NoneJoins DEF Flanked
  <2> QED  BY <2>2, FlankCuts
<1> QED
  BY <1>4, <1>7, <1>8, <1>9

\* or two.
CutWithTwo(S, s, i, a, b, y, z) == Cut(S, s, i, a, b) /\ y \in S /\ z \in S
TwoInPlace(s, i, a, b, y, z)    == SplitChild(s, i, y, z) = (a \o <<y, z>>) \o b

LEMMA CutSplit ==
    ASSUME NEW S, NEW s, NEW i, NEW a, NEW b, NEW y, NEW z, CutWithTwo(S, s, i, a, b, y, z)
    PROVE  TwoInPlace(s, i, a, b, y, z)
<1> USE DEF TwoInPlace
<1>0. Cut(S, s, i, a, b) /\ y \in S /\ z \in S
  BY DEF CutWithTwo
<1>1. PICK x0 : Sandwiched(S, a, x0, b, s) /\ Len(a) = i /\ i \in Nat
  BY <1>0, CutSandwich
<1>2. PICK w, p : w = ReplaceItem(s, i, y) /\ p = a \o <<y>>
  OBVIOUS
<1>3. w = (a \o <<y>>) \o b
  <2>1. CutWith(S, s, i, a, b, y)
    BY <1>0 DEF CutWith
  <2>2. InPlace(s, i, a, b, y)
    BY <2>1, CutReplace, Zenon
  <2> QED  BY <1>2, <2>2, Zenon DEF InPlace
<1>4. Sandwiched(S, a, y, b, w)
  BY <1>0, <1>1, <1>3, Zenon DEF Sandwiched
<1>5. SubSeq(w, 1, i + 1) = p /\ SubSeq(w, (i + 1) + 1, Len(w)) = b
  <2>0. Pieces(a, y, b, w)
    BY <1>4, SandwichCuts, Zenon
  <2>1. /\ SubSeq(w, Len(a) + 2, Len(w)) = b
        /\ SubSeq(w, 1, Len(a) + 1) = a \o <<y>>
    BY <2>0, Zenon DEF Pieces
  <2>2. Len(a) + 2 = (i + 1) + 1
    BY <1>1
  <2> QED  BY <1>1, <1>2, <2>1, <2>2
<1>6. SplitChild(s, i, y, z) = (p \o <<z>>) \o b
  BY <1>2, <1>5, Zenon DEF SplitChild, InsertItem
<1>7. p \o <<z>> = a \o <<y, z>>
  <2>1. a \in Seq(S)
    BY <1>4 DEF Sandwiched
  <2>2. PICK u, v, x : u = <<y>> /\ v = <<z>> /\ x = <<y, z>>
    OBVIOUS
  <2>3. u \in Seq(S) /\ v \in Seq(S)
    BY <1>0, <2>2
  <2>4. u \o v = x
    <3>1. x \in Seq(S) /\ Len(x) = 2 /\ x[1] = y /\ x[2] = z
      BY <1>0, <2>2
    <3>2. u \o v \in Seq(S) /\ Len(u \o v) = 2 /\ (u \o v)[1] = y /\ (u \o v)[2] = z
      BY <2>2, <2>3, ConcatProperties
    <3>3. Len(u \o v) = Len(x) /\ \A k \in 1 .. Len(u \o v) : (u \o v)[k] = x[k]
      BY <3>1, <3>2
    <3> QED  BY <3>1, <3>2, <3>3, SeqEqual
  <2>5. (a \o u) \o v = a \o (u \o v)
    BY <2>1, <2>3, ConcatAssociative
  <2> QED  BY <1>2, <2>2, <2>4, <2>5
<1> QED
  BY <1>6, <1>7

\* One more item.
LongerByOne(S, s, new) == new \in Seq(S) /\ Len(new) = Len(s) + 1

LEMMA SplitLonger ==
    ASSUME NEW S, NEW s, NEW i, NEW a, NEW b, NEW y, NEW z, CutWithTwo(S, s, i, a, b, y, z)
    PROVE  LongerByOne(S, s, SplitChild(s, i, y, z))
<1>1. s \in Seq(S) /\ i \in 0 .. Len(s) - 1 /\ y \in S /\ z \in S
  BY DEF CutWithTwo, Cut
<1> QED
  BY <1>1, SplitChildProperties DEF LongerByOne

InsertsAt(S, s, i, y) == s \in Seq(S) /\ i \in 0 .. Len(s) /\ y \in S

LEMMA InsertLonger ==
    ASSUME NEW S, NEW s, NEW i, NEW y, InsertsAt(S, s, i, y)
    PROVE  LongerByOne(S, s, InsertItem(s, i, y))
BY InsertItemProperties DEF InsertsAt, LongerByOne

\* An array of one item has nothing around it.
CutAlone(S, s, i, a, b) == Cut(S, s, i, a, b) /\ Len(s) = 1

LEMMA CutEmpty ==
    ASSUME NEW S, NEW s, NEW i, NEW a, NEW b, CutAlone(S, s, i, a, b)
    PROVE  a = <<>> /\ b = <<>>
<1>1. PICK x : Sandwiched(S, a, x, b, s)
  BY CutSandwich DEF CutAlone
<1>2. Len(a) \in Nat /\ Len(b) \in Nat /\ Len(s) = Len(a) + 1 + Len(b)
  BY <1>1, SandwichItems
<1>3. PICK l, m : l = Len(a) /\ m = Len(b)
  OBVIOUS
<1>4. l = 0 /\ m = 0
  <2>1. l \in Nat /\ m \in Nat /\ 1 = l + 1 + m
    BY <1>2, <1>3 DEF CutAlone
  <2> QED  BY <2>1
<1> QED
  BY <1>1, <1>3, <1>4, EmptySeq DEF Sandwiched

-----------------------------------------------------------------------------
(* The continuations of inner nodes *)

\* The array a continuation is called for, around the child of its frame.
Parting(t, phase, n, i, a, b) ==
    /\ t \in Transients /\ AtNode(t, phase) /\ Climbing(phase)
    /\ n = Frame(t).node /\ i = Frame(t).index
    /\ a = SubSeq(items[n], 1, i) /\ b = SubSeq(items[n], i + 2, Len(items[n]))

Parted(t, phase, n, i, a, b) ==
    /\ Cut(NodeId, items[n], i, a, b) /\ pc[t] = phase
    /\ n \in NodeId /\ refs[n] > 0
    /\ phase # "erase" => NewTip(t) \in NodeId
    /\ phase = "split" => right[t] \in NodeId
    /\ NewTip(t) = SplitLeft(t, n, i)

LEMMA FrameCut ==
    ASSUME NEW owner, MemInv(owner), NEW t, NEW phase, NEW n, NEW i, NEW a, NEW b,
           Parting(t, phase, n, i, a, b)
    PROVE  Parted(t, phase, n, i, a, b)
<1>0. PICK f : f = Frame(t) /\ n = f.node /\ i = f.index
  BY DEF Parting
<1>00. /\ t \in Transients /\ AtNode(t, phase) /\ Climbing(phase)
       /\ a = SubSeq(items[n], 1, i) /\ b = SubSeq(items[n], i + 2, Len(items[n]))
  BY DEF Parting
<1>1. /\ Memory /\ Path(t) /\ pc[t] = phase /\ ~Busy(t) /\ stack[t] # <<>>
      /\ f.node \in NodeId /\ refs[f.node] > 0
  BY <1>0, <1>00, FrameHeld
<1>2. items[f.node] \in Seq(NodeId)
  BY <1>0, <1>00, InnerHeld DEF Climbing
<1>3. f.index \in 0 .. Len(items[f.node]) - 1
  <2>1. Forked(items, stack[t])
    BY <1>00, <1>1, PathForks
  <2>2. f = stack[t][Len(stack[t])] /\ Len(stack[t]) \in 1 .. Len(stack[t])
    BY <1>0, <1>00, <1>1, PathPlaced
  <2> QED  BY <2>1, <2>2 DEF Forked, Forks
<1>4. Travels(t)
  BY <1>00, <1>1 DEF Travels, Climbing
<1>5. /\ phase # "erase" => NewTip(t) \in NodeId
      /\ phase = "split" => right[t] \in NodeId
  BY <1>00, <1>4, TipsAway
<1>6. NewTip(t) = SplitLeft(t, f.node, f.index)
  BY <1>0, <1>1 DEF NewTip, SplitLeft
<1> QED
  BY <1>0, <1>00, <1>1, <1>2, <1>3, <1>5, <1>6 DEF Cut, Parted

\* InternalNode::replace.
LEMMA InternalReplaceHolds ==
    ASSUME NEW owner, MemInv(owner), Shallow, Memory', Shallow', NEW t \in Transients,
           InternalReplace(t)
    PROVE  Holds(t)' = Holds(t)
<1>0. PICK n, i, f : n = Frame(t).node /\ i = Frame(t).index /\ f = Frame(t)
  OBVIOUS
<1>1. AtNode(t, "replace") /\ Pops(t) /\ UNCHANGED root
  BY DEF InternalReplace, trees
<1>2. PICK dst \in NodeId :
        /\ Rewrites(n, dst, {})
        /\ items' = [items EXCEPT ![dst] =
                       IF ptr[t] = Nil THEN items[n]
                       ELSE ReplaceItem(items[n], i, ptr[t])]
        /\ Makes({dst}, depth[n])
        /\ CallReplace(t, Changed(n, dst), carry[t] /\ i = Len(items[n]) - 1)
  BY <1>0 DEF InternalReplace
<1>3. PICK a, b : /\ a = SubSeq(items[f.node], 1, f.index)
                  /\ b = SubSeq(items[f.node], f.index + 2, Len(items[f.node]))
  OBVIOUS
<1>4. /\ Cut(NodeId, items[n], i, a, b) /\ pc[t] = "replace" /\ n \in NodeId
      /\ NewTip(t) \in NodeId /\ NewTip(t) = SplitLeft(t, n, i)
  <2>1. Parting(t, "replace", n, i, a, b)
    BY <1>0, <1>1, <1>3 DEF Parting, Climbing
  <2>2. Parted(t, "replace", n, i, a, b)
    BY <2>1, FrameCut, Zenon
  <2> QED  BY <2>2 DEF Parted
<1>5. PICK tip : tip = NewTip(t)
  OBVIOUS
<1>6. items'[dst] = (a \o <<tip>>) \o b
  <2>0. items \in [NodeId -> Seq(Values) \cup Seq(NodeId)]
    BY DEF MemInv, Memory, TypeOK, NodesOK
  <2>1. CASE ptr[t] = Nil
    <3>1. items'[dst] = items[n] /\ tip = items[n][i + 1]
      BY <1>2, <1>4, <1>5, <2>0, <2>1 DEF SplitLeft
    <3>2. CutAt(NodeId, items[n], i) /\ a = SubSeq(items[n], 1, i)
            /\ b = SubSeq(items[n], i + 2, Len(items[n]))
      BY <1>4 DEF Cut, CutAt
    <3>3. CutUp(NodeId, items[n], i, a, b)
      BY <3>2, CutUpAt, Zenon
    <3>4. Sandwiched(NodeId, a, tip, b, items[n])
      BY <3>1, <3>3, Zenon DEF CutUp
    <3> QED  BY <3>1, <3>4, Zenon DEF Sandwiched
  <2>2. CASE ptr[t] # Nil
    <3>1. items'[dst] = ReplaceItem(items[n], i, tip)
      BY <1>2, <1>4, <1>5, <2>0, <2>2 DEF SplitLeft
    <3>2. CutWith(NodeId, items[n], i, a, b, tip)
      BY <1>4, <1>5 DEF CutWith
    <3>3. InPlace(items[n], i, a, b, tip)
      BY <3>2, CutReplace, Zenon
    <3> QED  BY <3>1, <3>3, Zenon DEF InPlace
  <2> QED  BY <2>1, <2>2
<1>7. Turning(t, f, a, b, items'[dst])
  <2>1. Mids(t) = <<tip>>
    BY <1>4, <1>5 DEF Mids
  <2> QED  BY <1>0, <1>3, <1>6, <2>1, Zenon DEF Turning
<1>8. Writing(t, n, dst, {}) /\ pc'[t] = "replace"
  <2>1. t \in DOMAIN pc /\ t \in DOMAIN ptr /\ ~Busy(t) /\ stack[t] # <<>>
    BY <1>1 DEF MemInv, Memory, TypeOK, ControlOK, ResultOK, AtNode
  <2>2. pc'[t] = "replace" /\ ptr'[t] = Changed(n, dst)
    BY <1>2, <2>1 DEF CallReplace
  <2>3. Through(t, n)
    BY <1>0, <1>1, <1>4, <2>1 DEF Through
  <2>4. {dst} \cup {} = {dst} /\ {} \subseteq FreeNodes
    OBVIOUS
  <2>5. \A m \in NodeId \ {dst} : items'[m] = items[m]
    BY <1>2 DEF MemInv, Memory, TypeOK, NodesOK
  <2> QED  BY <1>1, <1>2, <2>1, <2>2, <2>3, <2>4, <2>5 DEF Writing
<1>9. Writing(t, Frame(t).node, dst, {})
  BY <1>0, <1>8
<1> QED
  BY <1>1, <1>7, <1>8, <1>9, ReplaceTurns DEF Climbing

\* InternalNode::insert with room for the right half.
LEMMA InternalInsertHolds ==
    ASSUME NEW owner, MemInv(owner), Shallow, Memory', Shallow', NEW t \in Transients,
           InternalInsert(t)
    PROVE  Holds(t)' = Holds(t)
<1>0. PICK n, i, f : n = Frame(t).node /\ i = Frame(t).index /\ f = Frame(t)
  OBVIOUS
<1>1. AtNode(t, "split") /\ Pops(t) /\ UNCHANGED root
  BY DEF InternalInsert, trees
<1>2. PICK dst \in NodeId :
        /\ Rewrites(n, dst, {})
        /\ items' = [items EXCEPT ![dst] =
                       SplitChild(items[n], i, SplitLeft(t, n, i), right[t])]
        /\ Makes({dst}, depth[n])
        /\ CallReplace(t, Changed(n, dst), FALSE)
  BY <1>0 DEF InternalInsert
<1>3. PICK a, b : a = SubSeq(items[n], 1, i) /\ b = SubSeq(items[n], i + 2, Len(items[n]))
  OBVIOUS
<1>4. /\ Cut(NodeId, items[n], i, a, b) /\ pc[t] = "split" /\ n \in NodeId
      /\ NewTip(t) \in NodeId /\ NewTip(t) = SplitLeft(t, n, i) /\ right[t] \in NodeId
  <2>1. Parting(t, "split", n, i, a, b)
    BY <1>0, <1>1, <1>3 DEF Parting, Climbing
  <2>2. Parted(t, "split", n, i, a, b)
    BY <2>1, FrameCut, Zenon
  <2> QED  BY <2>2 DEF Parted
<1>5. PICK tip, r : tip = NewTip(t) /\ r = right[t]
  OBVIOUS
<1>6. items'[dst] = (a \o <<tip, r>>) \o b
  <2>1. items'[dst] = SplitChild(items[n], i, tip, r)
    BY <1>2, <1>4, <1>5 DEF MemInv, Memory, TypeOK, NodesOK
  <2>2. CutWithTwo(NodeId, items[n], i, a, b, tip, r)
    BY <1>4, <1>5 DEF CutWithTwo
  <2>3. TwoInPlace(items[n], i, a, b, tip, r)
    BY <2>2, CutSplit, Zenon
  <2> QED  BY <2>1, <2>3, Zenon DEF TwoInPlace
<1>7. Turning(t, f, a, b, items'[dst])
  <2>1. Mids(t) = <<tip, r>>
    BY <1>4, <1>5 DEF Mids
  <2> QED  BY <1>0, <1>3, <1>6, <2>1, Zenon DEF Turning
<1>8. Writing(t, Frame(t).node, dst, {}) /\ pc'[t] = "replace"
  <2>1. t \in DOMAIN pc /\ t \in DOMAIN ptr /\ ~Busy(t) /\ stack[t] # <<>>
    BY <1>1 DEF MemInv, Memory, TypeOK, ControlOK, ResultOK, AtNode
  <2>2. pc'[t] = "replace" /\ ptr'[t] = Changed(n, dst)
    BY <1>2, <2>1 DEF CallReplace
  <2>3. Through(t, n)
    BY <1>0, <1>1, <1>4, <2>1 DEF Through
  <2>4. {dst} \cup {} = {dst} /\ {} \subseteq FreeNodes
    OBVIOUS
  <2>5. \A m \in NodeId \ {dst} : items'[m] = items[m]
    BY <1>2 DEF MemInv, Memory, TypeOK, NodesOK
  <2> QED  BY <1>0, <1>1, <1>2, <2>1, <2>2, <2>3, <2>4, <2>5 DEF Writing
<1> QED
  BY <1>1, <1>7, <1>8, ReplaceTurns DEF Climbing

\* InternalNode::insert in a full node.
LEMMA InternalSplitHolds ==
    ASSUME NEW owner, MemInv(owner), Shallow, Memory', Shallow', NEW t \in Transients,
           InternalSplit(t)
    PROVE  Holds(t)' = Holds(t)
<1>0. PICK n, i, f : n = Frame(t).node /\ i = Frame(t).index /\ f = Frame(t)
  OBVIOUS
<1>1. AtNode(t, "split") /\ Pops(t) /\ UNCHANGED root /\ Len(items[n]) = InternalSize
  BY <1>0 DEF InternalSplit, trees
<1>2. PICK sp, all : /\ sp = InternalSplitPoint(i, f.rightMost)
                     /\ all = SplitChild(items[n], i, SplitLeft(t, n, i), right[t])
  OBVIOUS
<1>3. PICK r \in NodeId, dst \in NodeId :
        /\ Allocates(r, {})
        /\ Rewrites(n, dst, {r})
        /\ items' = [items EXCEPT ![dst] = LeftPart(all, sp), ![r] = RightPart(all, sp)]
        /\ Makes({dst, r}, depth[n])
        /\ CallSplit(t, Changed(n, dst), r, InsertionIndex(i, newLeft[t]) < sp)
  BY <1>0, <1>2 DEF InternalSplit
<1>4. PICK a, b : a = SubSeq(items[n], 1, i) /\ b = SubSeq(items[n], i + 2, Len(items[n]))
  OBVIOUS
<1>5. /\ Cut(NodeId, items[n], i, a, b) /\ pc[t] = "split" /\ n \in NodeId
      /\ NewTip(t) \in NodeId /\ NewTip(t) = SplitLeft(t, n, i) /\ right[t] \in NodeId
      /\ refs[n] > 0
  <2>1. Parting(t, "split", n, i, a, b)
    BY <1>0, <1>1, <1>4 DEF Parting, Climbing
  <2>2. Parted(t, "split", n, i, a, b)
    BY <2>1, FrameCut, Zenon
  <2> QED  BY <2>2 DEF Parted
<1>6. PICK tip, rt : tip = NewTip(t) /\ rt = right[t]
  OBVIOUS
<1>7. all = (a \o <<tip, rt>>) \o b
  <2>2. CutWithTwo(NodeId, items[n], i, a, b, tip, rt)
    BY <1>5, <1>6 DEF CutWithTwo
  <2>3. TwoInPlace(items[n], i, a, b, tip, rt)
    BY <2>2, CutSplit, Zenon
  <2> QED  BY <1>2, <1>5, <1>6, <2>3, Zenon DEF TwoInPlace
<1>8. Turning(t, f, a, b, all)
  <2>1. Mids(t) = <<tip, rt>>
    BY <1>5, <1>6 DEF Mids
  <2> QED  BY <1>0, <1>4, <1>7, <2>1, Zenon DEF Turning
<1>9. /\ r \in FreeNodes /\ dst # r
  <2>1. r \in FreeNodes
    BY <1>3 DEF Allocates
  <2>2. refs[r] = 0
    BY <2>1 DEF FreeNodes
  <2> QED  BY <1>3, <1>5, <2>1, <2>2 DEF Rewrites, Allocates
<1>10. all = items'[dst] \o items'[r]
  <2>1. items'[dst] = LeftPart(all, sp) /\ items'[r] = RightPart(all, sp)
    BY <1>3, <1>9 DEF MemInv, Memory, TypeOK, NodesOK
  <2>2. all \in Seq(NodeId) /\ Len(all) = InternalSize + 1
    <3>1. CutWithTwo(NodeId, items[n], i, a, b, tip, rt)
      BY <1>5, <1>6 DEF CutWithTwo
    <3>2. LongerByOne(NodeId, items[n], SplitChild(items[n], i, tip, rt))
      BY <3>1, SplitLonger, Zenon
    <3> QED  BY <1>1, <1>2, <1>5, <1>6, <3>2 DEF LongerByOne
  <2>3. sp \in 1 .. InternalSize
    <3>1. i \in 0 .. InternalSize - 1
      BY <1>1, <1>5 DEF Cut
    <3>2. f.rightMost \in BOOLEAN
      <4>1. f \in FrameSet
        <5>1. /\ stack[t] \in Seq(FrameSet) /\ f = stack[t][Len(stack[t])]
              /\ Len(stack[t]) \in 1 .. Len(stack[t])
          BY <1>0, <1>1, FrameHeld, PathPlaced DEF MemInv, Memory, TypeOK, ControlOK
        <5> QED  BY <5>1, ElementOfSeq
      <4> QED  BY <4>1 DEF FrameSet
    <3> QED  BY <1>2, <3>1, <3>2, InternalSplitPointRange
  <2>4. sp \in 0 .. Len(all)
    BY <2>2, <2>3, NodeSizeAssumption
  <2>5. LeftPart(all, sp) \o RightPart(all, sp) = all
    BY <2>2, <2>4, SplitKeepsItems
  <2> QED  BY <2>1, <2>5
<1>11. Writing(t, Frame(t).node, dst, {r}) /\ pc'[t] = "split" /\ right'[t] = r
  <2>1. t \in DOMAIN pc /\ t \in DOMAIN ptr /\ t \in DOMAIN right /\ ~Busy(t) /\ stack[t] # <<>>
    BY <1>1 DEF MemInv, Memory, TypeOK, ControlOK, ResultOK, AtNode
  <2>2. pc'[t] = "split" /\ ptr'[t] = Changed(n, dst) /\ right'[t] = r
    BY <1>3, <2>1 DEF CallSplit
  <2>3. Through(t, n)
    BY <1>0, <1>1, <1>5, <2>1 DEF Through
  <2>4. {dst} \cup {r} = {dst, r} /\ {r} \subseteq FreeNodes
    BY <1>9
  <2>5. \A m \in NodeId \ {dst, r} : items'[m] = items[m]
    BY <1>3 DEF MemInv, Memory, TypeOK, NodesOK
  <2> QED  BY <1>0, <1>1, <1>3, <2>1, <2>2, <2>3, <2>4, <2>5 DEF Writing
<1> QED
  BY <1>1, <1>8, <1>10, <1>11, SplitTurns DEF Climbing

\* InternalNode::erase.
LEMMA InternalEraseHolds ==
    ASSUME NEW owner, MemInv(owner), Shallow, Memory', Shallow', NEW t \in Transients,
           InternalErase(t)
    PROVE  Holds(t)' = Holds(t)
<1>0. PICK n, i, f : n = Frame(t).node /\ i = Frame(t).index /\ f = Frame(t)
  OBVIOUS
<1>1. AtNode(t, "erase") /\ Pops(t) /\ UNCHANGED root
  BY DEF InternalErase, trees
<1>2. PICK dst \in NodeId :
        /\ Rewrites(n, dst, {})
        /\ items' = [items EXCEPT ![dst] = EraseItem(items[n], i)]
        /\ Makes({dst}, depth[n])
        /\ \E c : CallReplace(t, Changed(n, dst), c)
  BY <1>0 DEF InternalErase
<1>3. PICK a, b : a = SubSeq(items[n], 1, i) /\ b = SubSeq(items[n], i + 2, Len(items[n]))
  OBVIOUS
<1>4. Cut(NodeId, items[n], i, a, b) /\ pc[t] = "erase" /\ n \in NodeId
  <2>1. Parting(t, "erase", n, i, a, b)
    BY <1>0, <1>1, <1>3 DEF Parting, Climbing
  <2>2. Parted(t, "erase", n, i, a, b)
    BY <2>1, FrameCut, Zenon
  <2> QED  BY <2>2 DEF Parted
<1>6. items'[dst] = (a \o <<>>) \o b
  <2>1. items'[dst] = EraseItem(items[n], i)
    BY <1>2 DEF MemInv, Memory, TypeOK, NodesOK
  <2>2. Removed(items[n], i, a, b)
    BY <1>4, CutErase, Zenon
  <2>3. PICK x : Sandwiched(NodeId, a, x, b, items[n])
    BY <1>4, CutSandwich
  <2>4. a \o <<>> = a
    BY <2>3, NoneJoins DEF Sandwiched
  <2> QED  BY <2>1, <2>2, <2>4, Zenon DEF Removed
<1>7. Turning(t, f, a, b, items'[dst])
  <2>1. Mids(t) = <<>>
    BY <1>4 DEF Mids
  <2> QED  BY <1>0, <1>3, <1>6, <2>1, Zenon DEF Turning
<1>8. Writing(t, Frame(t).node, dst, {}) /\ pc'[t] = "replace"
  <2>1. t \in DOMAIN pc /\ t \in DOMAIN ptr /\ ~Busy(t) /\ stack[t] # <<>>
    BY <1>1 DEF MemInv, Memory, TypeOK, ControlOK, ResultOK, AtNode
  <2>2. pc'[t] = "replace" /\ ptr'[t] = Changed(n, dst)
    BY <1>2, <2>1 DEF CallReplace
  <2>3. Through(t, n)
    BY <1>0, <1>1, <1>4, <2>1 DEF Through
  <2>4. {dst} \cup {} = {dst} /\ {} \subseteq FreeNodes
    OBVIOUS
  <2>5. \A m \in NodeId \ {dst} : items'[m] = items[m]
    BY <1>2 DEF MemInv, Memory, TypeOK, NodesOK
  <2> QED  BY <1>0, <1>1, <1>2, <2>1, <2>2, <2>3, <2>4, <2>5 DEF Writing
<1> QED
  BY <1>1, <1>7, <1>8, ReplaceTurns DEF Climbing

\* A node whose only child goes, goes with it.
LEMMA InternalEraseOnlyHolds ==
    ASSUME NEW owner, MemInv(owner), Shallow, Memory', Shallow', NEW t \in Transients,
           InternalEraseOnly(t)
    PROVE  Holds(t)' = Holds(t)
<1>0. PICK n, i, f : n = Frame(t).node /\ i = Frame(t).index /\ f = Frame(t)
  OBVIOUS
<1>1. /\ AtNode(t, "erase") /\ Pops(t) /\ UNCHANGED <<root, items, depth, ptr>>
      /\ Len(items[n]) = 1 /\ CallErase(t)
  BY <1>0 DEF InternalEraseOnly, CallErase, trees, nodes
<1>3. PICK a, b : a = SubSeq(items[n], 1, i) /\ b = SubSeq(items[n], i + 2, Len(items[n]))
  OBVIOUS
<1>4. Cut(NodeId, items[n], i, a, b) /\ pc[t] = "erase" /\ n \in NodeId
  <2>1. Parting(t, "erase", n, i, a, b)
    BY <1>0, <1>1, <1>3 DEF Parting, Climbing
  <2>2. Parted(t, "erase", n, i, a, b)
    BY <2>1, FrameCut, Zenon
  <2> QED  BY <2>2 DEF Parted
<1>5. a = <<>> /\ b = <<>>
  <2>1. CutAlone(NodeId, items[n], i, a, b)
    BY <1>1, <1>4 DEF CutAlone
  <2> QED  BY <2>1, CutEmpty, Zenon
<1>6. LeftIn(Now, items, f) = <<>> /\ RightIn(Now, items, f) = <<>>
  BY <1>0, <1>3, <1>5, GatheredNone DEF LeftIn, RightIn
<1>7. Went(t, Frame(t).node) /\ pc'[t] = "erase"
  <2>1. t \in DOMAIN pc /\ ~Busy(t) /\ stack[t] # <<>>
    BY <1>1 DEF MemInv, Memory, TypeOK, ControlOK, AtNode
  <2>2. Through(t, n)
    BY <1>0, <1>1, <1>4, <2>1 DEF Through
  <2>3. pc'[t] = "erase"
    BY <1>1, <2>1 DEF CallErase
  <2> QED  BY <1>0, <1>1, <1>4, <2>1, <2>2, <2>3 DEF Went, Spared
<1>8. Middle(t) = <<>> /\ Middle(t)' = <<>>
  BY <1>4, <1>7, HoldsIs, HoldsIsNext DEF MiddleIn
<1>9. <<>> \in Strands /\ (<<>> \o <<>>) \o <<>> = <<>>
  BY StrandsJoin, StrandsNone
<1>10. /\ Middle(t) \in Strands
       /\ Middle(t)' = (LeftIn(Now, items, f) \o Middle(t)) \o RightIn(Now, items, f)
  BY <1>6, <1>8, <1>9, Zenon
<1>11. Climbing("erase") /\ Climbing(pc'[t]) /\ root'[t] = root[t]
  BY <1>1, <1>7 DEF Climbing
<1> QED
  BY <1>0, <1>1, <1>7, <1>10, <1>11, LevelHolds

-----------------------------------------------------------------------------
(* Steps that write to no node *)

\* What object h is, or is in the middle of, is the same.
Alike(h) ==
    /\ root'[h] = root[h]
    /\ h \in Transients => Still(h) \/ (~Climbing(pc[h]) /\ ~Climbing(pc'[h]))

LEMMA QuietHolds ==
    ASSUME UNCHANGED <<items, depth>>, NEW h, Alike(h)
    PROVE  Holds(h)' = Holds(h)
<1>1. PICK c, d : c = Now /\ d = Now'
  OBVIOUS
<1>2. d = c
  BY <1>1 DEF Now
<1>3. /\ Holds(h) = HoldsIn(c, items, h, root[h], pc[h], stack[h], Middle(h))
      /\ Holds(h)' = HoldsIn(c, items, h, root[h], pc'[h], stack'[h], Middle(h)')
  <2>1. Holds(h)' = HoldsIn(Now', items', h, root'[h], pc'[h], stack'[h], Middle(h)')
    BY HoldsIsNext
  <2> QED  BY <1>1, <1>2, <2>1, HoldsIs DEF Alike
<1>4. CASE h \notin Transients \/ (~Climbing(pc[h]) /\ ~Climbing(pc'[h]))
  BY <1>3, <1>4 DEF HoldsIn
<1>5. CASE h \in Transients /\ Still(h)
  <2>1. NewTip(h)' = NewTip(h)
    <3>1. /\ NewTip(h) = TipIn(items, stack[h], ptr[h], root[h])
          /\ NewTip(h)' = TipIn(items', stack'[h], ptr'[h], root'[h])
      BY HoldsIs, HoldsIsNext
    <3> QED  BY <1>5, <3>1 DEF Still
  <2>2. Middle(h)' = Middle(h)
    <3>1. /\ Middle(h) = MiddleIn(c, pc[h], NewTip(h), right[h])
          /\ Middle(h)' = MiddleIn(d, pc'[h], NewTip(h)', right'[h])
      BY <1>1, HoldsIs, HoldsIsNext
    <3> QED  BY <1>2, <1>5, <2>1, <3>1, Zenon DEF Still
  <2> QED  BY <1>3, <1>5, <2>2, Zenon DEF Still
<1> QED
  BY <1>4, <1>5 DEF Alike

\* The walk of a thread through its tree changes nothing, nor does marking.
LEMMA WalkHolds ==
    ASSUME Memory, NEW t \in Transients,
           \/ \E name \in Operations : Begin(t, name)
           \/ \E i \in 0 .. InternalSize - 1 : Descend(t, i)
           \/ LeafKeep(t) \/ SeekEnd(t) \/ Return(t) \/ Mark(t)
    PROVE  \A h \in Handle : Holds(h)' = Holds(h)
<1>1. /\ pc \in [Transients -> PhaseSet] /\ stack \in [Transients -> Seq(FrameSet)]
      /\ ptr \in [Transients -> Pointer] /\ right \in [Transients -> Pointer]
  BY DEF Memory, TypeOK, ControlOK, ResultOK
<1>2. UNCHANGED <<items, depth, root>>
  BY DEF Begin, Descend, LeafKeep, SeekEnd, Return, Mark, nodes, trees
<1>3. \A h \in Handle : Alike(h)
  <2>1. CASE \E name \in Operations : Begin(t, name)
    BY <1>1, <1>2, <2>1 DEF Begin, Resting, Alike, Still, Climbing, result
  <2>2. CASE \E i \in 0 .. InternalSize - 1 : Descend(t, i)
    BY <1>1, <1>2, <2>2 DEF Descend, Alike, Still, Climbing, result
  <2>3. CASE LeafKeep(t)
    BY <1>1, <1>2, <2>3 DEF LeafKeep, AtLeaf, Alike, Still, Climbing, result
  <2>4. CASE SeekEnd(t)
    BY <1>1, <1>2, <2>4 DEF SeekEnd, Alike, Still, Climbing
  <2>5. CASE Return(t)
    BY <1>1, <1>2, <2>5 DEF Return, Alike, Still, Climbing
  <2>6. CASE Mark(t)
    BY <1>1, <1>2, <2>6 DEF Mark, Alike, Still, Climbing, result, control
  <2> QED  BY <2>1, <2>2, <2>3, <2>4, <2>5, <2>6
<1> QED
  BY <1>2, <1>3, QuietHolds

-----------------------------------------------------------------------------
(* What an operation leaves *)

\* A value comes,
Comes(A, B, v, s, u) ==
    A \in Strands /\ B \in Strands /\ v \in Values /\ s = A \o B /\ u = (A \o <<v>>) \o B

LEMMA InsertedIs ==
    ASSUME NEW A, NEW B, NEW v, NEW s, NEW u, Comes(A, B, v, s, u)
    PROVE  u \in AS!Inserted(s)
<1>1. Flanked(Values, A, B, s)
  BY DEF Comes, Strands, Flanked
<1>2. SubSeq(s, 1, Len(A)) = A /\ SubSeq(s, Len(A) + 1, Len(s)) = B
  BY <1>1, FlankCuts
<1>3. Len(A) \in 0 .. Len(s)
  <2>1. Len(A) \in Nat /\ Len(B) \in Nat /\ Len(s) = Len(A) + Len(B)
    BY <1>1, FlankItems
  <2>2. PICK l, m : l = Len(A) /\ m = Len(B)
    OBVIOUS
  <2> QED  BY <2>1, <2>2
<1>4. PICK k : k = Len(A)
  OBVIOUS
<1>5. /\ k \in 0 .. Len(s) /\ v \in Values
      /\ u = (SubSeq(s, 1, k) \o <<v>>) \o SubSeq(s, k + 1, Len(s))
  BY <1>2, <1>3, <1>4, Zenon DEF Comes
<1> DEFINE F(j, w) == (SubSeq(s, 1, j) \o <<w>>) \o SubSeq(s, j + 1, Len(s))
<1> DEFINE G(j) == {F(j, w) : w \in Values}
<1>6. AS!Inserted(s) = UNION {G(j) : j \in 0 .. Len(s)}
  BY Zenon DEF AS!Inserted
<1>7. u = F(k, v)
  BY <1>5, Zenon
<1> HIDE DEF F
<1>8. u \in G(k)
  BY <1>5, <1>7
<1> HIDE DEF G
<1> QED
  BY <1>5, <1>6, <1>8

\* is replaced,
Swaps(A, x, y, B, s, u) ==
    /\ A \in Strands /\ B \in Strands /\ x \in Values /\ y \in Values
    /\ s = (A \o <<x>>) \o B /\ u = (A \o <<y>>) \o B

LEMMA ReplacedIs ==
    ASSUME NEW A, NEW x, NEW y, NEW B, NEW s, NEW u, Swaps(A, x, y, B, s, u)
    PROVE  u \in AS!Replaced(s)
<1>1. Sandwiched(Values, A, x, B, s)
  BY DEF Swaps, Strands, Sandwiched
<1>2. Pieces(A, x, B, s)
  BY <1>1, SandwichCuts, Zenon
<1>3. SubSeq(s, 1, Len(A)) = A /\ SubSeq(s, Len(A) + 2, Len(s)) = B
  BY <1>2, Zenon DEF Pieces
<1>4. PICK k : k = Len(A) + 1
  OBVIOUS
<1>5. k \in 1 .. Len(s) /\ k - 1 = Len(A) /\ k + 1 = Len(A) + 2
  <2>1. Len(A) \in Nat /\ Len(B) \in Nat /\ Len(s) = Len(A) + 1 + Len(B)
    BY <1>1, SandwichItems
  <2>2. PICK l, m : l = Len(A) /\ m = Len(B)
    OBVIOUS
  <2> QED  BY <1>4, <2>1, <2>2
<1>6. /\ k \in 1 .. Len(s) /\ y \in Values
      /\ u = (SubSeq(s, 1, k - 1) \o <<y>>) \o SubSeq(s, k + 1, Len(s))
  BY <1>3, <1>5, Zenon DEF Swaps
<1> DEFINE F(j, w) == (SubSeq(s, 1, j - 1) \o <<w>>) \o SubSeq(s, j + 1, Len(s))
<1> DEFINE G(j) == {F(j, w) : w \in Values}
<1>7. AS!Replaced(s) = UNION {G(j) : j \in 1 .. Len(s)}
  BY Zenon DEF AS!Replaced
<1>8. u = F(k, y)
  BY <1>6, Zenon
<1> HIDE DEF F
<1>9. u \in G(k)
  BY <1>6, <1>8
<1> HIDE DEF G
<1> QED
  BY <1>6, <1>7, <1>9

\* or goes.
Goes(A, x, B, s, u) ==
    /\ A \in Strands /\ B \in Strands /\ x \in Values
    /\ s = (A \o <<x>>) \o B /\ u = A \o B

LEMMA ErasedIs ==
    ASSUME NEW A, NEW x, NEW B, NEW s, NEW u, Goes(A, x, B, s, u)
    PROVE  /\ u \in AS!Erased(s, 1 .. Len(s))
           /\ B = <<>> => u \in AS!Erased(s, {Len(s)} \ {0})
<1>1. Sandwiched(Values, A, x, B, s)
  BY DEF Goes, Strands, Sandwiched
<1>2. Pieces(A, x, B, s)
  BY <1>1, SandwichCuts, Zenon
<1>3. SubSeq(s, 1, Len(A)) = A /\ SubSeq(s, Len(A) + 2, Len(s)) = B
  BY <1>2, Zenon DEF Pieces
<1>4. PICK k : k = Len(A) + 1
  OBVIOUS
<1>5. /\ k \in 1 .. Len(s) /\ k - 1 = Len(A) /\ k + 1 = Len(A) + 2
      /\ B = <<>> => k \in {Len(s)} \ {0}
  <2>1. Len(A) \in Nat /\ Len(B) \in Nat /\ Len(s) = Len(A) + 1 + Len(B)
    BY <1>1, SandwichItems
  <2>2. PICK l, m : l = Len(A) /\ m = Len(B)
    OBVIOUS
  <2>3. B = <<>> => m = 0
    BY <2>2
  <2> QED  BY <1>4, <2>1, <2>2, <2>3
<1>6. u = SubSeq(s, 1, k - 1) \o SubSeq(s, k + 1, Len(s))
  BY <1>3, <1>5, Zenon DEF Goes
<1> DEFINE F(j) == SubSeq(s, 1, j - 1) \o SubSeq(s, j + 1, Len(s))
<1>7. \A K : AS!Erased(s, K) = {F(j) : j \in K}
  BY Zenon DEF AS!Erased
<1>8. u = F(k)
  BY <1>6, Zenon
<1> HIDE DEF F
<1> QED
  BY <1>5, <1>7, <1>8

\* Nothing after nothing is nothing.
LEMMA FlatEmpty ==
    ASSUME NEW ss \in Seq(Strands), \A k \in 1 .. Len(ss) : ss[k] = <<>>
    PROVE  FlattenSeq(ss) = <<>>
<1>1. PICK F : Folds(Values, ss, F) /\ FlattenSeq(ss) = F[Len(ss)]
  BY FlatFold DEF Strands
<1>2. PICK N : N = Len(ss)
  OBVIOUS
<1>3. N \in Nat
  BY <1>2, LenProperties
<1>4. F[0] = <<>> /\ \A k \in 1 .. N : F[k] = F[k - 1] \o <<>>
  BY <1>1, <1>2 DEF Folds, Strings
<1> DEFINE T == {k \in 0 .. N : F[k] = <<>>}
<1>5. 0 \in T
  BY <1>3, <1>4
<1>6. \A k \in 0 .. N - 1 : k \in T => k + 1 \in T
  <2> SUFFICES ASSUME NEW k \in 0 .. N - 1, k \in T PROVE k + 1 \in T
    OBVIOUS
  <2>1. k + 1 \in 1 .. N /\ (k + 1) - 1 = k /\ k + 1 \in 0 .. N
    BY <1>3
  <2>2. F[k + 1] = <<>> \o <<>>
    BY <1>4, <2>1
  <2>3. F[k + 1] = <<>>
    BY <2>2, StrandsJoin, StrandsNone
  <2> QED  BY <2>1, <2>3
<1> HIDE DEF T
<1>7. \A k \in 0 .. N : k \in T
  BY <1>3, <1>5, <1>6, UpTo
<1>8. N \in T
  BY <1>3, <1>7
<1> QED
  BY <1>1, <1>2, <1>8 DEF T

\* Nothing is right of the right edge of the tree.
LEMMA EdgeRights ==
    ASSUME Memory, Shallow, NEW t \in Transients, Path(t), pc[t] = "descend", rightMost[t]
    PROVE  RightsIn(Now, items, stack[t]) = <<>>
<1>1. PICK s, l : s = stack[t] /\ l = Len(s)
  OBVIOUS
<1>2. s \in Seq(FrameSet) /\ Forked(items, s) /\ l \in Nat
  BY <1>1, PathForks, LenProperties
<1>3. \A j \in 1 .. l : s[j].index = Len(items[s[j].node]) - 1
  BY <1>1 DEF Path, OnEdgeTo
<1>4. ASSUME NEW j \in 1 .. l PROVE RightIn(Now, items, s[j]) = <<>>
  <2>1. PICK w, i : w = items[s[j].node] /\ i = s[j].index
    OBVIOUS
  <2>2. w \in Seq(NodeId) /\ i = Len(w) - 1
    BY <1>1, <1>2, <1>3, <2>1 DEF Forked, Forks
  <2>3. Len(w) \in Nat
    BY <2>2, LenProperties
  <2>4. SubSeq(w, i + 2, Len(w)) = <<>>
    <3>1. i + 2 = Len(w) + 1
      BY <2>2, <2>3
    <3>2. Flanked(NodeId, w, <<>>, w)
      BY <2>2, NoneJoins DEF Flanked
    <3>3. SubSeq(w, Len(w) + 1, Len(w)) = <<>>
      BY <3>2, FlankCuts
    <3> QED  BY <3>1, <3>3
  <2>5. RightIn(Now, items, s[j]) = Gathered(Now, <<>>)
    BY <2>1, <2>4 DEF RightIn
  <2> QED  BY <2>5, GatheredNone
<1>5. PICK ss : ss = [j \in 1 .. l |-> RightIn(Now, items, s[l - j + 1])]
  OBVIOUS
<1>6. \A j \in 1 .. l : ss[j] = <<>>
  <2> SUFFICES ASSUME NEW j \in 1 .. l PROVE ss[j] = <<>>
    OBVIOUS
  <2>1. l - j + 1 \in 1 .. l
    BY <1>2
  <2> QED  BY <1>4, <1>5, <2>1
<1>7. ss \in Seq(Strands) /\ Len(ss) = l
  <2>1. ss \in [1 .. l -> Strands]
    BY <1>5, <1>6, StrandsJoin
  <2> QED  BY <1>2, <2>1, SeqDef
<1>8. FlattenSeq(ss) = <<>>
  BY <1>6, <1>7, FlatEmpty
<1> QED
  BY <1>1, <1>5, <1>8, Zenon DEF RightsIn

-----------------------------------------------------------------------------
(* The leaf *)

\* A thread is through with its leaf, which had x between p and q, and what is to take
\* its place has y there.
EditsLeaf(t, p, x, y, q) ==
    /\ {p, x, y, q} \subseteq Strands
    /\ items[at[t]] = (p \o x) \o q /\ Middle(t)' = (p \o y) \o q

\* So has the tree.
EditsTree(t, x, y, edge) ==
    \E A, B \in Strands :
        /\ Holds(t) = (A \o x) \o B /\ Holds(t)' = (A \o y) \o B
        /\ rightMost[t] /\ edge => B = <<>>

LEMMA LeafEdits ==
    ASSUME NEW owner, MemInv(owner), Shallow, NEW t \in Transients,
           pc[t] = "descend", depth[at[t]] = 1, Went(t, at[t]),
           root'[t] = root[t], root[t] # Nil, stack'[t] = stack[t], Climbing(pc'[t]),
           NEW p, NEW x, NEW y, NEW q, EditsLeaf(t, p, x, y, q)
    PROVE  EditsTree(t, x, y, q = <<>>)
<1>1. /\ Memory /\ Path(t) /\ at[t] \in NodeId
      /\ Beside(Now, Now', items, items', stack'[t])
  BY PathPlaced, WentBeside DEF MemInv, Threads
<1>2. PICK L, R, w : /\ L = LeftsIn(Now, items, stack[t]) /\ R = RightsIn(Now, items, stack[t])
                     /\ w = items[at[t]]
  OBVIOUS
<1>3. L \in Strands /\ R \in Strands
  BY <1>1, <1>2, DownHolds DEF Strands
<1>4. Holds(t) = (L \o w) \o R
  <2>1. Now[root[t]] = (L \o Now[at[t]]) \o R
    BY <1>1, <1>2, DownHolds, Zenon
  <2>2. Now[at[t]] = w
    BY <1>1, <1>2, NowTree
  <2>3. Holds(t) = Now[root[t]]
    BY HoldsIs DEF HoldsIn, Climbing
  <2> QED  BY <2>1, <2>2, <2>3, Zenon
<1>5. Holds(t)' = (L \o Middle(t)') \o R
  <2>1. /\ LeftsIn(Now', items', stack'[t]) = L
        /\ RightsIn(Now', items', stack'[t]) = R
    <3>1. PICK c, d, its, its2, s : /\ c = Now /\ d = Now' /\ its = items /\ its2 = items'
                                    /\ s = stack'[t]
      OBVIOUS
    <3>2. Beside(c, d, its, its2, s)
      BY <1>1, <3>1, Zenon
    <3>3. LeftsIn(d, its2, s) = LeftsIn(c, its, s) /\ RightsIn(d, its2, s) = RightsIn(c, its, s)
      BY <3>2, SidesSame
    <3> QED  BY <1>2, <3>1, <3>3, Zenon
  <2>2. Holds(t)' = OutlookIn(Now', items', stack'[t], Middle(t)')
    BY HoldsIsNext DEF HoldsIn, Handle
  <2> QED  BY <2>1, <2>2, Zenon DEF OutlookIn
<1>6. PICK m : m = Middle(t)'
  OBVIOUS
<1>7. /\ p \in Strands /\ x \in Strands /\ y \in Strands /\ q \in Strands
      /\ w = (p \o x) \o q /\ m = (p \o y) \o q
  BY <1>2, <1>6 DEF EditsLeaf
<1>8. PICK A, B : A = L \o p /\ B = q \o R
  OBVIOUS
<1>9. A \in Strands /\ B \in Strands
  BY <1>3, <1>7, <1>8, StrandsJoin
<1>10. Holds(t) = (A \o x) \o B
  <2>1. AllStrands(L, p, x, q, R)
    BY <1>3, <1>7 DEF AllStrands
  <2>2. Nested(L, p, x, q, R)
    BY <2>1, Nest, Zenon
  <2> QED  BY <1>4, <1>7, <1>8, <2>2, Zenon DEF Nested
<1>11. Holds(t)' = (A \o y) \o B
  <2>1. AllStrands(L, p, y, q, R)
    BY <1>3, <1>7 DEF AllStrands
  <2>2. Nested(L, p, y, q, R)
    BY <2>1, Nest, Zenon
  <2> QED  BY <1>5, <1>6, <1>7, <1>8, <2>2, Zenon DEF Nested
<1>12. ASSUME rightMost[t], q = <<>> PROVE B = <<>>
  <2>1. R = <<>>
    BY <1>1, <1>2, <1>12, EdgeRights, Zenon
  <2> QED  BY <1>8, <1>12, <2>1, StrandsJoin, StrandsNone
<1> QED
  BY <1>9, <1>10, <1>11, <1>12, Zenon DEF EditsTree

\* A thread at its leaf,
OnLeaf(t) == t \in Transients /\ pc[t] = "descend" /\ ~Busy(t) /\ depth[at[t]] = 1

\* and on its way up from there.
OffLeaf(t) ==
    /\ OnLeaf(t) /\ Went(t, at[t])
    /\ root'[t] = root[t] /\ root[t] # Nil /\ stack'[t] = stack[t] /\ Climbing(pc'[t])

\* What the trees hold, by lemma LeafEdits.
LEMMA OffLeafEdits ==
    ASSUME NEW owner, MemInv(owner), Shallow, NEW t, OffLeaf(t),
           NEW p, NEW x, NEW y, NEW q, EditsLeaf(t, p, x, y, q)
    PROVE  EditsTree(t, x, y, q = <<>>)
BY LeafEdits DEF OffLeaf, OnLeaf

\* The leaf has a new version dst, and perhaps a right half.
WritesLeaf(t, dst, R) ==
    /\ OnLeaf(t)
    /\ dst \in NodeId /\ R \subseteq FreeNodes /\ Rewrites(at[t], dst, R)
    /\ Makes({dst} \cup R, 1)
    /\ \A m \in NodeId \ ({dst} \cup R) : items'[m] = items[m]
    /\ ptr'[t] = Changed(at[t], dst) /\ LeavesLeaf(t) /\ Climbing(pc'[t])

LEMMA LeafOff ==
    ASSUME NEW owner, MemInv(owner), Shallow, Memory', Shallow', NEW t, NEW dst, NEW R,
           WritesLeaf(t, dst, R)
    PROVE  /\ OffLeaf(t) /\ NewTip(t)' = dst
           /\ \A m \in {dst} \cup R : Now'[m] = items'[m]
<1>1. /\ t \in Transients /\ pc[t] = "descend" /\ ~Busy(t) /\ depth[at[t]] = 1
      /\ Memory /\ Path(t) /\ Threads
  BY DEF WritesLeaf, OnLeaf, MemInv, Threads
<1>2. at[t] \in NodeId /\ refs[at[t]] > 0 /\ root[t] # Nil
  <2>1. at[t] \in NodeId /\ Placed(at[t])
    BY <1>1, PathPlaced
  <2> QED  BY <1>1, <2>1, AliveNow DEF Memory, TypeOK, PhaseOK
<1>3. root' = root /\ stack' = stack
  BY DEF WritesLeaf, LeavesLeaf
<1>4. Writing(t, at[t], dst, R)
  <2>1. Through(t, at[t])
    BY <1>1, <1>3 DEF Through
  <2> QED  BY <1>1, <1>3, <2>1, Zenon DEF WritesLeaf, Writing
<1>5. Went(t, at[t]) /\ \A m \in {dst} \cup R : m \in NodeId /\ depth'[m] = 1
  BY <1>1, <1>2, <1>4, WritingWent
<1>6. NewTip(t)' = dst
  BY <1>1, <1>2, <1>4, WritingTip
<1>7. \A m \in {dst} \cup R : Now'[m] = items'[m]
  BY <1>5, NowTreeNext
<1>8. OffLeaf(t)
  BY <1>2, <1>3, <1>5 DEF OffLeaf, WritesLeaf
<1> QED
  BY <1>6, <1>7, <1>8

\* Leaves that change, with do_replace or do_split.
NewLeaf(t, dst, new) ==
    \E c : /\ OnLeaf(t) /\ dst \in NodeId
           /\ Rewrites(at[t], dst, {})
           /\ items' = [items EXCEPT ![dst] = new]
           /\ Makes({dst}, 1)
           /\ CallReplace(t, Changed(at[t], dst), c)
           /\ LeavesLeaf(t)

LEMMA NewLeafOff ==
    ASSUME NEW owner, MemInv(owner), Shallow, Memory', Shallow', NEW t, NEW dst, NEW new,
           NewLeaf(t, dst, new)
    PROVE  OffLeaf(t) /\ Middle(t)' = new
<1>1. PICK c : /\ OnLeaf(t) /\ dst \in NodeId
               /\ Rewrites(at[t], dst, {})
               /\ items' = [items EXCEPT ![dst] = new]
               /\ Makes({dst}, 1)
               /\ CallReplace(t, Changed(at[t], dst), c)
               /\ LeavesLeaf(t)
  BY DEF NewLeaf
<1>2. /\ t \in Transients /\ items \in [NodeId -> Seq(Values) \cup Seq(NodeId)]
      /\ pc \in [Transients -> PhaseSet] /\ ptr \in [Transients -> Pointer]
  BY <1>1 DEF OnLeaf, MemInv, Memory, TypeOK, NodesOK, ControlOK, ResultOK
<1>3. pc'[t] = "replace" /\ ptr'[t] = Changed(at[t], dst) /\ items'[dst] = new
  BY <1>1, <1>2 DEF CallReplace
<1>4. WritesLeaf(t, dst, {})
  <2>1. {dst} \cup {} = {dst} /\ {} \subseteq FreeNodes
    OBVIOUS
  <2>2. \A m \in NodeId \ {dst} : items'[m] = items[m]
    BY <1>1, <1>2
  <2> QED  BY <1>1, <1>3, <2>1, <2>2 DEF WritesLeaf, Climbing
<1>5. OffLeaf(t) /\ NewTip(t)' = dst /\ Now'[dst] = items'[dst]
  BY <1>4, LeafOff
<1>6. Middle(t)' = MiddleIn(Now', pc'[t], NewTip(t)', right'[t])
  BY HoldsIsNext
<1> QED
  BY <1>3, <1>5, <1>6 DEF MiddleIn

\* The values of the leaf a thread is at.
LEMMA OnLeafValues ==
    ASSUME NEW owner, MemInv(owner), NEW t, OnLeaf(t)
    PROVE  items[at[t]] \in Seq(Values)
<1>1. at[t] \in NodeId
  BY PathPlaced DEF OnLeaf, MemInv, Threads
<1> QED
  BY <1>1 DEF OnLeaf, MemInv, Memory, TypeOK, NodesOK

\* It gets one more,
LeafGets(t, w, i, v) ==
    /\ OffLeaf(t) /\ w = items[at[t]] /\ i \in 0 .. Len(w) /\ v \in Values
    /\ Middle(t)' = InsertItem(w, i, v)

LEMMA GetsOutcome ==
    ASSUME NEW owner, MemInv(owner), Shallow, NEW t, NEW w, NEW i, NEW v,
           LeafGets(t, w, i, v)
    PROVE  Holds(t)' \in AS!Inserted(Holds(t))
<1>1. /\ OffLeaf(t) /\ OnLeaf(t) /\ w = items[at[t]] /\ i \in 0 .. Len(w) /\ v \in Values
      /\ Middle(t)' = InsertItem(w, i, v)
  BY DEF LeafGets, OffLeaf
<1>2. w \in Seq(Values)
  BY <1>1, OnLeafValues
<1>3. PICK p, q, y : p = LeftPart(w, i) /\ q = RightPart(w, i) /\ y = <<v>>
  OBVIOUS
<1>4. p \in Strands /\ q \in Strands /\ p \o q = w
  BY <1>1, <1>2, <1>3, SplitKeepsItems DEF Strands
<1>5. y \in Strands /\ <<>> \in Strands
  BY <1>1, <1>3, StrandsJoin DEF Strands
<1>6. p \o <<>> = p
  BY <1>4, StrandsNone
<1>7. Middle(t)' = (p \o y) \o q
  BY <1>1, <1>3, Zenon DEF InsertItem, LeftPart, RightPart
<1>8. EditsLeaf(t, p, <<>>, y, q)
  BY <1>1, <1>4, <1>5, <1>6, <1>7 DEF EditsLeaf
<1>9. EditsTree(t, <<>>, y, q = <<>>)
  BY <1>1, <1>8, OffLeafEdits, Zenon
<1>10. PICK A \in Strands, B \in Strands :
         Holds(t) = (A \o <<>>) \o B /\ Holds(t)' = (A \o y) \o B
  BY <1>9, Zenon DEF EditsTree
<1>11. A \o <<>> = A
  BY <1>10, StrandsNone
<1>12. PICK s, u : s = Holds(t) /\ u = Holds(t)'
  OBVIOUS
<1>13. Comes(A, B, v, s, u)
  BY <1>1, <1>3, <1>10, <1>11, <1>12, Zenon DEF Comes
<1> QED
  BY <1>12, <1>13, InsertedIs

\* or another in the place of one,
LeafTurns(t, w, i, v) ==
    /\ OffLeaf(t) /\ w = items[at[t]] /\ i \in 0 .. Len(w) - 1 /\ v \in Values
    /\ Middle(t)' = ReplaceItem(w, i, v)

LEMMA TurnsOutcome ==
    ASSUME NEW owner, MemInv(owner), Shallow, NEW t, NEW w, NEW i, NEW v,
           LeafTurns(t, w, i, v)
    PROVE  Holds(t)' \in AS!Replaced(Holds(t))
<1>1. /\ OffLeaf(t) /\ OnLeaf(t) /\ w = items[at[t]] /\ i \in 0 .. Len(w) - 1 /\ v \in Values
      /\ Middle(t)' = ReplaceItem(w, i, v)
  BY DEF LeafTurns, OffLeaf
<1>2. w \in Seq(Values)
  BY <1>1, OnLeafValues
<1>3. PICK p, q : p = SubSeq(w, 1, i) /\ q = SubSeq(w, i + 2, Len(w))
  OBVIOUS
<1>4. Cut(Values, w, i, p, q)
  BY <1>1, <1>2, <1>3 DEF Cut
<1>5. PICK e : Sandwiched(Values, p, e, q, w)
  BY <1>4, CutSandwich
<1>6. InPlace(w, i, p, q, v)
  <2>1. CutWith(Values, w, i, p, q, v)
    BY <1>1, <1>4 DEF CutWith
  <2> QED  BY <2>1, CutReplace, Zenon
<1>7. PICK x, y : x = <<e>> /\ y = <<v>>
  OBVIOUS
<1>8. /\ p \in Strands /\ q \in Strands /\ e \in Values /\ w = (p \o x) \o q
      /\ Middle(t)' = (p \o y) \o q
  BY <1>1, <1>5, <1>6, <1>7, Zenon DEF Sandwiched, InPlace, Strands
<1>9. x \in Strands /\ y \in Strands
  BY <1>1, <1>7, <1>8 DEF Strands
<1>10. EditsLeaf(t, p, x, y, q)
  BY <1>1, <1>8, <1>9 DEF EditsLeaf
<1>11. EditsTree(t, x, y, q = <<>>)
  BY <1>1, <1>10, OffLeafEdits, Zenon
<1>12. PICK A \in Strands, B \in Strands :
         Holds(t) = (A \o x) \o B /\ Holds(t)' = (A \o y) \o B
  BY <1>11, Zenon DEF EditsTree
<1>13. PICK s, u : s = Holds(t) /\ u = Holds(t)'
  OBVIOUS
<1>14. Swaps(A, e, v, B, s, u)
  BY <1>1, <1>7, <1>8, <1>12, <1>13, Zenon DEF Swaps
<1> QED
  BY <1>13, <1>14, ReplacedIs

\* or loses one.
LeafLoses(t, w, i) ==
    /\ OffLeaf(t) /\ w = items[at[t]] /\ i \in 0 .. Len(w) - 1
    /\ Middle(t)' = EraseItem(w, i)

LEMMA LosesOutcome ==
    ASSUME NEW owner, MemInv(owner), Shallow, NEW t, NEW w, NEW i, LeafLoses(t, w, i)
    PROVE  /\ Holds(t)' \in AS!Erased(Holds(t), 1 .. Len(Holds(t)))
           /\ rightMost[t] /\ i = Len(w) - 1 =>
                Holds(t)' \in AS!Erased(Holds(t), {Len(Holds(t))} \ {0})
<1>1. /\ OffLeaf(t) /\ OnLeaf(t) /\ w = items[at[t]] /\ i \in 0 .. Len(w) - 1
      /\ Middle(t)' = EraseItem(w, i)
  BY DEF LeafLoses, OffLeaf
<1>2. w \in Seq(Values)
  BY <1>1, OnLeafValues
<1>3. PICK p, q : p = SubSeq(w, 1, i) /\ q = SubSeq(w, i + 2, Len(w))
  OBVIOUS
<1>4. Cut(Values, w, i, p, q)
  BY <1>1, <1>2, <1>3 DEF Cut
<1>5. PICK e : Sandwiched(Values, p, e, q, w) /\ Len(p) = i
  BY <1>4, CutSandwich
<1>6. Removed(w, i, p, q)
  BY <1>4, CutErase, Zenon
<1>7. PICK x : x = <<e>>
  OBVIOUS
<1>8. /\ p \in Strands /\ q \in Strands /\ e \in Values /\ w = (p \o x) \o q
      /\ Middle(t)' = p \o q
  BY <1>1, <1>5, <1>6, <1>7, Zenon DEF Sandwiched, Removed, Strands
<1>9. x \in Strands /\ <<>> \in Strands /\ p \o <<>> = p
  BY <1>7, <1>8, StrandsJoin, StrandsNone DEF Strands
<1>10. EditsLeaf(t, p, x, <<>>, q)
  BY <1>1, <1>8, <1>9 DEF EditsLeaf
<1>11. EditsTree(t, x, <<>>, q = <<>>)
  BY <1>1, <1>10, OffLeafEdits, Zenon
<1>12. PICK A \in Strands, B \in Strands :
         /\ Holds(t) = (A \o x) \o B /\ Holds(t)' = (A \o <<>>) \o B
         /\ rightMost[t] /\ q = <<>> => B = <<>>
  BY <1>11, Zenon DEF EditsTree
<1>13. A \o <<>> = A
  BY <1>12, StrandsNone
<1>14. PICK s, u : s = Holds(t) /\ u = Holds(t)'
  OBVIOUS
<1>15. Goes(A, e, B, s, u)
  BY <1>7, <1>8, <1>12, <1>13, <1>14, Zenon DEF Goes
<1>16. i = Len(w) - 1 => q = <<>>
  <2>1. Len(p) \in Nat /\ Len(q) \in Nat /\ Len(w) = Len(p) + 1 + Len(q)
    BY <1>5, SandwichItems
  <2>2. PICK l, m : l = Len(p) /\ m = Len(q)
    OBVIOUS
  <2>3. i = Len(w) - 1 => m = 0
    BY <1>5, <2>1, <2>2
  <2> QED  BY <1>8, <2>2, <2>3, EmptySeq DEF Strands
<1> QED
  BY <1>12, <1>14, <1>15, <1>16, ErasedIs

\* pop_back's index, the length, erases the last item.
LEMMA EraseLast ==
    ASSUME NEW S, NEW s \in Seq(S), Len(s) > 0
    PROVE  EraseItem(s, Len(s)) = EraseItem(s, Len(s) - 1)
<1>1. PICK l : l = Len(s)
  OBVIOUS
<1>2. l \in Nat /\ l > 0 /\ l \in 0 .. Len(s) /\ l - 1 \in 0 .. Len(s)
  BY <1>1, LenProperties
<1>3. PICK a, b : a = EraseItem(s, l) /\ b = EraseItem(s, l - 1)
  OBVIOUS
<1>4. /\ a \in Seq(S) /\ Len(a) = Len(s) - 1
      /\ \A k \in 1 .. Len(s) - 1 : a[k] = IF k <= l THEN s[k] ELSE s[k + 1]
  BY <1>1, <1>2, <1>3, EraseItemProperties
<1>5. /\ b \in Seq(S) /\ Len(b) = Len(s) - 1
      /\ \A k \in 1 .. Len(s) - 1 : b[k] = IF k <= l - 1 THEN s[k] ELSE s[k + 1]
  BY <1>1, <1>2, <1>3, EraseItemProperties
<1>6. \A k \in 1 .. l - 1 : k <= l /\ k <= l - 1
  BY <1>2
<1>7. Len(a) = Len(b) /\ \A k \in 1 .. Len(a) : a[k] = b[k]
  BY <1>1, <1>4, <1>5, <1>6
<1> QED
  BY <1>1, <1>3, <1>4, <1>5, <1>7, SeqEqual

\* Of a sequence of one item nothing is left.
LEMMA EraseSole ==
    ASSUME NEW S, NEW s \in Seq(S), Len(s) = 1
    PROVE  EraseItem(s, 0) = <<>>
<1>1. PICK a : a = EraseItem(s, 0)
  OBVIOUS
<1>2. 0 \in 0 .. Len(s) /\ Len(s) > 0
  OBVIOUS
<1>3. a \in Seq(S) /\ Len(a) = Len(s) - 1
  BY <1>1, <1>2, EraseItemProperties
<1>4. Len(a) = 0
  BY <1>3
<1> QED
  BY <1>1, <1>3, <1>4, EmptySeq

\* leaf_insert with room for the value.
LEMMA LeafInsertEffect ==
    ASSUME NEW owner, MemInv(owner), Shallow, Memory', Shallow', NEW t \in Transients,
           NEW i \in 0 .. LeafSize, NEW v \in Values, LeafInsert(t, i, v)
    PROVE  op[t] \in Inserting /\ Holds(t)' \in AS!Inserted(Holds(t))
<1>1. PICK w : w = items[at[t]]
  OBVIOUS
<1>2. OnLeaf(t) /\ op[t] \in Inserting /\ i <= Len(w)
  BY <1>1 DEF LeafInsert, AtLeaf, OnLeaf
<1>3. PICK dst \in NodeId : NewLeaf(t, dst, InsertItem(w, i, v))
  BY <1>1, <1>2 DEF LeafInsert, NewLeaf
<1>4. OffLeaf(t) /\ Middle(t)' = InsertItem(w, i, v)
  BY <1>3, NewLeafOff
<1>5. i \in 0 .. Len(w)
  <2>1. w \in Seq(Values)
    BY <1>1, <1>2, OnLeafValues
  <2> QED  BY <1>2, <2>1, NodeSizeAssumption, LenProperties
<1>6. LeafGets(t, w, i, v)
  BY <1>1, <1>4, <1>5 DEF LeafGets
<1> QED
  BY <1>2, <1>6, GetsOutcome

\* leaf_insert into a full leaf.
LEMMA LeafSplitEffect ==
    ASSUME NEW owner, MemInv(owner), Shallow, Memory', Shallow', NEW t \in Transients,
           NEW i \in 0 .. LeafSize, NEW v \in Values, LeafSplit(t, i, v)
    PROVE  op[t] \in Inserting /\ Holds(t)' \in AS!Inserted(Holds(t))
<1>1. PICK w, sp, all : /\ w = items[at[t]] /\ sp = LeafSplitPoint(i, rightMost[t])
                        /\ all = InsertItem(w, i, v)
  OBVIOUS
<1>2. OnLeaf(t) /\ op[t] \in Inserting /\ Len(w) = LeafSize
  BY <1>1 DEF LeafSplit, AtLeaf, OnLeaf
<1>3. PICK r \in NodeId, dst \in NodeId :
        /\ Allocates(r, {})
        /\ Rewrites(at[t], dst, {r})
        /\ items' = [items EXCEPT ![dst] = LeftPart(all, sp), ![r] = RightPart(all, sp)]
        /\ Makes({dst, r}, 1)
        /\ CallSplit(t, Changed(at[t], dst), r, i < sp)
  BY <1>1 DEF LeafSplit
<1>4. w \in Seq(Values)
  BY <1>1, <1>2, OnLeafValues
<1>5. /\ items \in [NodeId -> Seq(Values) \cup Seq(NodeId)] /\ rightMost[t] \in BOOLEAN
      /\ pc \in [Transients -> PhaseSet] /\ ptr \in [Transients -> Pointer]
      /\ right \in [Transients -> Pointer]
  BY DEF MemInv, Memory, TypeOK, NodesOK, ControlOK, ResultOK
<1>6. r \in FreeNodes /\ dst # r
  <2>1. r \in FreeNodes
    BY <1>3 DEF Allocates
  <2>2. refs[r] = 0
    BY <2>1 DEF FreeNodes
  <2>3. at[t] \in NodeId /\ refs[at[t]] > 0
    BY <1>2, PathPlaced, AliveNow DEF OnLeaf, MemInv, Threads
  <2> QED  BY <1>3, <2>1, <2>2, <2>3 DEF Rewrites, Allocates
<1>7. /\ pc'[t] = "split" /\ ptr'[t] = Changed(at[t], dst) /\ right'[t] = r
      /\ items'[dst] = LeftPart(all, sp) /\ items'[r] = RightPart(all, sp)
  BY <1>3, <1>5, <1>6 DEF CallSplit
<1>8. WritesLeaf(t, dst, {r})
  <2>1. {dst} \cup {r} = {dst, r} /\ {r} \subseteq FreeNodes
    BY <1>6
  <2>2. \A m \in NodeId \ {dst, r} : items'[m] = items[m]
    BY <1>3, <1>5
  <2>3. LeavesLeaf(t)
    BY DEF LeafSplit
  <2> QED  BY <1>2, <1>3, <1>7, <2>1, <2>2, <2>3 DEF WritesLeaf, Climbing
<1>9. OffLeaf(t) /\ NewTip(t)' = dst /\ Now'[dst] = items'[dst] /\ Now'[r] = items'[r]
  BY <1>8, LeafOff
<1>10. Middle(t)' = LeftPart(all, sp) \o RightPart(all, sp)
  <2>1. Middle(t)' = MiddleIn(Now', pc'[t], NewTip(t)', right'[t])
    BY HoldsIsNext
  <2> QED  BY <1>7, <1>9, <2>1 DEF MiddleIn
<1>11. i \in 0 .. Len(w)
  BY <1>2
<1>12. Middle(t)' = all
  <2>1. all \in Seq(Values) /\ Len(all) = LeafSize + 1
    <3>1. InsertsAt(Values, w, i, v)
      BY <1>4, <1>11 DEF InsertsAt
    <3>2. LongerByOne(Values, w, InsertItem(w, i, v))
      BY <3>1, InsertLonger, Zenon
    <3> QED  BY <1>1, <1>2, <3>2 DEF LongerByOne
  <2>2. sp \in 0 .. Len(all)
    BY <1>1, <1>5, <2>1, LeafSplitPointRange, NodeSizeAssumption
  <2> QED  BY <1>10, <2>1, <2>2, SplitKeepsItems
<1>13. LeafGets(t, w, i, v)
  BY <1>1, <1>9, <1>11, <1>12 DEF LeafGets
<1> QED
  BY <1>2, <1>13, GetsOutcome

\* leaf_assign and leaf_update.
LEMMA LeafAssignEffect ==
    ASSUME NEW owner, MemInv(owner), Shallow, Memory', Shallow', NEW t \in Transients,
           NEW i \in 0 .. LeafSize, NEW v \in Values, LeafAssign(t, i, v)
    PROVE  op[t] \in Assigning /\ Holds(t)' \in AS!Replaced(Holds(t))
<1>1. PICK w : w = items[at[t]]
  OBVIOUS
<1>2. OnLeaf(t) /\ op[t] \in Assigning /\ i < Len(w)
  BY <1>1 DEF LeafAssign, AtLeaf, OnLeaf
<1>3. PICK dst \in NodeId : NewLeaf(t, dst, ReplaceItem(w, i, v))
  BY <1>1, <1>2 DEF LeafAssign, NewLeaf
<1>4. OffLeaf(t) /\ Middle(t)' = ReplaceItem(w, i, v)
  BY <1>3, NewLeafOff
<1>5. i \in 0 .. Len(w) - 1
  <2>1. w \in Seq(Values)
    BY <1>1, <1>2, OnLeafValues
  <2> QED  BY <1>2, <2>1, NodeSizeAssumption, LenProperties
<1>6. LeafTurns(t, w, i, v)
  BY <1>1, <1>4, <1>5 DEF LeafTurns
<1> QED
  BY <1>2, <1>6, TurnsOutcome

\* What pop_back goes by: from the root it goes to the last child.
PopsBack ==
    \A t \in Transients : pc[t] = "descend" /\ op[t] = "pop_back" => rightMost[t]

\* One value goes.
LosesOne(t) ==
    /\ op[t] \in {"erase", "pop_back"}
    /\ op[t] = "erase" => Holds(t)' \in AS!Erased(Holds(t), 1 .. Len(Holds(t)))
    /\ op[t] = "pop_back" =>
         Holds(t)' \in AS!Erased(Holds(t), {Len(Holds(t))} \ {0})

\* The value an operation erases, and what it does to the leaf.
ErasesLeaf(t, w, i) ==
    /\ OffLeaf(t) /\ w = items[at[t]] /\ ErasesAt(t, i) /\ i \in Nat /\ Len(w) > 0
    /\ op[t] \in {"erase", "pop_back"} /\ Middle(t)' = EraseItem(w, i)

LEMMA ErasesOutcome ==
    ASSUME NEW owner, MemInv(owner), Shallow, PopsBack, NEW t, NEW w, NEW i, ErasesLeaf(t, w, i)
    PROVE  LosesOne(t)
<1>1. /\ OffLeaf(t) /\ OnLeaf(t) /\ w = items[at[t]] /\ ErasesAt(t, i) /\ i \in Nat /\ Len(w) > 0
      /\ op[t] \in {"erase", "pop_back"} /\ Middle(t)' = EraseItem(w, i)
  BY DEF ErasesLeaf, OffLeaf
<1>2. w \in Seq(Values)
  BY <1>1, OnLeafValues
<1>3. Len(w) \in Nat
  BY <1>2, LenProperties
<1>4. CASE op[t] = "erase"
  <2>1. i \in 0 .. Len(w) - 1
    BY <1>1, <1>3, <1>4 DEF ErasesAt
  <2>2. LeafLoses(t, w, i)
    BY <1>1, <2>1 DEF LeafLoses
  <2> QED  BY <1>4, <2>2, LosesOutcome DEF LosesOne
<1>5. CASE op[t] = "pop_back"
  <2>1. PICK j : j = Len(w) - 1
    OBVIOUS
  <2>2. j \in 0 .. Len(w) - 1
    BY <1>1, <1>3, <2>1
  <2>3. Middle(t)' = EraseItem(w, j)
    <3>1. i = Len(w)
      BY <1>1, <1>5 DEF ErasesAt
    <3>2. EraseItem(w, Len(w)) = EraseItem(w, Len(w) - 1)
      BY <1>1, <1>2, EraseLast
    <3> QED  BY <1>1, <2>1, <3>1, <3>2
  <2>4. LeafLoses(t, w, j)
    BY <1>1, <2>2, <2>3 DEF LeafLoses
  <2>5. rightMost[t]
    BY <1>1, <1>5 DEF OnLeaf, PopsBack
  <2> QED  BY <1>5, <2>1, <2>4, <2>5, LosesOutcome DEF LosesOne
<1> QED
  BY <1>1, <1>4, <1>5

\* leaf_erase.
LEMMA LeafEraseEffect ==
    ASSUME NEW owner, MemInv(owner), Shallow, Memory', Shallow', PopsBack,
           NEW t \in Transients, NEW i \in 0 .. LeafSize, LeafErase(t, i)
    PROVE  LosesOne(t)
<1>1. PICK w : w = items[at[t]]
  OBVIOUS
<1>2. /\ OnLeaf(t) /\ op[t] \in {"erase", "pop_back"} /\ ErasesAt(t, i) /\ Len(w) > 1
  BY <1>1 DEF LeafErase, AtLeaf, OnLeaf
<1>3. PICK dst \in NodeId : NewLeaf(t, dst, EraseItem(w, i))
  BY <1>1, <1>2 DEF LeafErase, NewLeaf
<1>4. OffLeaf(t) /\ Middle(t)' = EraseItem(w, i)
  BY <1>3, NewLeafOff
<1>5. i \in Nat /\ Len(w) > 0
  <2>1. w \in Seq(Values)
    BY <1>1, <1>2, OnLeafValues
  <2> QED  BY <1>2, <2>1, NodeSizeAssumption, LenProperties
<1>6. ErasesLeaf(t, w, i)
  BY <1>1, <1>2, <1>4, <1>5 DEF ErasesLeaf
<1> QED
  BY <1>6, ErasesOutcome

\* leaf_erase of a leaf's only value, which calls do_erase.
LEMMA LeafEraseOnlyEffect ==
    ASSUME NEW owner, MemInv(owner), Shallow, Memory', Shallow', PopsBack,
           NEW t \in Transients, NEW i \in 0 .. LeafSize, LeafEraseOnly(t, i)
    PROVE  LosesOne(t)
<1>1. PICK w : w = items[at[t]]
  OBVIOUS
<1>2. /\ OnLeaf(t) /\ op[t] \in {"erase", "pop_back"} /\ ErasesAt(t, i) /\ Len(w) = 1
      /\ UNCHANGED <<items, depth, root, stack>> /\ pc' = [pc EXCEPT ![t] = "erase"]
  BY <1>1 DEF LeafEraseOnly, AtLeaf, OnLeaf, CallErase, LeavesLeaf, nodes
<1>3. pc'[t] = "erase" /\ root[t] # Nil /\ at[t] \in NodeId /\ w \in Seq(Values)
  BY <1>1, <1>2, PathPlaced, OnLeafValues
     DEF OnLeaf, MemInv, Threads, Memory, TypeOK, ControlOK, PhaseOK
<1>4. OffLeaf(t)
  BY <1>2, <1>3 DEF OffLeaf, OnLeaf, Went, Spared, Through, Climbing
<1>5. Middle(t)' = <<>>
  BY <1>3, HoldsIsNext DEF MiddleIn
<1>6. Middle(t)' = EraseItem(w, i)
  <2>1. EraseItem(w, 0) = <<>>
    BY <1>2, <1>3, EraseSole
  <2>2. EraseItem(w, Len(w)) = EraseItem(w, Len(w) - 1)
    <3>1. Len(w) > 0
      BY <1>2
    <3> QED  BY <1>3, <3>1, EraseLast
  <2>3. i = 0 \/ i = Len(w)
    BY <1>1, <1>2, NodeSizeAssumption DEF ErasesAt
  <2> QED  BY <1>2, <1>5, <2>1, <2>2, <2>3
<1>7. ErasesLeaf(t, w, i)
  BY <1>1, <1>2, <1>4, <1>6, NodeSizeAssumption DEF ErasesLeaf
<1> QED
  BY <1>7, ErasesOutcome

\* A step at a leaf does to the tree what the operation is for.
LEMMA LeafStepEffect ==
    ASSUME NEW owner, MemInv(owner), Shallow, Memory', Shallow', PopsBack,
           NEW t \in Transients, NEW i \in 0 .. LeafSize, NEW v \in Values, LeafStep(t, i, v)
    PROVE  Holds(t)' \in AS!Outcomes(op[t], Holds(t))
<1>1. CASE LeafInsert(t, i, v) \/ LeafSplit(t, i, v)
  BY <1>1, LeafInsertEffect, LeafSplitEffect DEF Inserting, AS!Outcomes
<1>2. CASE LeafAssign(t, i, v)
  BY <1>2, LeafAssignEffect DEF Assigning, AS!Outcomes
<1>3. CASE LeafErase(t, i) \/ LeafEraseOnly(t, i)
  BY <1>3, LeafEraseEffect, LeafEraseOnlyEffect DEF LosesOne, AS!Outcomes
<1> QED
  BY <1>1, <1>2, <1>3 DEF LeafStep

-----------------------------------------------------------------------------
(* The tree object takes the result *)

\* Nothing is left or right of no path.
LEMMA SidesNone ==
    ASSUME NEW c, NEW its
    PROVE  LeftsIn(c, its, <<>>) = <<>> /\ RightsIn(c, its, <<>>) = <<>>
<1>1. PICK l, r : /\ l = [j \in 1 .. Len(<<>>) |-> LeftIn(c, its, <<>>[j])]
                  /\ r = [j \in 1 .. Len(<<>>) |-> RightIn(c, its, <<>>[Len(<<>>) - j + 1])]
  OBVIOUS
<1>2. 1 .. Len(<<>>) = {}
  OBVIOUS
<1>3. l \in Seq(Strands) /\ Len(l) = 0 /\ r \in Seq(Strands) /\ Len(r) = 0
  <2>1. l \in [1 .. 0 -> Strands] /\ r \in [1 .. 0 -> Strands]
    BY <1>1, <1>2
  <2> QED  BY <2>1, SeqDef
<1>4. FlattenSeq(l) = <<>> /\ FlattenSeq(r) = <<>>
  <2>1. \A k \in 1 .. Len(l) : l[k] = <<>>
    BY <1>3
  <2>2. \A k \in 1 .. Len(r) : r[k] = <<>>
    BY <1>3
  <2> QED  BY <1>3, <2>1, <2>2, FlatEmpty
<1> QED
  BY <1>1, <1>4, Zenon DEF LeftsIn, RightsIn

LEMMA OutlookNone ==
    ASSUME NEW c, NEW its, NEW m \in Strands
    PROVE  OutlookIn(c, its, <<>>, m) = m
<1>1. OutlookIn(c, its, <<>>, m) = (<<>> \o m) \o <<>>
  BY SidesNone, Zenon DEF OutlookIn
<1> QED
  BY <1>1, StrandsNone, Zenon

\* A thread whose outermost continuation is called has in its hands all that the tree
\* holds.
LEMMA TopHolds ==
    ASSUME NEW owner, MemInv(owner), Shallow, NEW t \in Transients,
           NEW phase, AtRoot(t, phase), Climbing(phase)
    PROVE  /\ pc[t] = phase /\ root[t] \in NodeId
           /\ NewTip(t) = IF ptr[t] = Nil THEN root[t] ELSE ptr[t]
           /\ NewTip(t) \in NodeId
           /\ phase = "replace" => Holds(t) = Now[NewTip(t)]
           /\ phase = "split" => /\ right[t] \in NodeId
                                 /\ Holds(t) = Now[NewTip(t)] \o Now[right[t]]
           /\ phase = "erase" => Holds(t) = <<>>
<1>1. Memory /\ Holding(Now)
  BY NowTree DEF MemInv
<1>2. pc[t] = phase /\ stack[t] = <<>> /\ root[t] \in NodeId
      /\ (phase = "split" => right[t] \in NodeId) /\ ptr[t] \in Pointer
  BY <1>1 DEF AtRoot, Climbing, Memory, TypeOK, TreesOK, ResultOK, PhaseOK, Pointer, Handle
<1>3. NewTip(t) = (IF ptr[t] = Nil THEN root[t] ELSE ptr[t]) /\ NewTip(t) \in NodeId
  BY <1>2 DEF NewTip, Pointer
<1>4. PICK n, r : n = NewTip(t) /\ r = right[t]
  OBVIOUS
<1>5. /\ phase = "replace" => Middle(t) = Now[n]
      /\ phase = "split" => Middle(t) = Now[n] \o Now[r]
      /\ phase = "erase" => Middle(t) = <<>>
  BY <1>2, <1>4, HoldsIs DEF MiddleIn
<1>6. Middle(t) \in Strands
  BY <1>1, <1>2, <1>3, <1>4, <1>5, StrandsJoin DEF Climbing, Holding, Strands
<1>7. Holds(t) = OutlookIn(Now, items, <<>>, Middle(t))
  <2>1. root[t] # Nil
    BY <1>2 DEF NodeId, Nil
  <2>2. Holds(t) = HoldsIn(Now, items, t, root[t], pc[t], stack[t], Middle(t))
    BY HoldsIs
  <2> QED  BY <1>2, <2>1, <2>2 DEF HoldsIn
<1>8. Holds(t) = Middle(t)
  BY <1>6, <1>7, OutlookNone
<1> QED
  BY <1>2, <1>3, <1>4, <1>5, <1>8

\* A tree that is on no way up holds what is below its root.
LEMMA LandedHolds ==
    ASSUME NEW h, root'[h] # Nil, h \in Transients => ~Climbing(pc'[h])
    PROVE  Holds(h)' = Now'[root'[h]]
  BY HoldsIsNext DEF HoldsIn

\* Likewise of the state a step is taken in.
LEMMA RestingHolds ==
    ASSUME NEW h, root[h] # Nil, h \in Transients => ~Climbing(pc[h])
    PROVE  Holds(h) = Now[root[h]]
  BY HoldsIs DEF HoldsIn

\* do_replace of the tree object.
LEMMA RootReplaceHolds ==
    ASSUME NEW owner, MemInv(owner), Shallow, NEW t \in Transients, RootReplace(t)
    PROVE  Holds(t)' = Holds(t) /\ root'[t] # Nil
<1>1. AtRoot(t, "replace") /\ Climbing("replace")
  BY DEF RootReplace, Climbing
<1>2. /\ NewTip(t) = IF ptr[t] = Nil THEN root[t] ELSE ptr[t]
      /\ NewTip(t) \in NodeId /\ Holds(t) = Now[NewTip(t)]
  BY <1>1, TopHolds
<1>3. root'[t] = NewTip(t) /\ pc'[t] \in {"collapse", "done"} /\ UNCHANGED <<items, depth>>
  BY <1>2 DEF RootReplace, Complete, nodes, MemInv, Memory, TypeOK, TreesOK, ControlOK, Handle
<1>4. root'[t] # Nil /\ ~Climbing(pc'[t]) /\ Now' = Now
  BY <1>2, <1>3 DEF NodeId, Nil, Climbing, Now
<1>5. Holds(t)' = Now'[root'[t]]
  BY <1>4, LandedHolds
<1> QED
  BY <1>2, <1>3, <1>4, <1>5

\* The root with one child gives way to it.
LEMMA CollapseHolds ==
    ASSUME NEW owner, MemInv(owner), Shallow, NEW t \in Transients, Collapse(t)
    PROVE  Holds(t)' = Holds(t) /\ root'[t] # Nil
<1>1. Memory
  BY DEF MemInv
<1>2. PICK n, s : n = root[t] /\ s = items[n]
  OBVIOUS
<1>3. pc[t] = "collapse" /\ n \in NodeId /\ depth[n] # 1 /\ Len(s) = 1
  BY <1>1, <1>2 DEF Collapse, Collapsible, Memory, TypeOK, TreesOK, PhaseOK, Pointer, Handle
<1>4. /\ Holding(Now) /\ Now[n] = Gathered(Now, s) /\ s \in Seq(NodeId)
  BY <1>1, <1>2, <1>3, NowTree
<1>5. PICK c : c = s[1]
  OBVIOUS
<1>6. c \in NodeId /\ s = <<c>>
  BY <1>3, <1>4, <1>5
<1>7. Now[n] = Now[c]
  BY <1>4, <1>6, GatheredPair
<1>8. /\ root'[t] = c /\ pc'[t] \in {"collapse", "done"} /\ UNCHANGED <<items, depth>>
  BY <1>1, <1>2, <1>5 DEF Collapse, OnlyChild, Memory, TypeOK, TreesOK, ControlOK, Handle
<1>9. /\ root'[t] # Nil /\ ~Climbing(pc'[t]) /\ Now' = Now
      /\ root[t] # Nil /\ ~Climbing(pc[t])
  BY <1>2, <1>3, <1>6, <1>8 DEF NodeId, Nil, Climbing, Now
<1>10. Holds(t)' = Now'[c] /\ Holds(t) = Now[n]
  BY <1>2, <1>8, <1>9, LandedHolds, RestingHolds
<1> QED
  BY <1>7, <1>9, <1>10

FreshRoot(t, r, new, d) ==
    /\ t \in Transients /\ r \in NodeId /\ Allocates(r, {})
    /\ items' = [items EXCEPT ![r] = new] /\ Makes({r}, d)
    /\ root' = [root EXCEPT ![t] = r] /\ ~Climbing(pc'[t])

\* A tree with a node that was just made for a root.
LEMMA FreshRootHolds ==
    ASSUME Memory, Threads, Shallow, Memory', Shallow',
           NEW t, NEW r, NEW new, NEW d, FreshRoot(t, r, new, d)
    PROVE  /\ Lone({r}) /\ root'[t] = r /\ root'[t] # Nil
           /\ \A n \in NodeId \ {r} : Now'[n] = Now[n]
           /\ d = 1 => Holds(t)' = new
           /\ d # 1 => Holds(t)' = Gathered(Now', new)
<1>1. r \in NodeId /\ r \in FreeNodes /\ t \in Transients /\ ~Climbing(pc'[t])
  BY DEF FreshRoot, Allocates
<1>2. /\ items'[r] = new /\ depth'[r] = d
      /\ \A n \in NodeId \ {r} : items'[n] = items[n] /\ depth'[n] = depth[n]
  BY <1>1 DEF FreshRoot, Makes, Memory, TypeOK, NodesOK
<1>3. root'[t] = r /\ root'[t] # Nil
  BY <1>1 DEF FreshRoot, Memory, TypeOK, TreesOK, Handle, NodeId, Nil
<1>4. Lone({r})
  BY <1>1, <1>2, FreeFacts DEF Lone, Spared, Loose
<1>5. \A n \in NodeId \ {r} : Now'[n] = Now[n]
  <2>1. PICK V : V = {r}
    OBVIOUS
  <2>2. Spares(V)
    BY <1>4, <2>1, LoneApart
  <2> QED  BY <2>1, <2>2, ContentsKept
<1>6. Holds(t)' = Now'[r]
  BY <1>1, <1>3, LandedHolds
<1>7. /\ d = 1 => Now'[r] = new
      /\ d # 1 => Now'[r] = Gathered(Now', new)
  BY <1>1, <1>2, NowTreeNext
<1> QED
  BY <1>3, <1>4, <1>5, <1>6, <1>7

\* do_split of the tree object.
LEMMA RootSplitHolds ==
    ASSUME NEW owner, MemInv(owner), Shallow, Memory', Shallow', NEW t \in Transients,
           RootSplit(t)
    PROVE  /\ Holds(t)' = Holds(t) /\ root'[t] # Nil
           /\ \E r : Lone({r})
<1>0. Memory /\ Threads
  BY DEF MemInv
<1>1. AtRoot(t, "split") /\ Climbing("split")
  BY DEF RootSplit, Climbing
<1>2. PICK a, b : a = NewTip(t) /\ b = right[t]
  OBVIOUS
<1>3. /\ a = IF ptr[t] = Nil THEN root[t] ELSE ptr[t]
      /\ a \in NodeId /\ b \in NodeId /\ root[t] \in NodeId
      /\ Holds(t) = Now[a] \o Now[b]
  BY <1>1, <1>2, TopHolds
<1>4. PICK r \in NodeId :
         /\ Allocates(r, {})
         /\ items' = [items EXCEPT ![r] = <<a, b>>]
         /\ Makes({r}, depth[root[t]] + 1)
         /\ root' = [root EXCEPT ![t] = r]
  BY <1>2, <1>3 DEF RootSplit
<1>5. PICK new, d : new = <<a, b>> /\ d = depth[root[t]] + 1
  OBVIOUS
<1>6. d # 1
  BY <1>0, <1>3, <1>5 DEF Memory, TypeOK, NodesOK
<1>7. ~Climbing(pc'[t])
  BY <1>0 DEF RootSplit, Complete, Memory, TypeOK, ControlOK, Climbing
<1>8. FreshRoot(t, r, new, d)
  BY <1>4, <1>5, <1>7 DEF FreshRoot
<1>9. /\ Lone({r}) /\ root'[t] # Nil
      /\ \A n \in NodeId \ {r} : Now'[n] = Now[n]
      /\ Holds(t)' = Gathered(Now', new)
  BY <1>0, <1>6, <1>8, FreshRootHolds
<1>10. a # r /\ b # r
  <2>1. r \in FreeNodes
    BY <1>4 DEF Allocates
  <2> QED  BY <1>0, <1>2, <1>3, <2>1, FreeFacts DEF Placed, Handle
<1>11. Now'[a] = Now[a] /\ Now'[b] = Now[b]
  BY <1>3, <1>9, <1>10
<1>12. Holding(Now')
  BY NowTreeNext
<1>13. Gathered(Now', <<a, b>>) = Now'[a] \o Now'[b]
  BY <1>3, <1>12, GatheredPair
<1> QED
  BY <1>3, <1>5, <1>9, <1>11, <1>13

\* do_erase of the tree object.
LEMMA RootEraseHolds ==
    ASSUME NEW owner, MemInv(owner), Shallow, Memory', Shallow', NEW t \in Transients,
           RootErase(t)
    PROVE  /\ Holds(t)' = Holds(t) /\ root'[t] # Nil
           /\ \E r : Lone({r})
<1>0. Memory /\ Threads
  BY DEF MemInv
<1>1. AtRoot(t, "erase") /\ Climbing("erase")
  BY DEF RootErase, Climbing
<1>2. Holds(t) = <<>>
  BY <1>1, TopHolds
<1>3. PICK r \in NodeId :
         /\ Allocates(r, {})
         /\ items' = [items EXCEPT ![r] = <<>>]
         /\ Makes({r}, 1)
         /\ root' = [root EXCEPT ![t] = r]
  BY DEF RootErase
<1>4. ~Climbing(pc'[t])
  BY <1>0 DEF RootErase, Complete, Memory, TypeOK, ControlOK, Climbing
<1>5. FreshRoot(t, r, <<>>, 1)
  BY <1>3, <1>4 DEF FreshRoot
<1> QED
  BY <1>0, <1>2, <1>5, FreshRootHolds

\* A new Transient, and one that was cleared.
LEMMA EmptiesHolds ==
    ASSUME NEW owner, MemInv(owner), Shallow, Memory', Shallow', NEW t \in Transients,
           Resting(t), Empties(t)
    PROVE  /\ Holds(t)' = <<>> /\ root'[t] # Nil
           /\ \E r : Lone({r})
<1>0. Memory /\ Threads
  BY DEF MemInv
<1>1. PICK r \in NodeId :
         /\ Allocates(r, {})
         /\ items' = [items EXCEPT ![r] = <<>>]
         /\ Makes({r}, 1)
         /\ root' = [root EXCEPT ![t] = r]
  BY DEF Empties
<1>2. ~Climbing(pc'[t])
  BY DEF Empties, control, Resting, Climbing
<1>3. FreshRoot(t, r, <<>>, 1)
  BY <1>1, <1>2 DEF FreshRoot
<1> QED
  BY <1>0, <1>3, FreshRootHolds

-----------------------------------------------------------------------------
(* The objects a step does not change *)

\* What an object is made of stays as it is,
Steady(h) ==
    /\ Still(h) /\ size'[h] = size[h]
    /\ h \in Transients => op'[h] = op[h]

\* and so does what AtomicSeq sees of it.
Settled(h) ==
    /\ Holds(h)' = Holds(h) /\ size'[h] = size[h]
    /\ root'[h] = Nil <=> root[h] = Nil
    /\ h \in Transients =>
         /\ pc'[h] = "persist" <=> pc[h] = "persist"
         /\ pc[h] = "persist" => Contents(ptr[h])' = Contents(ptr[h])
         /\ pc'[h] = "descend" <=> pc[h] = "descend"
         /\ pc[h] = "descend" => op'[h] = op[h]

\* Only nodes are written that nothing points to, if any.
LEMMA LoneSettled ==
    ASSUME NEW owner, MemInv(owner), Shallow, NEW V, Lone(V), NEW h \in Handle, Steady(h)
    PROVE  Settled(h)
<1>1. Memory /\ Threads /\ Still(h)
  BY DEF MemInv, Steady
<1>2. Spares(V) /\ Apart(V, h)
  BY <1>1, LoneApart
<1>3. /\ Holds(h)' = Holds(h)
      /\ h \in Transients /\ pc[h] = "persist" => Contents(ptr[h])' = Contents(ptr[h])
  BY <1>1, <1>2, HoldsKept
<1> QED
  BY <1>1, <1>3 DEF Still, Steady, Settled

\* Only nodes are written that thread t has for itself, on its way.
LEMMA BesideSettled ==
    ASSUME NEW owner, MemInv(owner), Shallow, NEW t \in Transients, Travels(t),
           Spared(Line(t)), NEW h \in Handle \ {t}, Steady(h)
    PROVE  Settled(h)
<1>1. Memory /\ Threads /\ Still(h)
  BY DEF MemInv, Steady
<1>2. PICK V : V = Line(t)
  OBVIOUS
<1>3. Spares(V) /\ Apart(V, h)
  BY <1>1, <1>2, LineApart
<1>4. /\ Holds(h)' = Holds(h)
      /\ h \in Transients /\ pc[h] = "persist" => Contents(ptr[h])' = Contents(ptr[h])
  BY <1>1, <1>3, HoldsKept
<1> QED
  BY <1>1, <1>4 DEF Still, Steady, Settled

\* No node is written.
LEMMA QuietLone ==
    ASSUME UNCHANGED <<items, depth>>
    PROVE  Lone({})
  BY DEF Lone, Spared

Amends(t, n, dst, R) ==
    /\ t \in Transients /\ ~Busy(t)
    /\ \/ pc[t] = "descend" /\ n = at[t]
       \/ Climbing(pc[t]) /\ stack[t] # <<>> /\ n = Frame(t).node
    /\ R \subseteq FreeNodes /\ dst \in NodeId /\ Rewrites(n, dst, R)
    /\ \A m \in NodeId \ ({dst} \cup R) : items'[m] = items[m] /\ depth'[m] = depth[m]

\* A thread writes a node on its way.
LEMMA AmendsLine ==
    ASSUME NEW owner, MemInv(owner), NEW t, NEW n, NEW dst, NEW R, Amends(t, n, dst, R)
    PROVE  Travels(t) /\ Spared(Line(t))
<1>1. Memory /\ t \in Transients /\ Path(t) /\ R \subseteq FreeNodes
  BY DEF MemInv, Threads, Amends
<1>2. Travels(t)
  BY DEF Amends, Travels, Climbing
<1>3. n \in NodeId /\ (~persistent[n] => n \in OwnLine(t))
  <2>1. n \in NodeId
    BY <1>1, PathPlaced DEF Amends
  <2>2. CASE pc[t] = "descend" /\ n = at[t]
    BY <2>1, <2>2 DEF OwnLine
  <2>3. CASE stack[t] # <<>> /\ n = Frame(t).node
    <3>1. Frame(t) = stack[t][Len(stack[t])] /\ Len(stack[t]) \in 1 .. Len(stack[t])
      BY <1>1, <2>3, PathPlaced
    <3> QED  BY <2>1, <2>3, <3>1 DEF OwnLine
  <2> QED  BY <2>2, <2>3 DEF Amends
<1>4. R \subseteq Line(t)
  BY <1>1, FreeFacts DEF Line
<1>5. dst \in Line(t)
  <2>1. IF persistent[n] THEN dst \in FreeNodes ELSE dst = n
    BY DEF Amends, Rewrites, Allocates
  <2> QED  BY <1>1, <1>3, <2>1, FreeFacts DEF Line
<1>6. Spared(Line(t))
  BY <1>4, <1>5 DEF Amends, Spared
<1> QED
  BY <1>2, <1>6

\* Nodes dst, and those of R if there are any, are written for a leaf.
LEMMA LeafAmends ==
    ASSUME NEW owner, MemInv(owner), NEW t \in Transients, NEW i \in 0 .. LeafSize,
           NEW v \in Values, LeafStep(t, i, v), ~LeafEraseOnly(t, i)
    PROVE  \E dst, R : Amends(t, at[t], dst, R)
<1>1. items \in [NodeId -> Seq(Values) \cup Seq(NodeId)]
  BY DEF MemInv, Memory, TypeOK, NodesOK
<1>2. ~Busy(t) /\ pc[t] = "descend"
  BY DEF LeafStep, LeafInsert, LeafSplit, LeafAssign, LeafErase, AtLeaf
<1>3. CASE LeafInsert(t, i, v) \/ LeafAssign(t, i, v) \/ LeafErase(t, i)
  <2>1. PICK dst \in NodeId :
          /\ Rewrites(at[t], dst, {}) /\ Makes({dst}, 1)
          /\ \E new : items' = [items EXCEPT ![dst] = new]
    BY <1>3 DEF LeafInsert, LeafAssign, LeafErase
  <2>2. \A m \in NodeId \ ({dst} \cup {}) : items'[m] = items[m] /\ depth'[m] = depth[m]
    BY <1>1, <2>1 DEF Makes
  <2>3. Amends(t, at[t], dst, {})
    BY <1>2, <2>1, <2>2 DEF Amends
  <2> QED  BY <2>3
<1>4. CASE LeafSplit(t, i, v)
  <2>1. PICK r \in NodeId, dst \in NodeId :
          /\ Allocates(r, {}) /\ Rewrites(at[t], dst, {r}) /\ Makes({dst, r}, 1)
          /\ \E x, y : items' = [items EXCEPT ![dst] = x, ![r] = y]
    BY <1>4 DEF LeafSplit
  <2>2. \A m \in NodeId \ ({dst} \cup {r}) : items'[m] = items[m] /\ depth'[m] = depth[m]
    BY <1>1, <2>1 DEF Makes
  <2>3. {r} \subseteq FreeNodes
    BY <2>1 DEF Allocates
  <2>4. Amends(t, at[t], dst, {r})
    BY <1>2, <2>1, <2>2, <2>3 DEF Amends
  <2> QED  BY <2>4
<1> QED
  BY <1>3, <1>4 DEF LeafStep

\* A step at a leaf changes no other object.
LEMMA LeafStepBeside ==
    ASSUME NEW owner, MemInv(owner), Shallow, NEW t \in Transients, NEW i \in 0 .. LeafSize,
           NEW v \in Values, LeafStep(t, i, v)
    PROVE  \A h \in Handle \ {t} : Settled(h)
<1>1. /\ pc \in [Transients -> PhaseSet] /\ size \in [Handle -> Nat]
      /\ ptr \in [Transients -> Pointer] /\ right \in [Transients -> Pointer]
  BY DEF MemInv, Memory, TypeOK, TreesOK, ControlOK, ResultOK
<1>2. UNCHANGED <<op, stack, root>>
  BY DEF LeafStep, LeafInsert, LeafSplit, LeafAssign, LeafErase, LeafEraseOnly, LeavesLeaf
<1>3. size' = size \/ \E c : size' = [size EXCEPT ![t] = c]
  BY DEF LeafStep, LeafInsert, LeafSplit, LeafAssign, LeafErase, LeafEraseOnly, Grows, Shrinks
<1>4. /\ \E a : pc' = [pc EXCEPT ![t] = a]
      /\ (\E b : ptr' = [ptr EXCEPT ![t] = b]) \/ ptr' = ptr
      /\ (\E c : right' = [right EXCEPT ![t] = c]) \/ right' = right
  <2>1. CASE LeafEraseOnly(t, i)
    BY <2>1 DEF LeafEraseOnly, CallErase
  <2>2. CASE LeafInsert(t, i, v) \/ LeafAssign(t, i, v) \/ LeafErase(t, i)
    <3>1. \E x, c : CallReplace(t, x, c)
      BY <2>2 DEF LeafInsert, LeafAssign, LeafErase
    <3> QED  BY <3>1 DEF CallReplace
  <2>3. CASE LeafSplit(t, i, v)
    <3>1. \E x, r, c : CallSplit(t, x, r, c)
      BY <2>3 DEF LeafSplit
    <3> QED  BY <3>1 DEF CallSplit
  <2> QED  BY <2>1, <2>2, <2>3 DEF LeafStep
<1>5. ASSUME NEW h \in Handle \ {t} PROVE Steady(h)
  BY <1>1, <1>2, <1>3, <1>4 DEF Steady, Still
<1>6. CASE LeafEraseOnly(t, i)
  <2>1. UNCHANGED <<items, depth>>
    BY <1>6 DEF LeafEraseOnly, nodes
  <2> QED  BY <1>5, <2>1, QuietLone, LoneSettled
<1>7. CASE ~LeafEraseOnly(t, i)
  <2>1. PICK dst, R : Amends(t, at[t], dst, R)
    BY <1>7, LeafAmends
  <2>2. PICK n : n = at[t]
    OBVIOUS
  <2>3. Travels(t) /\ Spared(Line(t))
    BY <2>1, <2>2, AmendsLine
  <2> QED  BY <1>5, <2>3, BesideSettled
<1> QED
  BY <1>6, <1>7

\* Thread t writes a new version of an inner node.
Rebuilds(t) ==
    InternalReplace(t) \/ InternalInsert(t) \/ InternalSplit(t) \/ InternalErase(t)

\* Nodes are written for the node of the innermost frame.
LEMMA InnerAmends ==
    ASSUME NEW owner, MemInv(owner), NEW t \in Transients, Rebuilds(t)
    PROVE  \E n, dst, R : Amends(t, n, dst, R)
<1>1. items \in [NodeId -> Seq(Values) \cup Seq(NodeId)]
  BY DEF MemInv, Memory, TypeOK, NodesOK
<1>2. ~Busy(t) /\ Climbing(pc[t]) /\ stack[t] # <<>>
  BY DEF Rebuilds, InternalReplace, InternalInsert, InternalSplit, InternalErase, AtNode, Climbing
<1>3. PICK n : n = Frame(t).node
  OBVIOUS
<1>4. CASE InternalReplace(t) \/ InternalInsert(t) \/ InternalErase(t)
  <2>1. PICK dst \in NodeId :
          /\ Rewrites(n, dst, {}) /\ Makes({dst}, depth[n])
          /\ \E new : items' = [items EXCEPT ![dst] = new]
    BY <1>3, <1>4 DEF InternalReplace, InternalInsert, InternalErase
  <2>2. \A m \in NodeId \ ({dst} \cup {}) : items'[m] = items[m] /\ depth'[m] = depth[m]
    BY <1>1, <2>1 DEF Makes
  <2>3. Amends(t, n, dst, {})
    BY <1>2, <1>3, <2>1, <2>2 DEF Amends
  <2> QED  BY <2>3
<1>5. CASE InternalSplit(t)
  <2>1. PICK r \in NodeId, dst \in NodeId :
          /\ Allocates(r, {}) /\ Rewrites(n, dst, {r}) /\ Makes({dst, r}, depth[n])
          /\ \E x, y : items' = [items EXCEPT ![dst] = x, ![r] = y]
    BY <1>3, <1>5 DEF InternalSplit
  <2>2. \A m \in NodeId \ ({dst} \cup {r}) : items'[m] = items[m] /\ depth'[m] = depth[m]
    BY <1>1, <2>1 DEF Makes
  <2>3. {r} \subseteq FreeNodes
    BY <2>1 DEF Allocates
  <2>4. Amends(t, n, dst, {r})
    BY <1>2, <1>3, <2>1, <2>2, <2>3 DEF Amends
  <2> QED  BY <2>4
<1> QED
  BY <1>4, <1>5 DEF Rebuilds

\* A continuation of an inner node changes no object at all.
LEMMA InnerSettled ==
    ASSUME NEW owner, MemInv(owner), Shallow, Memory', Shallow', NEW t \in Transients, Rebuilds(t)
    PROVE  \A h \in Handle : Settled(h)
<1>1. /\ pc \in [Transients -> PhaseSet] /\ stack \in [Transients -> Seq(FrameSet)]
      /\ ptr \in [Transients -> Pointer] /\ right \in [Transients -> Pointer]
  BY DEF MemInv, Memory, TypeOK, ControlOK, ResultOK
<1>2. UNCHANGED <<op, root, size>>
  BY DEF Rebuilds, InternalReplace, InternalInsert, InternalSplit, InternalErase, trees
<1>3. /\ \E a \in {"replace", "split"} : pc' = [pc EXCEPT ![t] = a]
      /\ \E b : ptr' = [ptr EXCEPT ![t] = b]
      /\ \E c : right' = [right EXCEPT ![t] = c]
      /\ \E s : stack' = [stack EXCEPT ![t] = s]
  <2>1. \/ \E x, c : CallReplace(t, x, c)
        \/ \E x, r, c : CallSplit(t, x, r, c)
    BY DEF Rebuilds, InternalReplace, InternalInsert, InternalSplit, InternalErase
  <2>2. Pops(t)
    BY DEF Rebuilds, InternalReplace, InternalInsert, InternalSplit, InternalErase
  <2> QED  BY <2>1, <2>2 DEF CallReplace, CallSplit, Pops
<1>4. ASSUME NEW h \in Handle \ {t} PROVE Steady(h)
  BY <1>1, <1>2, <1>3 DEF Steady, Still
<1>5. PICK n, dst, R : Amends(t, n, dst, R)
  BY InnerAmends
<1>6. Travels(t) /\ Spared(Line(t))
  BY <1>5, AmendsLine
<1>7. ASSUME NEW h \in Handle \ {t} PROVE Settled(h)
  BY <1>4, <1>6, BesideSettled
<1>8. Holds(t)' = Holds(t)
  BY InternalReplaceHolds, InternalInsertHolds, InternalSplitHolds, InternalEraseHolds DEF Rebuilds
<1>9. Climbing(pc[t])
  BY DEF Rebuilds, InternalReplace, InternalInsert, InternalSplit, InternalErase, AtNode, Climbing
<1>10. Settled(t)
  BY <1>1, <1>2, <1>3, <1>8, <1>9 DEF Settled, Climbing
<1> QED
  BY <1>7, <1>10

\* dec_ref, and the destructors it starts.
LEMMA DecRefSettled ==
    ASSUME NEW owner, MemInv(owner), Shallow, NEW t \in Transients, DecRef(t)
    PROVE  \A h \in Handle : Settled(h)
<1>1. Memory /\ Threads
  BY DEF MemInv
<1>2. items \in [NodeId -> Seq(Values) \cup Seq(NodeId)] /\ drop \in [Transients -> Pointer]
      /\ dying \in [Transients -> Seq(NodeId)]
  BY <1>1 DEF Memory, TypeOK, NodesOK, ChoresOK
<1>3. \A h \in Handle : Steady(h)
  BY DEF DecRef, DropReference, DeleteNode, DestroyChild, trees, control, result, Steady, Still
<1>4. CASE UNCHANGED <<items, depth>>
  BY <1>3, <1>4, QuietLone, LoneSettled
<1>5. CASE DeleteNode(t) /\ depth[drop[t]] = 1
  <2>1. PICK n : n = drop[t]
    OBVIOUS
  <2>2. n \in NodeId /\ refs[n] = 1
    BY <1>2, <1>5, <2>1 DEF DeleteNode, Pointer
  <2>3. Loose(n)
    BY <1>1, <2>1, <2>2, SoleDrop DEF Loose
  <2>4. Spared({n})
    BY <1>2, <1>5, <2>1, <2>2 DEF DeleteNode, Frees, Makes, Spared
  <2>5. Lone({n})
    BY <2>2, <2>3, <2>4 DEF Lone
  <2> QED  BY <1>3, <2>5, LoneSettled
<1>6. CASE DestroyChild(t)
  <2>1. PICK n : n = dying[t][Len(dying[t])]
    OBVIOUS
  <2>2. Len(dying[t]) \in 1 .. Len(dying[t])
    BY <1>2, <1>6, LenProperties DEF DestroyChild
  <2>3. n \in NodeId /\ refs[n] = 0
    BY <1>1, <1>2, <2>1, <2>2, ElementOfSeq DEF Memory, RefExact, Dying
  <2>4. Loose(n)
    BY <1>1, <2>3, AliveNow DEF Loose
  <2>5. Spared({n})
    BY <1>2, <1>6, <2>1, <2>3 DEF DestroyChild, Frees, Makes, Spared
  <2>6. Lone({n})
    BY <2>3, <2>4, <2>5 DEF Lone
  <2> QED  BY <1>3, <2>6, LoneSettled
<1> QED
  BY <1>4, <1>5, <1>6 DEF DecRef, DropReference, DeleteNode

Silent(t) ==
    \/ \E i \in 0 .. InternalSize - 1 : Descend(t, i)
    \/ SeekEnd(t) \/ Return(t) \/ Mark(t) \/ InternalEraseOnly(t)
    \/ RootReplace(t) \/ Collapse(t) \/ RootSplit(t) \/ RootErase(t)

\* The thread's own tree holds what it did.
LEMMA SilentHolds ==
    ASSUME NEW owner, MemInv(owner), Shallow, Memory', Shallow', NEW t \in Transients,
           Silent(t)
    PROVE  /\ Holds(t)' = Holds(t) /\ (root'[t] = Nil <=> root[t] = Nil)
           /\ \E V : Lone(V)
<1>1. Memory /\ t \in Handle
  BY DEF MemInv, Handle
<1>2. CASE \/ \E i \in 0 .. InternalSize - 1 : Descend(t, i)
           \/ SeekEnd(t) \/ Return(t) \/ Mark(t)
  <2>1. UNCHANGED <<items, depth, root>>
    BY <1>2 DEF Descend, SeekEnd, Return, Mark, nodes, trees
  <2>2. Holds(t)' = Holds(t)
    BY <1>1, <1>2, WalkHolds
  <2> QED  BY <2>1, <2>2, QuietLone
<1>3. CASE InternalEraseOnly(t)
  <2>1. UNCHANGED <<items, depth, root>>
    BY <1>3 DEF InternalEraseOnly, nodes, trees
  <2> QED  BY <1>3, <2>1, QuietLone, InternalEraseOnlyHolds
<1>4. pc[t] \in {"replace", "split", "erase", "collapse"} => root[t] # Nil
  BY <1>1 DEF Memory, TypeOK, PhaseOK
<1>5. CASE RootReplace(t)
  <2>1. UNCHANGED <<items, depth>> /\ pc[t] = "replace"
    BY <1>5 DEF RootReplace, AtRoot, nodes
  <2> QED  BY <1>4, <1>5, <2>1, QuietLone, RootReplaceHolds
<1>6. CASE Collapse(t)
  <2>1. UNCHANGED <<items, depth>> /\ pc[t] = "collapse"
    BY <1>6 DEF Collapse
  <2> QED  BY <1>4, <1>6, <2>1, QuietLone, CollapseHolds
<1>7. CASE RootSplit(t)
  <2>1. pc[t] = "split"
    BY <1>7 DEF RootSplit, AtRoot
  <2> QED  BY <1>4, <1>7, <2>1, RootSplitHolds
<1>8. CASE RootErase(t)
  <2>1. pc[t] = "erase"
    BY <1>8 DEF RootErase, AtRoot
  <2> QED  BY <1>4, <1>8, <2>1, RootEraseHolds
<1> QED
  BY <1>2, <1>3, <1>5, <1>6, <1>7, <1>8 DEF Silent

\* The steps of an operation that are neither its first nor the one at its leaf.
LEMMA SilentSettled ==
    ASSUME NEW owner, MemInv(owner), Shallow, Memory', Shallow', NEW t \in Transients,
           Silent(t)
    PROVE  \A h \in Handle : Settled(h)
<1>1. /\ pc \in [Transients -> PhaseSet] /\ stack \in [Transients -> Seq(FrameSet)]
      /\ ptr \in [Transients -> Pointer] /\ right \in [Transients -> Pointer]
      /\ op \in [Transients -> Operations \cup {"none"}]
      /\ root \in [Handle -> Pointer]
  BY DEF MemInv, Memory, TypeOK, TreesOK, ControlOK, ResultOK
<1>2. PICK V : Lone(V)
  BY SilentHolds
<1>3. Holds(t)' = Holds(t) /\ (root'[t] = Nil <=> root[t] = Nil)
  BY SilentHolds
<1>4. size' = size
  BY DEF Silent, Descend, SeekEnd, Return, Mark, InternalEraseOnly, RootReplace, Collapse,
         RootSplit, RootErase, trees
<1>5. ASSUME NEW h \in Handle \ {t} PROVE Steady(h)
  <2>1. CASE \E i \in 0 .. InternalSize - 1 : Descend(t, i)
    BY <1>1, <1>4, <2>1 DEF Descend, trees, result, Steady, Still
  <2>2. CASE SeekEnd(t) \/ Return(t)
    BY <1>1, <1>4, <2>2 DEF SeekEnd, Return, trees, Steady, Still
  <2>3. CASE Mark(t)
    BY <1>1, <1>4, <2>3 DEF Mark, trees, control, result, Steady, Still
  <2>4. CASE InternalEraseOnly(t)
    BY <1>1, <1>4, <2>4 DEF InternalEraseOnly, CallErase, Pops, trees, Steady, Still
  <2>5. CASE RootReplace(t)
    BY <1>1, <1>4, <2>5 DEF RootReplace, Complete, Steady, Still
  <2>6. CASE Collapse(t)
    BY <1>1, <1>4, <2>6 DEF Collapse, result, Steady, Still
  <2>7. CASE RootSplit(t)
    <3>1. /\ \E r : root' = [root EXCEPT ![t] = r]
          /\ Complete(t, "done") /\ UNCHANGED <<op, stack>>
      BY <2>7 DEF RootSplit
    <3> QED  BY <1>1, <1>4, <3>1 DEF Complete, Steady, Still
  <2>8. CASE RootErase(t)
    <3>1. /\ \E r : root' = [root EXCEPT ![t] = r]
          /\ Complete(t, "done") /\ UNCHANGED <<op, stack>>
      BY <2>8 DEF RootErase
    <3> QED  BY <1>1, <1>4, <3>1 DEF Complete, Steady, Still
  <2> QED  BY <2>1, <2>2, <2>3, <2>4, <2>5, <2>6, <2>7, <2>8 DEF Silent
<1>6. ASSUME NEW h \in Handle \ {t} PROVE Settled(h)
  BY <1>2, <1>5, LoneSettled
<1>7. Settled(t)
  <2>1. CASE Mark(t)
    <3>1. Steady(t)
      BY <2>1 DEF Mark, trees, control, result, Steady, Still
    <3>2. t \in Handle
      BY DEF Handle
    <3> QED  BY <1>2, <3>1, <3>2, LoneSettled
  <2>2. CASE \E i \in 0 .. InternalSize - 1 : Descend(t, i)
    BY <1>3, <1>4, <2>2 DEF Descend, Settled
  <2>3. CASE SeekEnd(t) \/ Return(t)
    BY <1>1, <1>3, <1>4, <2>3 DEF SeekEnd, Seeking, Return, Settled
  <2>4. CASE InternalEraseOnly(t)
    BY <1>1, <1>3, <1>4, <2>4 DEF InternalEraseOnly, AtNode, CallErase, Settled
  <2>5. CASE RootReplace(t)
    BY <1>1, <1>3, <1>4, <2>5 DEF RootReplace, AtRoot, Complete, Settled
  <2>6. CASE Collapse(t)
    BY <1>1, <1>3, <1>4, <2>6 DEF Collapse, Settled
  <2>7. CASE RootSplit(t) \/ RootErase(t)
    <3>1. pc[t] \in {"split", "erase"} /\ Complete(t, "done")
      BY <2>7 DEF RootSplit, RootErase, AtRoot
    <3> QED  BY <1>1, <1>3, <1>4, <3>1 DEF Complete, Settled
  <2> QED  BY <2>1, <2>2, <2>3, <2>4, <2>5, <2>6, <2>7 DEF Silent
<1> QED
  BY <1>6, <1>7

-----------------------------------------------------------------------------
(* What AtomicSeq sees of a step *)

LEMMA ObjectIs ==
    /\ Objects = [h \in Handle |-> Objects[h]]
    /\ Making = [t \in Transients |-> Making[t]]
    /\ Calling = [t \in Transients |-> Calling[t]]
    /\ \A h \in Handle :
         /\ root[h] = Nil => Objects[h] = AS!NoTree
         /\ root[h] # Nil => Objects[h] = AS!Tree(Holds(h))
    /\ \A t \in Transients :
         /\ pc[t] = "persist" => Making[t] = AS!Tree(Contents(ptr[t]))
         /\ pc[t] # "persist" => Making[t] = AS!NoTree
         /\ pc[t] = "descend" => Calling[t] = op[t]
         /\ pc[t] # "descend" => Calling[t] = "none"
<1>1. \A h \in Handle : root[h] = Nil => Holds(h) = <<>>
  BY HoldsIs DEF HoldsIn
<1> QED
  BY <1>1 DEF Objects, Making, Calling, AS!Tree, AS!NoTree

\* The same of the next state.
LEMMA ObjectIsNext ==
    (/\ Objects = [h \in Handle |-> Objects[h]]
     /\ Making = [t \in Transients |-> Making[t]]
     /\ Calling = [t \in Transients |-> Calling[t]]
     /\ \A h \in Handle :
          /\ root[h] = Nil => Objects[h] = AS!NoTree
          /\ root[h] # Nil => Objects[h] = AS!Tree(Holds(h))
     /\ \A t \in Transients :
          /\ pc[t] = "persist" => Making[t] = AS!Tree(Contents(ptr[t]))
          /\ pc[t] # "persist" => Making[t] = AS!NoTree
          /\ pc[t] = "descend" => Calling[t] = op[t]
          /\ pc[t] # "descend" => Calling[t] = "none")'
  BY ObjectIs, PTL

\* An object is there or not.
LEMMA TreesLive ==
    \A s : AS!Tree(s) # AS!NoTree /\ AS!Tree(s).seq = s
  BY DEF AS!Tree, AS!NoTree

SizeAt(h) ==
    /\ root[h] # Nil => size[h] = Len(Holds(h))
    /\ h \in Transients /\ pc[h] = "persist" => size[h] = Len(Contents(ptr[h]))

SizeInv == \A h \in Handle : SizeAt(h)

\* Nothing has changed for object h.
Unseen(h) ==
    /\ Objects'[h] = Objects[h]
    /\ h \in Transients => Making'[h] = Making[h] /\ Calling'[h] = Calling[h]
    /\ SizeAt(h) => SizeAt(h)'

LEMMA SettledUnseen ==
    ASSUME NEW h \in Handle, Settled(h)
    PROVE  Unseen(h)
<1>1. Objects'[h] = Objects[h]
  <2>1. CASE root[h] = Nil
    BY <2>1, ObjectIs, ObjectIsNext DEF Settled
  <2>2. CASE root[h] # Nil
    <3>1. Objects[h] = AS!Tree(Holds(h)) /\ Objects'[h] = AS!Tree(Holds(h)')
      BY <2>2, ObjectIs, ObjectIsNext DEF Settled
    <3> QED  BY <3>1 DEF Settled
  <2> QED  BY <2>1, <2>2
<1>2. ASSUME h \in Transients PROVE Making'[h] = Making[h]
  <2>1. CASE pc[h] # "persist"
    BY <1>2, <2>1, ObjectIs, ObjectIsNext DEF Settled
  <2>2. CASE pc[h] = "persist"
    <3>1. Making[h] = AS!Tree(Contents(ptr[h])) /\ Making'[h] = AS!Tree(Contents(ptr[h])')
      BY <1>2, <2>2, ObjectIs, ObjectIsNext DEF Settled
    <3> QED  BY <1>2, <2>2, <3>1 DEF Settled
  <2> QED  BY <2>1, <2>2
<1>3. ASSUME h \in Transients PROVE Calling'[h] = Calling[h]
  BY <1>3, ObjectIs, ObjectIsNext DEF Settled
<1>4. SizeAt(h) => SizeAt(h)'
  BY DEF SizeAt, Settled
<1> QED
  BY <1>1, <1>2, <1>3, <1>4 DEF Unseen

\* A function that differs from another at x.
DiffersAt(D, F, G, x, y) ==
    /\ F = [h \in D |-> F[h]] /\ G = [h \in D |-> G[h]] /\ x \in D /\ G[x] = y
    /\ \A h \in D \ {x} : G[h] = F[h]

LEMMA ExceptOne ==
    ASSUME NEW D, NEW F, NEW G, NEW x, NEW y, DiffersAt(D, F, G, x, y)
    PROVE  G = [F EXCEPT ![x] = y]
<1>1. [F EXCEPT ![x] = y] = [h \in D |-> IF h = x THEN y ELSE F[h]]
  BY DEF DiffersAt
<1>2. \A h \in D : G[h] = IF h = x THEN y ELSE F[h]
  BY DEF DiffersAt
<1>3. G = [h \in D |-> IF h = x THEN y ELSE F[h]]
  BY <1>2 DEF DiffersAt
<1> QED
  BY <1>1, <1>3

\* All that a step does, but to the objects of X.
Elsewhere(X) == \A h \in Handle \ X : Unseen(h)

LEMMA ElsewhereSame ==
    ASSUME NEW X, Elsewhere(X)
    PROVE  /\ X \cap Handle = {} => Objects' = Objects
           /\ \A x \in Handle : \A y : X \cap Handle \subseteq {x} /\ Objects'[x] = y =>
                Objects' = [Objects EXCEPT ![x] = y]
           /\ X \cap Transients = {} => Making' = Making /\ Calling' = Calling
           /\ \A t \in Transients : \A y : X \cap Transients \subseteq {t} /\ Making'[t] = y =>
                Making' = [Making EXCEPT ![t] = y]
           /\ \A t \in Transients : \A y : X \cap Transients \subseteq {t} /\ Calling'[t] = y =>
                Calling' = [Calling EXCEPT ![t] = y]
           /\ SizeInv /\ (\A h \in X : SizeAt(h)') => SizeInv'
<1>1. \A h \in Handle \ X : Objects'[h] = Objects[h]
  BY DEF Elsewhere, Unseen
<1>2. \A t \in Transients \ X : Making'[t] = Making[t] /\ Calling'[t] = Calling[t]
  BY DEF Elsewhere, Unseen, Handle
<1>3. ASSUME NEW x \in Handle, NEW y, X \cap Handle \subseteq {x}, Objects'[x] = y
      PROVE  Objects' = [Objects EXCEPT ![x] = y]
  <2>1. PICK F, G : F = Objects /\ G = Objects'
    OBVIOUS
  <2>2. \A h \in Handle \ {x} : Objects'[h] = Objects[h]
    BY <1>1, <1>3
  <2>3. DiffersAt(Handle, F, G, x, y)
    BY <1>3, <2>1, <2>2, ObjectIs, ObjectIsNext DEF DiffersAt
  <2> QED  BY <2>1, <2>3, ExceptOne
<1>4. ASSUME NEW t \in Transients, NEW y, X \cap Transients \subseteq {t}, Making'[t] = y
      PROVE  Making' = [Making EXCEPT ![t] = y]
  <2>1. PICK F, G : F = Making /\ G = Making'
    OBVIOUS
  <2>2. \A h \in Transients \ {t} : Making'[h] = Making[h]
    BY <1>2, <1>4
  <2>3. DiffersAt(Transients, F, G, t, y)
    BY <1>4, <2>1, <2>2, ObjectIs, ObjectIsNext DEF DiffersAt
  <2> QED  BY <2>1, <2>3, ExceptOne
<1>5. ASSUME NEW t \in Transients, NEW y, X \cap Transients \subseteq {t}, Calling'[t] = y
      PROVE  Calling' = [Calling EXCEPT ![t] = y]
  <2>1. PICK F, G : F = Calling /\ G = Calling'
    OBVIOUS
  <2>2. \A h \in Transients \ {t} : Calling'[h] = Calling[h]
    BY <1>2, <1>5
  <2>3. DiffersAt(Transients, F, G, t, y)
    BY <1>5, <2>1, <2>2, ObjectIs, ObjectIsNext DEF DiffersAt
  <2> QED  BY <2>1, <2>3, ExceptOne
<1>6. ASSUME X \cap Handle = {} PROVE Objects' = Objects
  <2>1. \A h \in Handle : Objects'[h] = Objects[h]
    BY <1>1, <1>6
  <2>2. PICK F, G : F = Objects /\ G = Objects'
    OBVIOUS
  <2>3. F = [h \in Handle |-> F[h]] /\ G = [h \in Handle |-> G[h]] /\ \A h \in Handle : G[h] = F[h]
    BY <2>1, <2>2, ObjectIs, ObjectIsNext
  <2>4. F = G
    BY <2>3
  <2> QED  BY <2>2, <2>4
<1>7. ASSUME X \cap Transients = {} PROVE Making' = Making /\ Calling' = Calling
  <2>1. \A t \in Transients : Making'[t] = Making[t] /\ Calling'[t] = Calling[t]
    BY <1>2, <1>7
  <2>2. PICK F, G : F = Making /\ G = Making'
    OBVIOUS
  <2>3. /\ F = [t \in Transients |-> F[t]] /\ G = [t \in Transients |-> G[t]]
        /\ \A t \in Transients : G[t] = F[t]
    BY <2>1, <2>2, ObjectIs, ObjectIsNext
  <2>4. F = G
    BY <2>3
  <2>5. PICK I, J : I = Calling /\ J = Calling'
    OBVIOUS
  <2>6. /\ I = [t \in Transients |-> I[t]] /\ J = [t \in Transients |-> J[t]]
        /\ \A t \in Transients : J[t] = I[t]
    BY <2>1, <2>5, ObjectIs, ObjectIsNext
  <2>7. I = J
    BY <2>6
  <2> QED  BY <2>2, <2>4, <2>5, <2>7
<1>8. SizeInv /\ (\A h \in X : SizeAt(h)') => SizeInv'
  <2> SUFFICES ASSUME SizeInv, \A h \in X : SizeAt(h)', NEW h \in Handle PROVE SizeAt(h)'
    BY DEF SizeInv
  <2> QED  BY DEF SizeInv, Elsewhere, Unseen
<1> QED
  BY <1>3, <1>4, <1>5, <1>6, <1>7, <1>8

LEMMA ElsewhereQuiet ==
    ASSUME NEW t \in Transients, Elsewhere({t})
    PROVE  /\ Objects'[t] = Objects[t] => Objects' = Objects
           /\ Making'[t] = Making[t] => Making' = Making
           /\ Calling'[t] = Calling[t] => Calling' = Calling
<1>1. t \in Handle
  BY DEF Handle
<1>2. PICK F, M, C : F = Objects /\ M = Making /\ C = Calling
  OBVIOUS
<1>3. /\ F = [h \in Handle |-> F[h]] /\ M = [h \in Transients |-> M[h]]
      /\ C = [h \in Transients |-> C[h]]
  BY <1>2, ObjectIs
<1>4. [F EXCEPT ![t] = F[t]] = F /\ [M EXCEPT ![t] = M[t]] = M /\ [C EXCEPT ![t] = C[t]] = C
  BY <1>1, <1>3
<1>5. /\ Objects'[t] = F[t] => Objects' = [F EXCEPT ![t] = F[t]]
      /\ Making'[t] = M[t] => Making' = [M EXCEPT ![t] = M[t]]
      /\ Calling'[t] = C[t] => Calling' = [C EXCEPT ![t] = C[t]]
  <2>1. PICK x, y, z : x = F[t] /\ y = M[t] /\ z = C[t]
    OBVIOUS
  <2>2. {t} \cap Handle \subseteq {t} /\ {t} \cap Transients \subseteq {t}
    OBVIOUS
  <2> QED  BY <1>1, <1>2, <2>1, <2>2, ElsewhereSame
<1> QED
  BY <1>2, <1>4, <1>5

Seen == Objects' # Objects \/ Making' # Making \/ Calling' # Calling

\* Steps that change none of the objects.
LEMMA SilentMaps ==
    ASSUME \A h \in Handle : Settled(h)
    PROVE  ~Seen /\ (SizeInv => SizeInv')
<1>1. Elsewhere({})
  BY SettledUnseen DEF Elsewhere
<1>2. {} \cap Handle = {} /\ {} \cap Transients = {}
  OBVIOUS
<1> QED
  BY <1>1, <1>2, ElsewhereSame DEF Seen

\* The beginning of an operation.
LEMMA BeginMaps ==
    ASSUME NEW owner, MemInv(owner), Shallow, NEW t \in Transients,
           NEW name \in Operations, Begin(t, name)
    PROVE  AS!Begin(t) /\ (SizeInv => SizeInv')
<1>1. /\ pc \in [Transients -> PhaseSet] /\ op \in [Transients -> Operations \cup {"none"}]
      /\ Memory /\ t \in Handle
  BY DEF MemInv, Memory, TypeOK, ControlOK, Handle
<1>2. UNCHANGED <<items, depth, root, size, stack, ptr, right>>
  BY DEF Begin, nodes, trees, result
<1>3. pc' = [pc EXCEPT ![t] = "descend"] /\ op' = [op EXCEPT ![t] = name] /\ pc[t] = "idle"
      /\ root[t] # Nil
  BY DEF Begin, Resting
<1>4. \A h \in Handle \ {t} : Steady(h)
  BY <1>1, <1>2, <1>3 DEF Steady, Still
<1>5. Elsewhere({t})
  BY <1>2, <1>4, QuietLone, LoneSettled, SettledUnseen DEF Elsewhere
<1>6. Holds(t)' = Holds(t)
  BY <1>1, WalkHolds
<1>7. pc'[t] = "descend" /\ op'[t] = name
  BY <1>1, <1>3
<1>8. /\ Objects[t] = AS!Tree(Holds(t)) /\ Objects'[t] = AS!Tree(Holds(t)')
      /\ Making[t] = AS!NoTree /\ Making'[t] = AS!NoTree
      /\ Calling[t] = "none" /\ Calling'[t] = name
  BY <1>1, <1>2, <1>3, <1>7, ObjectIs, ObjectIsNext
<1>9. Objects' = Objects /\ Making' = Making
  BY <1>5, <1>6, <1>8, ElsewhereQuiet
<1>10. Calling' = [Calling EXCEPT ![t] = name]
  <2>1. {t} \cap Transients \subseteq {t}
    OBVIOUS
  <2> QED  BY <1>5, <1>8, <2>1, ElsewhereSame
<1>11. SizeInv => SizeInv'
  <2>1. SizeAt(t) => SizeAt(t)'
    BY <1>2, <1>6, <1>7 DEF SizeAt
  <2> QED  BY <1>1, <1>5, <2>1, ElsewhereSame DEF SizeInv
<1>12. Objects[t] # AS!NoTree
  BY <1>8, TreesLive
<1> QED
  BY <1>8, <1>9, <1>10, <1>11, <1>12 DEF AS!Begin, AS!objects

\* An operation that finds nothing to do.
LEMMA KeepMaps ==
    ASSUME NEW owner, MemInv(owner), Shallow, NEW t \in Transients, LeafKeep(t)
    PROVE  AS!TakeEffect(t) /\ (SizeInv => SizeInv')
<1>1. /\ pc \in [Transients -> PhaseSet] /\ stack \in [Transients -> Seq(FrameSet)]
      /\ Memory /\ t \in Handle
  BY DEF MemInv, Memory, TypeOK, ControlOK, Handle
<1>2. UNCHANGED <<items, depth, root, size, op, ptr, right>>
  BY DEF LeafKeep, nodes, trees, result
<1>3. /\ pc' = [pc EXCEPT ![t] = "done"] /\ stack' = [stack EXCEPT ![t] = <<>>]
      /\ pc[t] = "descend" /\ op[t] \in {"update", "insert_v"}
  BY DEF LeafKeep, AtLeaf, Keeping
<1>4. root[t] # Nil
  BY <1>1, <1>3 DEF Memory, TypeOK, PhaseOK
<1>5. \A h \in Handle \ {t} : Steady(h)
  BY <1>1, <1>2, <1>3 DEF Steady, Still
<1>6. Elsewhere({t})
  BY <1>2, <1>5, QuietLone, LoneSettled, SettledUnseen DEF Elsewhere
<1>7. Holds(t)' = Holds(t)
  BY <1>1, WalkHolds
<1>8. pc'[t] = "done"
  BY <1>1, <1>3
<1>9. /\ Objects[t] = AS!Tree(Holds(t)) /\ Objects'[t] = AS!Tree(Holds(t)')
      /\ Making[t] = AS!NoTree /\ Making'[t] = AS!NoTree
      /\ Calling[t] = op[t] /\ Calling'[t] = "none"
  BY <1>1, <1>2, <1>3, <1>4, <1>8, ObjectIs, ObjectIsNext
<1>10. Making' = Making
  BY <1>6, <1>9, ElsewhereQuiet
<1>11. PICK s : s = Holds(t)
  OBVIOUS
<1>12. /\ Calling' = [Calling EXCEPT ![t] = "none"]
       /\ Objects' = [Objects EXCEPT ![t] = AS!Tree(s)]
  <2>1. {t} \cap Transients \subseteq {t} /\ {t} \cap Handle \subseteq {t}
    OBVIOUS
  <2>2. Objects'[t] = AS!Tree(s)
    BY <1>7, <1>9, <1>11
  <2> QED  BY <1>1, <1>6, <1>9, <2>1, <2>2, ElsewhereSame
<1>13. s \in AS!Outcomes(Calling[t], Objects[t].seq)
  <2>1. Objects[t].seq = s
    BY <1>9, <1>11, TreesLive
  <2>2. s \in AS!Outcomes(op[t], s)
    BY <1>3 DEF AS!Outcomes
  <2> QED  BY <1>9, <2>1, <2>2
<1>14. SizeInv => SizeInv'
  <2>1. SizeAt(t) => SizeAt(t)'
    BY <1>2, <1>7, <1>8 DEF SizeAt
  <2> QED  BY <1>1, <1>6, <2>1, ElsewhereSame DEF SizeInv
<1>15. Calling[t] # "none"
  BY <1>3, <1>9
<1> QED
  BY <1>10, <1>12, <1>13, <1>14, <1>15 DEF AS!TakeEffect

\* The size of what an operation leaves.
LEMMA InsertedLonger ==
    ASSUME NEW s \in Strands, NEW u \in AS!Inserted(s)
    PROVE  Len(u) = Len(s) + 1
<1>1. PICK k \in 0 .. Len(s), v \in Values :
        u = SubSeq(s, 1, k) \o <<v>> \o SubSeq(s, k + 1, Len(s))
  BY DEF AS!Inserted
<1>2. s \in Seq(Values) /\ Len(s) \in Nat
  BY LenProperties DEF Strands
<1>3. PICK a, b : a = SubSeq(s, 1, k) /\ b = SubSeq(s, k + 1, Len(s))
  OBVIOUS
<1>4. a \in Seq(Values) /\ Len(a) = k /\ b \in Seq(Values) /\ Len(b) = Len(s) - k
  BY <1>2, <1>3, SubSeqProperties
<1>5. Sandwiched(Values, a, v, b, u)
  BY <1>1, <1>3, <1>4 DEF Sandwiched
<1>6. Len(u) = Len(a) + 1 + Len(b)
  BY <1>5, SandwichItems
<1> QED
  BY <1>2, <1>4, <1>6

Gap(s, k, a, b) ==
    /\ s \in Strands /\ k \in 1 .. Len(s)
    /\ a = SubSeq(s, 1, k - 1) /\ b = SubSeq(s, k + 1, Len(s))

Gapped(s, a, b) ==
    /\ a \in Seq(Values) /\ b \in Seq(Values)
    /\ Len(a) \in Nat /\ Len(b) \in Nat /\ Len(s) = Len(a) + 1 + Len(b)

LEMMA GapLengths ==
    ASSUME NEW s, NEW k, NEW a, NEW b, Gap(s, k, a, b)
    PROVE  Gapped(s, a, b)
<1>1. PICK i, l : i = k - 1 /\ l = Len(s)
  OBVIOUS
<1>2. s \in Seq(Values) /\ l \in Nat /\ k \in 1 .. l
  BY <1>1, LenProperties DEF Gap, Strands
<1>3. i \in 0 .. l - 1 /\ i + 2 = k + 1
  BY <1>1, <1>2
<1>4. a = SubSeq(s, 1, i) /\ b = SubSeq(s, i + 2, Len(s))
  BY <1>1, <1>3, Zenon DEF Gap
<1>5. i \in 0 .. Len(s) - 1
  BY <1>1, <1>3, Zenon
<1>6. Cut(Values, s, i, a, b)
  BY <1>2, <1>4, <1>5, Zenon DEF Cut
<1>7. PICK x : Sandwiched(Values, a, x, b, s)
  BY <1>6, CutSandwich, Zenon
<1>8. Len(a) \in Nat /\ Len(b) \in Nat /\ Len(s) = Len(a) + 1 + Len(b)
  BY <1>7, SandwichItems
<1>9. a \in Seq(Values) /\ b \in Seq(Values)
  BY <1>7 DEF Sandwiched
<1> QED
  BY <1>8, <1>9, Zenon DEF Gapped

LEMMA ReplacedSame ==
    ASSUME NEW s \in Strands, NEW u \in AS!Replaced(s)
    PROVE  Len(u) = Len(s)
<1>1. PICK k \in 1 .. Len(s), v \in Values :
        u = SubSeq(s, 1, k - 1) \o <<v>> \o SubSeq(s, k + 1, Len(s))
  BY DEF AS!Replaced
<1>2. PICK a, b : a = SubSeq(s, 1, k - 1) /\ b = SubSeq(s, k + 1, Len(s))
  OBVIOUS
<1>3. Gap(s, k, a, b)
  BY <1>2, Zenon DEF Gap
<1>4. Gapped(s, a, b)
  BY <1>3, GapLengths, Zenon
<1>5. u = (a \o <<v>>) \o b
  BY <1>1, <1>2, Zenon
<1>6. Sandwiched(Values, a, v, b, u)
  BY <1>4, <1>5, Zenon DEF Gapped, Sandwiched
<1>7. Len(u) = Len(a) + 1 + Len(b)
  BY <1>6, SandwichItems
<1> QED
  BY <1>4, <1>7, Zenon DEF Gapped

LEMMA ErasedIsShorter ==
    ASSUME NEW s \in Strands, NEW u \in AS!Erased(s, 1 .. Len(s))
    PROVE  Len(u) = Len(s) - 1 /\ Len(s) > 0
<1>1. PICK k \in 1 .. Len(s) : u = SubSeq(s, 1, k - 1) \o SubSeq(s, k + 1, Len(s))
  BY DEF AS!Erased
<1>2. PICK a, b : a = SubSeq(s, 1, k - 1) /\ b = SubSeq(s, k + 1, Len(s))
  OBVIOUS
<1>3. Gap(s, k, a, b)
  BY <1>2, Zenon DEF Gap
<1>4. Gapped(s, a, b)
  BY <1>3, GapLengths, Zenon
<1>5. Flanked(Values, a, b, u)
  BY <1>1, <1>2, <1>4, Zenon DEF Gapped, Flanked
<1>6. Len(u) = Len(a) + Len(b)
  BY <1>5, FlankItems
<1>7. PICK l, m, n, w : l = Len(a) /\ m = Len(b) /\ n = Len(s) /\ w = Len(u)
  OBVIOUS
<1>8. l \in Nat /\ m \in Nat /\ n = l + 1 + m /\ w = l + m
  BY <1>4, <1>6, <1>7, Zenon DEF Gapped
<1>9. w = n - 1 /\ n > 0
  BY <1>8
<1> QED
  BY <1>7, <1>9, Zenon

\* tree_size counts what the leaf gains or loses.
LEMMA LeafStepSize ==
    ASSUME NEW owner, MemInv(owner), Shallow, Memory', Shallow', PopsBack,
           NEW t \in Transients, NEW i \in 0 .. LeafSize, NEW v \in Values, LeafStep(t, i, v),
           SizeAt(t)
    PROVE  SizeAt(t)'
<1>1. /\ Memory /\ t \in Handle /\ size \in [Handle -> Nat] /\ pc \in [Transients -> PhaseSet]
  BY DEF MemInv, Memory, TypeOK, TreesOK, ControlOK, Handle
<1>2. pc[t] = "descend" /\ root' = root /\ pc'[t] # "persist"
  BY <1>1 DEF LeafStep, LeafInsert, LeafSplit, LeafAssign, LeafErase, LeafEraseOnly, AtLeaf,
         LeavesLeaf, CallReplace, CallSplit, CallErase
<1>3. root[t] # Nil /\ root[t] \in NodeId
  BY <1>1, <1>2 DEF Memory, TypeOK, TreesOK, PhaseOK, Pointer
<1>4. PICK s, u : s = Holds(t) /\ u = Holds(t)'
  OBVIOUS
<1>5. s \in Strands
  <2>1. s = Now[root[t]]
    BY <1>2, <1>3, <1>4, RestingHolds DEF Climbing
  <2> QED  BY <1>1, <1>3, <2>1, NowTree DEF Holding, Strands
<1>6. size[t] = Len(s) /\ Len(s) \in Nat
  BY <1>3, <1>4, <1>5, LenProperties DEF SizeAt, Strands
<1>7. size'[t] = Len(u)
  <2>1. CASE LeafInsert(t, i, v) \/ LeafSplit(t, i, v)
    <3>1. u \in AS!Inserted(s)
      BY <1>4, <2>1, LeafInsertEffect, LeafSplitEffect
    <3>2. size' = [size EXCEPT ![t] = size[t] + 1]
      BY <2>1 DEF LeafInsert, LeafSplit, Grows
    <3> QED  BY <1>1, <1>5, <1>6, <3>1, <3>2, InsertedLonger
  <2>2. CASE LeafAssign(t, i, v)
    <3>1. u \in AS!Replaced(s)
      BY <1>4, <2>2, LeafAssignEffect
    <3>2. size' = size
      BY <2>2 DEF LeafAssign
    <3> QED  BY <1>5, <1>6, <3>1, <3>2, ReplacedSame
  <2>3. CASE LeafErase(t, i) \/ LeafEraseOnly(t, i)
    <3>1. LosesOne(t)
      BY <2>3, LeafEraseEffect, LeafEraseOnlyEffect
    <3>2. PICK l : l = Len(s)
      OBVIOUS
    <3>3. {l} \ {0} \subseteq 1 .. l
      BY <1>6, <3>2
    <3>4. AS!Erased(s, {Len(s)} \ {0}) \subseteq AS!Erased(s, 1 .. Len(s))
      BY <3>2, <3>3 DEF AS!Erased
    <3>5. u \in AS!Erased(s, 1 .. Len(s))
      BY <1>4, <3>1, <3>4 DEF LosesOne
    <3>6. size' = [size EXCEPT ![t] = size[t] - 1]
      BY <2>3 DEF LeafErase, LeafEraseOnly, Shrinks
    <3> QED  BY <1>1, <1>5, <1>6, <3>5, <3>6, ErasedIsShorter
  <2> QED  BY <2>1, <2>2, <2>3 DEF LeafStep
<1> QED
  BY <1>2, <1>4, <1>7 DEF SizeAt

\* An operation takes effect at its leaf.
LEMMA LeafStepMaps ==
    ASSUME NEW owner, MemInv(owner), Shallow, Memory', Shallow', PopsBack,
           NEW t \in Transients, NEW i \in 0 .. LeafSize, NEW v \in Values, LeafStep(t, i, v)
    PROVE  AS!TakeEffect(t) /\ (SizeInv => SizeInv')
<1>1. /\ pc \in [Transients -> PhaseSet] /\ Memory /\ t \in Handle
  BY DEF MemInv, Memory, TypeOK, ControlOK, Handle
<1>2. /\ pc[t] = "descend" /\ root' = root /\ pc'[t] \in {"replace", "split", "erase"}
      /\ op[t] # "none"
  BY <1>1 DEF LeafStep, LeafInsert, LeafSplit, LeafAssign, LeafErase, LeafEraseOnly, AtLeaf,
         LeavesLeaf, CallReplace, CallSplit, CallErase, Inserting, Assigning
<1>3. root[t] # Nil
  BY <1>1, <1>2 DEF Memory, TypeOK, PhaseOK
<1>4. Elsewhere({t})
  BY LeafStepBeside, SettledUnseen DEF Elsewhere
<1>5. Holds(t)' \in AS!Outcomes(op[t], Holds(t))
  BY LeafStepEffect
<1>6. /\ Objects[t] = AS!Tree(Holds(t)) /\ Objects'[t] = AS!Tree(Holds(t)')
      /\ Making[t] = AS!NoTree /\ Making'[t] = AS!NoTree
      /\ Calling[t] = op[t] /\ Calling'[t] = "none"
  BY <1>1, <1>2, <1>3, ObjectIs, ObjectIsNext
<1>7. Making' = Making
  BY <1>4, <1>6, ElsewhereQuiet
<1>8. PICK s : s = Holds(t)'
  OBVIOUS
<1>9. /\ Calling' = [Calling EXCEPT ![t] = "none"]
      /\ Objects' = [Objects EXCEPT ![t] = AS!Tree(s)]
  <2>1. {t} \cap Transients \subseteq {t} /\ {t} \cap Handle \subseteq {t}
    OBVIOUS
  <2>2. Objects'[t] = AS!Tree(s)
    BY <1>6, <1>8
  <2> QED  BY <1>1, <1>4, <1>6, <2>1, <2>2, ElsewhereSame
<1>10. s \in AS!Outcomes(Calling[t], Objects[t].seq)
  <2>1. Objects[t].seq = Holds(t)
    BY <1>6, TreesLive
  <2> QED  BY <1>5, <1>6, <1>8, <2>1
<1>11. SizeInv => SizeInv'
  <2>1. SizeAt(t) => SizeAt(t)'
    BY LeafStepSize
  <2> QED  BY <1>1, <1>4, <2>1, ElsewhereSame DEF SizeInv
<1>12. Calling[t] # "none"
  BY <1>2, <1>6
<1> QED
  BY <1>7, <1>9, <1>10, <1>11, <1>12 DEF AS!TakeEffect

\* An empty Transient: its thread rests.
LEMMA EmptiesMaps ==
    ASSUME NEW owner, MemInv(owner), Shallow, Memory', Shallow', NEW t \in Transients,
           New(t) \/ Clear(t)
    PROVE  AS!OnObjects /\ (SizeInv => SizeInv')
<1>1. Resting(t) /\ Empties(t)
  BY DEF New, Clear
<1>2. /\ Memory /\ t \in Handle /\ root \in [Handle -> Pointer] /\ size \in [Handle -> Nat]
  BY DEF MemInv, Memory, TypeOK, TreesOK, Handle
<1>3. PICK V : Lone(V)
  BY <1>1, EmptiesHolds
<1>4. Holds(t)' = <<>> /\ root'[t] # Nil
  BY <1>1, EmptiesHolds
<1>5. /\ \E r : root' = [root EXCEPT ![t] = r]
      /\ size' = [size EXCEPT ![t] = 0] /\ UNCHANGED <<pc, op, stack, ptr, right>>
  BY <1>1 DEF Empties, control, result
<1>6. \A h \in Handle \ {t} : Steady(h)
  BY <1>2, <1>5 DEF Steady, Still
<1>7. Elsewhere({t})
  BY <1>3, <1>6, LoneSettled, SettledUnseen DEF Elsewhere
<1>8. pc[t] = "idle" /\ pc'[t] = "idle"
  BY <1>1, <1>5 DEF Resting
<1>9. /\ Objects'[t] = AS!Tree(<<>>)
      /\ Making[t] = AS!NoTree /\ Making'[t] = AS!NoTree
      /\ Calling[t] = "none" /\ Calling'[t] = "none"
  BY <1>2, <1>4, <1>8, ObjectIs, ObjectIsNext
<1>10. Making' = Making /\ Calling' = Calling
  BY <1>7, <1>9, ElsewhereQuiet
<1>11. Objects' = [Objects EXCEPT ![t] = AS!Tree(<<>>)]
  <2>1. {t} \cap Handle \subseteq {t}
    OBVIOUS
  <2> QED  BY <1>2, <1>7, <1>9, <2>1, ElsewhereSame
<1>12. SizeInv => SizeInv'
  <2>1. SizeAt(t)'
    <3>1. size'[t] = 0 /\ Len(<<>>) = 0
      BY <1>2, <1>5
    <3> QED  BY <1>4, <1>8, <3>1 DEF SizeAt
  <2> QED  BY <1>7, <2>1, ElsewhereSame
<1>13. AS!Call(t)
  BY <1>9, <1>10, <1>11 DEF AS!Call, AS!Empty
<1> QED
  BY <1>9, <1>10, <1>12, <1>13 DEF AS!OnObjects

\* persistent() begins: what the thread is making holds what its Transient does.
LEMMA PersistMaps ==
    ASSUME NEW owner, MemInv(owner), Shallow, NEW t \in Transients,
           Persist(t) \/ PersistMove(t)
    PROVE  AS!OnObjects /\ (SizeInv => SizeInv')
<1>1. /\ Memory /\ t \in Handle /\ root \in [Handle -> Pointer]
      /\ pc \in [Transients -> PhaseSet] /\ ptr \in [Transients -> Pointer]
  BY DEF MemInv, Memory, TypeOK, TreesOK, ControlOK, ResultOK, Handle
<1>2. /\ UNCHANGED <<items, depth, size, op, stack, right>>
      /\ pc' = [pc EXCEPT ![t] = "persist"] /\ ptr' = [ptr EXCEPT ![t] = root[t]]
      /\ pc[t] = "idle" /\ root[t] # Nil
  BY DEF Persist, PersistMove, StartsMarking, Resting
<1>3. root' = root \/ root' = [root EXCEPT ![t] = Nil]
  BY DEF Persist, PersistMove
<1>4. \A h \in Handle \ {t} : Steady(h)
  BY <1>1, <1>2, <1>3 DEF Steady, Still
<1>5. Elsewhere({t})
  BY <1>2, <1>4, QuietLone, LoneSettled, SettledUnseen DEF Elsewhere
<1>6. pc'[t] = "persist" /\ ptr'[t] = root[t] /\ Now' = Now
  BY <1>1, <1>2 DEF Now
<1>7. Holds(t) = Now[root[t]] /\ Contents(ptr[t])' = Now[root[t]]
  <2>1. Holds(t) = Now[root[t]]
    BY <1>2, RestingHolds DEF Climbing
  <2>2. Contents(ptr[t])' = Now'[ptr'[t]]
    BY DEF Contents, Now
  <2> QED  BY <1>6, <2>1, <2>2
<1>8. root'[t] # Nil => Holds(t)' = Holds(t)
  BY <1>1, <1>3, <1>6, <1>7, LandedHolds DEF Climbing
<1>9. /\ Objects[t] = AS!Tree(Holds(t)) /\ Making[t] = AS!NoTree
      /\ Making'[t] = AS!Tree(Contents(ptr[t])')
      /\ Calling[t] = "none" /\ Calling'[t] = "none"
  BY <1>1, <1>2, <1>6, ObjectIs, ObjectIsNext
<1>10. Calling' = Calling
  BY <1>5, <1>9, ElsewhereQuiet
<1>11. Making' = [Making EXCEPT ![t] = Objects[t]]
  <2>1. {t} \cap Transients \subseteq {t} /\ Making'[t] = Objects[t]
    BY <1>7, <1>9
  <2> QED  BY <1>5, <2>1, ElsewhereSame
<1>12. Objects' = Objects \/ Objects' = [Objects EXCEPT ![t] = AS!NoTree]
  <2>1. CASE root' = root
    <3>1. Objects'[t] = AS!Tree(Holds(t)')
      BY <1>1, <1>2, <2>1, ObjectIsNext
    <3> QED  BY <1>2, <1>5, <1>8, <1>9, <2>1, <3>1, ElsewhereQuiet
  <2>2. CASE root' = [root EXCEPT ![t] = Nil]
    <3>1. Objects'[t] = AS!NoTree
      BY <1>1, <2>2, ObjectIsNext
    <3>2. {t} \cap Handle \subseteq {t}
      OBVIOUS
    <3> QED  BY <1>1, <1>5, <3>1, <3>2, ElsewhereSame
  <2> QED  BY <1>3, <2>1, <2>2
<1>13. SizeInv => SizeInv'
  <2>1. SizeAt(t) => SizeAt(t)'
    BY <1>2, <1>7, <1>8 DEF SizeAt
  <2> QED  BY <1>1, <1>5, <2>1, ElsewhereSame DEF SizeInv
<1>14. Objects[t] # AS!NoTree
  BY <1>9, TreesLive
<1>15. AS!Call(t)
  BY <1>9, <1>11, <1>12, <1>14 DEF AS!Call, AS!StartPersistent
<1> QED
  BY <1>9, <1>10, <1>13, <1>15 DEF AS!OnObjects

\* It ends: the Persistent is there.
LEMMA PublishMaps ==
    ASSUME NEW owner, MemInv(owner), Shallow, NEW t \in Transients, NEW p \in Persistents,
           Publish(t, p)
    PROVE  AS!OnObjects /\ (SizeInv => SizeInv')
<1>1. /\ Memory /\ t \in Handle /\ p \in Handle /\ p \notin Transients
      /\ root \in [Handle -> Pointer] /\ size \in [Handle -> Nat]
      /\ pc \in [Transients -> PhaseSet] /\ ptr \in [Transients -> Pointer]
  BY TreeAssumption DEF MemInv, Memory, TypeOK, TreesOK, ControlOK, ResultOK, Handle
<1>2. /\ UNCHANGED <<items, depth, op, stack, right>>
      /\ pc' = [pc EXCEPT ![t] = "idle"] /\ ptr' = [ptr EXCEPT ![t] = Nil]
      /\ pc[t] = "persist" /\ root' = [root EXCEPT ![p] = ptr[t]]
      /\ size' = [size EXCEPT ![p] = size[t]]
  BY DEF Publish, nodes
<1>3. ptr[t] # Nil
  BY <1>2 DEF MemInv, Threads, Results
<1>4. \A h \in Handle \ {t, p} : Steady(h)
  BY <1>1, <1>2 DEF Steady, Still
<1>5. Elsewhere({t, p})
  BY <1>2, <1>4, QuietLone, LoneSettled, SettledUnseen DEF Elsewhere
<1>6. /\ pc'[t] = "idle" /\ root'[t] = root[t] /\ root'[p] = ptr[t] /\ Now' = Now
      /\ size'[t] = size[t] /\ size'[p] = size[t]
  BY <1>1, <1>2 DEF Now
<1>7. Contents(ptr[t]) = Now[ptr[t]]
  BY HoldsIs
<1>8. Holds(p)' = Contents(ptr[t])
  BY <1>1, <1>3, <1>6, <1>7, LandedHolds
<1>9. root[t] # Nil => Holds(t)' = Holds(t)
  BY <1>2, <1>6, LandedHolds, RestingHolds DEF Climbing
<1>10. /\ Making[t] = AS!Tree(Contents(ptr[t])) /\ Making'[t] = AS!NoTree
       /\ Calling[t] = "none" /\ Calling'[t] = "none"
       /\ Objects'[p] = AS!Tree(Holds(p)')
  BY <1>1, <1>2, <1>3, <1>6, ObjectIs, ObjectIsNext
<1>11. Objects'[t] = Objects[t]
  <2>1. CASE root[t] = Nil
    BY <1>1, <1>6, <2>1, ObjectIs, ObjectIsNext
  <2>2. CASE root[t] # Nil
    <3>1. Objects[t] = AS!Tree(Holds(t)) /\ Objects'[t] = AS!Tree(Holds(t)')
      BY <1>1, <1>6, <2>2, ObjectIs, ObjectIsNext
    <3> QED  BY <1>9, <2>2, <3>1
  <2> QED  BY <2>1, <2>2
<1>12. SizeInv => SizeInv'
  <2>1. ASSUME SizeInv PROVE SizeAt(t)' /\ SizeAt(p)'
    <3>1. SizeAt(t)
      BY <1>1, <2>1 DEF SizeInv
    <3>2. SizeAt(t)'
      BY <1>6, <1>9, <3>1 DEF SizeAt
    <3>3. size[t] = Len(Contents(ptr[t]))
      BY <1>2, <3>1 DEF SizeAt
    <3>4. SizeAt(p)'
      BY <1>1, <1>6, <1>8, <3>3 DEF SizeAt
    <3> QED  BY <3>2, <3>4
  <2> QED  BY <1>5, <2>1, ElsewhereSame
<1>13. /\ \A h \in Handle \ {t, p} : Objects'[h] = Objects[h]
       /\ \A u \in Transients \ {t} : Making'[u] = Making[u] /\ Calling'[u] = Calling[u]
  BY <1>1, <1>5 DEF Elsewhere, Unseen, Handle
<1>14. Objects' = [Objects EXCEPT ![p] = Making[t]]
  <2>1. PICK F, G, y : F = Objects /\ G = Objects' /\ y = Making[t]
    OBVIOUS
  <2>2. DiffersAt(Handle, F, G, p, y)
    BY <1>1, <1>8, <1>10, <1>11, <1>13, <2>1, ObjectIs, ObjectIsNext DEF DiffersAt
  <2> QED  BY <2>1, <2>2, ExceptOne
<1>15. Making' = [Making EXCEPT ![t] = AS!NoTree]
  <2>1. PICK F, G, y : F = Making /\ G = Making' /\ y = AS!NoTree
    OBVIOUS
  <2>2. DiffersAt(Transients, F, G, t, y)
    BY <1>10, <1>13, <2>1, ObjectIs, ObjectIsNext DEF DiffersAt
  <2> QED  BY <2>1, <2>2, ExceptOne
<1>16. Calling' = Calling
  <2>1. PICK F, G : F = Calling /\ G = Calling'
    OBVIOUS
  <2>2. /\ F = [u \in Transients |-> F[u]] /\ G = [u \in Transients |-> G[u]]
        /\ \A u \in Transients : G[u] = F[u]
    BY <1>10, <1>13, <2>1, ObjectIs, ObjectIsNext
  <2>3. F = G
    BY <2>2
  <2> QED  BY <2>1, <2>3
<1>17. Making[t] # AS!NoTree
  BY <1>10, TreesLive
<1> QED
  BY <1>12, <1>14, <1>15, <1>16, <1>17 DEF AS!OnObjects, AS!FinishPersistent

\* Calls that change which objects there are, and no thread's work.
Transfers(t) ==
    /\ t \in Transients /\ pc[t] = "idle"
    /\ UNCHANGED <<items, depth, pc, op, stack, ptr, right>>

LEMMA TransferWork ==
    ASSUME NEW t, Transfers(t)
    PROVE  /\ Making' = Making /\ Calling' = Calling
           /\ Calling[t] = "none" /\ Making[t] = AS!NoTree
  BY ObjectIs DEF Transfers, Making, Calling, Contents

\* The other objects.
LEMMA TransferRest ==
    ASSUME NEW owner, MemInv(owner), Shallow, NEW t, Transfers(t), NEW h \in Handle,
           root'[h] = root[h], size'[h] = size[h]
    PROVE  Objects'[h] = Objects[h] /\ (SizeAt(h) => SizeAt(h)')
<1>1. Steady(h) /\ Lone({})
  BY QuietLone DEF Transfers, Steady, Still
<1>2. Unseen(h)
  BY <1>1, LoneSettled, SettledUnseen
<1> QED
  BY <1>2 DEF Unseen

Idle(h) == h \in Transients => pc[h] = "idle"

\* An object gets the tree of Persistent g,
LEMMA TransferGives ==
    ASSUME NEW t, Transfers(t), NEW h \in Handle, Idle(h),
           NEW g \in Persistents, root[g] # Nil, root'[h] = root[g], size'[h] = size[g]
    PROVE  /\ Objects'[h] = Objects[g] /\ Objects[g] # AS!NoTree
           /\ SizeAt(g) => SizeAt(h)'
<1>1. Now' = Now /\ g \in Handle /\ g \notin Transients /\ (h \in Transients => pc'[h] = "idle")
  BY TreeAssumption DEF Transfers, Now, Handle, Idle
<1>2. Holds(h)' = Holds(g)
  BY <1>1, LandedHolds, RestingHolds DEF Climbing
<1>3. Objects[g] = AS!Tree(Holds(g)) /\ Objects'[h] = AS!Tree(Holds(h)')
  BY <1>1, ObjectIs, ObjectIsNext
<1> QED
  BY <1>1, <1>2, <1>3, TreesLive DEF SizeAt

\* or none.
LEMMA TransferTakes ==
    ASSUME NEW t, Transfers(t), NEW h \in Handle, Idle(h), root'[h] = Nil
    PROVE  Objects'[h] = AS!NoTree /\ SizeAt(h)'
<1>1. h \in Transients => pc'[h] = "idle"
  BY DEF Transfers, Idle
<1> QED
  BY <1>1, ObjectIsNext DEF SizeAt

\* transient() of a Persistent, which keeps its tree or gives it away.
LEMMA ThawMaps ==
    ASSUME NEW owner, MemInv(owner), Shallow, NEW t \in Transients, NEW p \in Persistents,
           Thaw(t, p) \/ ThawMove(t, p)
    PROVE  AS!OnObjects /\ (SizeInv => SizeInv')
<1>1. /\ t \in Handle /\ p \in Handle /\ p # t /\ p \notin Transients
      /\ root \in [Handle -> Pointer] /\ size \in [Handle -> Nat]
  BY TreeAssumption DEF MemInv, Memory, TypeOK, TreesOK, Handle
<1>2. Transfers(t) /\ root[t] = Nil /\ root[p] # Nil
  BY DEF Thaw, ThawMove, Copies, Resting, Transfers, control, result, nodes
<1>3. /\ root' = [root EXCEPT ![t] = root[p]] \/ root' = [root EXCEPT ![t] = root[p], ![p] = Nil]
      /\ size' = [size EXCEPT ![t] = size[p]]
  BY DEF Thaw, ThawMove, Copies
<1>4. /\ root'[t] = root[p] /\ size'[t] = size[p]
      /\ \A h \in Handle \ {t, p} : root'[h] = root[h] /\ size'[h] = size[h]
      /\ size'[p] = size[p]
  BY <1>1, <1>3
<1>5. Idle(t) /\ Idle(p)
  BY <1>1, <1>2 DEF Transfers, Idle
<1>6. /\ Objects'[t] = Objects[p] /\ Objects[p] # AS!NoTree /\ (SizeAt(p) => SizeAt(t)')
  BY <1>1, <1>2, <1>4, <1>5, TransferGives
<1>7. \A h \in Handle \ {t, p} : Objects'[h] = Objects[h] /\ (SizeAt(h) => SizeAt(h)')
  BY <1>2, <1>4, TransferRest
<1>8. /\ Making' = Making /\ Calling' = Calling
      /\ Calling[t] = "none" /\ Making[t] = AS!NoTree
  BY <1>2, TransferWork
<1>9. Objects[t] = AS!NoTree
  BY <1>1, <1>2, ObjectIs
<1>10. PICK F, G : F = Objects /\ G = Objects'
  OBVIOUS
<1>11. /\ F = [h \in Handle |-> F[h]] /\ G = [h \in Handle |-> G[h]] /\ G[t] = F[p]
       /\ \A h \in Handle \ {t, p} : G[h] = F[h]
  BY <1>6, <1>7, <1>10, ObjectIs, ObjectIsNext
<1>12. /\ Objects' = [Objects EXCEPT ![t] = Objects[p]]
            \/ Objects' = [Objects EXCEPT ![t] = Objects[p], ![p] = AS!NoTree]
       /\ SizeInv => SizeAt(p)'
  <2>1. CASE root' = [root EXCEPT ![t] = root[p]]
    <3>1. root'[p] = root[p]
      BY <1>1, <2>1
    <3>2. G[p] = F[p] /\ (SizeAt(p) => SizeAt(p)')
      BY <1>1, <1>2, <1>4, <1>10, <3>1, TransferRest
    <3>3. PICK y : y = F[p]
      OBVIOUS
    <3>4. DiffersAt(Handle, F, G, t, y)
      BY <1>1, <1>11, <3>2, <3>3 DEF DiffersAt
    <3>5. G = [F EXCEPT ![t] = y]
      BY <3>4, ExceptOne
    <3> QED  BY <1>1, <1>10, <3>2, <3>3, <3>5 DEF SizeInv
  <2>2. CASE root' = [root EXCEPT ![t] = root[p], ![p] = Nil]
    <3>1. root'[p] = Nil
      BY <1>1, <2>2
    <3>2. G[p] = AS!NoTree /\ SizeAt(p)'
      BY <1>1, <1>2, <1>5, <1>10, <3>1, TransferTakes
    <3>3. PICK z : z = AS!NoTree
      OBVIOUS
    <3>4. PICK E : E = [F EXCEPT ![t] = F[p], ![p] = z]
      OBVIOUS
    <3>5. E = [h \in Handle |-> E[h]] /\ \A h \in Handle : E[h] = G[h]
      BY <1>1, <1>11, <3>2, <3>3, <3>4
    <3>6. E = G
      BY <1>11, <3>5
    <3> QED  BY <1>10, <3>2, <3>3, <3>4, <3>6
  <2> QED  BY <1>3, <2>1, <2>2
<1>13. SizeInv => SizeInv'
  <2> SUFFICES ASSUME SizeInv, NEW h \in Handle PROVE SizeAt(h)'
    BY DEF SizeInv
  <2>1. SizeAt(p) /\ SizeAt(h)
    BY <1>1 DEF SizeInv
  <2> QED  BY <1>6, <1>7, <1>12, <2>1
<1>14. AS!ToTransient(t)
  BY <1>6, <1>8, <1>9, <1>12 DEF AS!ToTransient
<1> QED
  BY <1>8, <1>13, <1>14 DEF AS!OnObjects, AS!Call

\* Assigning a Persistent to another, or to itself.
LEMMA CopyMaps ==
    ASSUME NEW owner, MemInv(owner), Shallow, NEW t \in Transients,
           NEW p \in Persistents, NEW q \in Persistents, Copy(t, p, q)
    PROVE  AS!OnObjects /\ (SizeInv => SizeInv')
<1>1. /\ p \in Handle /\ q \in Handle /\ q \notin Transients
      /\ root \in [Handle -> Pointer] /\ size \in [Handle -> Nat]
  BY TreeAssumption DEF MemInv, Memory, TypeOK, TreesOK, Handle
<1>2. Transfers(t) /\ root[p] # Nil
  BY DEF Copy, Copies, Resting, Transfers, control, result
<1>3. root' = [root EXCEPT ![q] = root[p]] /\ size' = [size EXCEPT ![q] = size[p]]
  BY DEF Copy, Copies
<1>4. Idle(q)
  BY <1>1 DEF Idle
<1>5. Objects'[q] = Objects[p] /\ Objects[p] # AS!NoTree /\ (SizeAt(p) => SizeAt(q)')
  BY <1>1, <1>2, <1>3, <1>4, TransferGives
<1>6. \A h \in Handle \ {q} : Objects'[h] = Objects[h] /\ (SizeAt(h) => SizeAt(h)')
  <2>1. \A h \in Handle \ {q} : root'[h] = root[h] /\ size'[h] = size[h]
    BY <1>1, <1>3
  <2> QED  BY <1>2, <2>1, TransferRest
<1>7. Making' = Making /\ Calling' = Calling
  BY <1>2, TransferWork
<1>8. Objects' = [Objects EXCEPT ![q] = Objects[p]]
  <2>1. PICK F, G, y : F = Objects /\ G = Objects' /\ y = Objects[p]
    OBVIOUS
  <2>2. DiffersAt(Handle, F, G, q, y)
    BY <1>1, <1>5, <1>6, <2>1, ObjectIs, ObjectIsNext DEF DiffersAt
  <2> QED  BY <2>1, <2>2, ExceptOne
<1>9. SizeInv => SizeInv'
  <2> SUFFICES ASSUME SizeInv, NEW h \in Handle PROVE SizeAt(h)'
    BY DEF SizeInv
  <2>1. SizeAt(p) /\ SizeAt(h)
    BY <1>1 DEF SizeInv
  <2> QED  BY <1>5, <1>6, <2>1
<1>10. AS!CopyPersistent
  BY <1>5, <1>7, <1>8 DEF AS!CopyPersistent
<1> QED
  BY <1>7, <1>9, <1>10 DEF AS!OnObjects

\* Destroying an object.
LEMMA DropMaps ==
    ASSUME NEW owner, MemInv(owner), Shallow, NEW t \in Transients,
           NEW h \in {t} \cup Persistents, Drop(t, h)
    PROVE  AS!OnObjects /\ (SizeInv => SizeInv')
<1>1. /\ h \in Handle /\ (h = t \/ (h \in Persistents /\ h \notin Transients))
      /\ root \in [Handle -> Pointer] /\ size \in [Handle -> Nat]
  BY TreeAssumption DEF MemInv, Memory, TypeOK, TreesOK, Handle
<1>2. Transfers(t)
  BY DEF Drop, Resting, Transfers, control, result, nodes
<1>3. root' = [root EXCEPT ![h] = Nil] /\ size' = [size EXCEPT ![h] = 0]
  BY DEF Drop
<1>4. Idle(h)
  BY <1>1, <1>2 DEF Idle, Transfers
<1>5. Objects'[h] = AS!NoTree /\ SizeAt(h)'
  BY <1>1, <1>2, <1>3, <1>4, TransferTakes
<1>6. \A g \in Handle \ {h} : Objects'[g] = Objects[g] /\ (SizeAt(g) => SizeAt(g)')
  <2>1. \A g \in Handle \ {h} : root'[g] = root[g] /\ size'[g] = size[g]
    BY <1>1, <1>3
  <2> QED  BY <1>2, <2>1, TransferRest
<1>7. /\ Making' = Making /\ Calling' = Calling
      /\ Calling[t] = "none" /\ Making[t] = AS!NoTree
  BY <1>2, TransferWork
<1>8. Objects' = [Objects EXCEPT ![h] = AS!NoTree]
  <2>1. PICK F, G, y : F = Objects /\ G = Objects' /\ y = AS!NoTree
    OBVIOUS
  <2>2. DiffersAt(Handle, F, G, h, y)
    BY <1>1, <1>5, <1>6, <2>1, ObjectIs, ObjectIsNext DEF DiffersAt
  <2> QED  BY <2>1, <2>2, ExceptOne
<1>9. SizeInv => SizeInv'
  <2> SUFFICES ASSUME SizeInv, NEW g \in Handle PROVE SizeAt(g)'
    BY DEF SizeInv
  <2>1. SizeAt(g)
    BY DEF SizeInv
  <2> QED  BY <1>5, <1>6, <2>1
<1>10. AS!Destroy(h)
  BY <1>7, <1>8 DEF AS!Destroy
<1> QED
  BY <1>1, <1>7, <1>9, <1>10 DEF AS!OnObjects, AS!Call

-----------------------------------------------------------------------------
(* Every step *)

\* A call on an object.
LEMMA MakeCallMaps ==
    ASSUME NEW owner, MemInv(owner), Shallow, Memory', Shallow', NEW t \in Transients,
           MakeCall(t)
    PROVE  AS!OnObjects /\ (SizeInv => SizeInv')
<1>1. CASE New(t) \/ Clear(t)
  BY <1>1, EmptiesMaps
<1>2. CASE Persist(t) \/ PersistMove(t)
  BY <1>2, PersistMaps
<1>3. CASE \E p \in Persistents : Thaw(t, p) \/ ThawMove(t, p)
  BY <1>3, ThawMaps
<1>4. CASE \E p, q \in Persistents : Copy(t, p, q)
  BY <1>4, CopyMaps
<1>5. CASE \E h \in {t} \cup Persistents : Drop(t, h)
  BY <1>5, DropMaps
<1> QED
  BY <1>1, <1>2, <1>3, <1>4, <1>5 DEF MakeCall

\* A step of a call.
LEMMA StepMaps ==
    ASSUME NEW owner, MemInv(owner), Shallow, Memory', Shallow', PopsBack,
           NeverTooDeep, NeverTooDeep', NEW t \in Transients, Step(t)
    PROVE  (AS!Next \/ ~Seen) /\ (SizeInv => SizeInv')
<1>1. CASE \E i \in 0 .. LeafSize, v \in Values : LeafStep(t, i, v)
  BY <1>1, LeafStepMaps DEF AS!Next
<1>2. CASE LeafKeep(t)
  BY <1>2, KeepMaps DEF AS!Next
<1>3. CASE \E p \in Persistents : Publish(t, p)
  BY <1>3, PublishMaps DEF AS!Next
<1>4. CASE Silent(t)
  BY <1>4, SilentSettled, SilentMaps
<1>5. CASE Rebuilds(t)
  BY <1>5, InnerSettled, SilentMaps
<1>6. CASE DecRef(t)
  BY <1>6, DecRefSettled, SilentMaps
<1>7. ~RootSplitTooDeep(t)
  <2>1. pc \in [Transients -> PhaseSet]
    BY DEF MemInv, Memory, TypeOK, ControlOK
  <2> QED  BY <2>1 DEF RootSplitTooDeep, NeverTooDeep
<1>8. ~DiscardLeft(t)
  BY DEF DiscardLeft, AtRoot, NeverTooDeep
<1> QED
  BY <1>1, <1>2, <1>3, <1>4, <1>5, <1>6, <1>7, <1>8
     DEF Step, Ascend, MakePersistent, Silent, Rebuilds

LEMMA NextMaps ==
    MemoryInv /\ MemoryInv' /\ Shallow /\ Shallow' /\ PopsBack /\ NeverTooDeep
      /\ NeverTooDeep' /\ [Next]_vars
    => (AS!Next \/ ~Seen) /\ (SizeInv => SizeInv')
<1> SUFFICES ASSUME MemoryInv, MemoryInv', Shallow, Shallow', PopsBack, NeverTooDeep,
                    NeverTooDeep', [Next]_vars
             PROVE  (AS!Next \/ ~Seen) /\ (SizeInv => SizeInv')
  OBVIOUS
<1>1. PICK owner : MemInv(owner)
  BY DEF MemoryInv
<1>2. Memory'
  BY DEF MemoryInv, MemInv
<1>3. CASE UNCHANGED vars
  <2>1. \A h \in Handle : Steady(h)
    BY <1>3 DEF vars, nodes, trees, control, result, Steady, Still
  <2>2. UNCHANGED <<items, depth>>
    BY <1>3 DEF vars, nodes
  <2> QED  BY <1>1, <2>1, <2>2, QuietLone, LoneSettled, SilentMaps
<1>4. ASSUME NEW t \in Transients, NEW name \in Operations, Begin(t, name)
      PROVE  (AS!Next \/ ~Seen) /\ (SizeInv => SizeInv')
  BY <1>1, <1>4, BeginMaps DEF AS!Next
<1>5. ASSUME NEW t \in Transients, MakeCall(t)
      PROVE  (AS!Next \/ ~Seen) /\ (SizeInv => SizeInv')
  BY <1>1, <1>2, <1>5, MakeCallMaps DEF AS!Next
<1>6. ASSUME NEW t \in Transients, Step(t)
      PROVE  (AS!Next \/ ~Seen) /\ (SizeInv => SizeInv')
  BY <1>1, <1>2, <1>6, StepMaps
<1> QED
  BY <1>3, <1>4, <1>5, <1>6 DEF Next

\* pop_back goes down the right edge of the tree, where the last element is.
LEMMA PopsBackNext == ControlOK /\ PopsBack /\ [Next]_vars => PopsBack'
<1> SUFFICES ASSUME ControlOK, PopsBack, [Next]_vars, NEW u \in Transients,
                    pc'[u] = "descend", op'[u] = "pop_back"
             PROVE  rightMost'[u]
  BY DEF PopsBack
<1>0. /\ pc \in [Transients -> PhaseSet] /\ op \in [Transients -> Operations \cup {"none"}]
      /\ rightMost \in [Transients -> BOOLEAN]
  BY DEF ControlOK
<1>1. CASE UNCHANGED <<pc, op, rightMost>>
  BY <1>1 DEF PopsBack
<1>2. ASSUME NEW t \in Transients, NEW name \in Operations, Begin(t, name)
      PROVE  rightMost'[u]
  <2>1. CASE u = t
    BY <1>0, <1>2, <2>1 DEF Begin
  <2>2. CASE u # t
    <3>1. pc'[u] = pc[u] /\ op'[u] = op[u] /\ rightMost'[u] = rightMost[u]
      BY <1>0, <1>2, <2>2 DEF Begin
    <3> QED  BY <3>1 DEF PopsBack
  <2> QED  BY <2>1, <2>2
<1>3. ASSUME NEW t \in Transients, NEW i \in 0 .. InternalSize - 1, Descend(t, i)
      PROVE  rightMost'[u]
  <2>1. UNCHANGED <<pc, op>>
    BY <1>3 DEF Descend
  <2>2. rightMost[u]
    BY <2>1 DEF PopsBack
  <2>3. CASE u = t
    <3>1. i = Len(items[at[t]]) - 1
      BY <1>3, <2>1, <2>3 DEF Descend
    <3>2. rightMost' = [rightMost EXCEPT ![t] = ChildOnEdge(t, i)]
      BY <1>3 DEF Descend
    <3>3. ChildOnEdge(t, i)
      BY <2>2, <2>3, <3>1 DEF ChildOnEdge
    <3> QED  BY <1>0, <2>3, <3>2, <3>3
  <2>4. CASE u # t
    <3>1. rightMost'[u] = rightMost[u]
      BY <1>0, <1>3, <2>4 DEF Descend
    <3> QED  BY <2>2, <3>1
  <2> QED  BY <2>3, <2>4
<1>4. ASSUME NEW t \in Transients,
             pc'[t] # "descend" /\ \A r \in Transients \ {t} :
                pc'[r] = pc[r] /\ op'[r] = op[r] /\ rightMost'[r] = rightMost[r]
      PROVE  rightMost'[u]
  <2>1. pc'[u] = pc[u] /\ op'[u] = op[u] /\ rightMost'[u] = rightMost[u]
    BY <1>4
  <2> QED  BY <2>1 DEF PopsBack
<1>5. ASSUME NEW t \in Transients, NEW i \in 0 .. LeafSize, NEW v \in Values, LeafStep(t, i, v)
      PROVE  rightMost'[u]
  BY <1>0, <1>4, <1>5 DEF LeafStep, LeafInsert, LeafSplit, LeafAssign, LeafErase, LeafEraseOnly,
       LeavesLeaf, CallReplace, CallSplit, CallErase
<1>6. ASSUME NEW t \in Transients, Ascend(t)
      PROVE  rightMost'[u]
  <2>1. CASE SeekEnd(t)
    BY <1>1, <2>1 DEF SeekEnd
  <2>2. CASE LeafKeep(t) \/ Return(t)
    BY <1>0, <1>4, <2>2 DEF LeafKeep, Return
  <2>3. CASE Rebuilds(t) \/ InternalEraseOnly(t)
    <3>1. UNCHANGED <<op, rightMost>>
      BY <2>3 DEF Rebuilds, InternalReplace, InternalInsert, InternalSplit, InternalErase,
                  InternalEraseOnly
    <3>2. \/ \E x, c : CallReplace(t, x, c)
          \/ \E x, r, c : CallSplit(t, x, r, c)
          \/ CallErase(t)
      BY <2>3 DEF Rebuilds, InternalReplace, InternalInsert, InternalSplit, InternalErase,
                  InternalEraseOnly
    <3>3. \E a \in {"replace", "split", "erase"} : pc' = [pc EXCEPT ![t] = a]
      BY <3>2 DEF CallReplace, CallSplit, CallErase
    <3> QED  BY <1>0, <1>4, <3>1, <3>3
  <2>4. CASE \/ RootReplace(t) \/ Collapse(t) \/ RootSplit(t) \/ RootErase(t)
             \/ RootSplitTooDeep(t) \/ DiscardLeft(t)
    <3>1. UNCHANGED <<op, rightMost>>
      BY <2>4 DEF RootReplace, Collapse, RootSplit, RootErase, RootSplitTooDeep, DiscardLeft
    <3>2. \E a \in {"collapse", "done", "discard"} : pc' = [pc EXCEPT ![t] = a]
      BY <2>4 DEF RootReplace, Collapse, RootSplit, RootErase, RootSplitTooDeep, DiscardLeft,
                  Complete
    <3> QED  BY <1>0, <1>4, <3>1, <3>2
  <2> QED  BY <1>6, <2>1, <2>2, <2>3, <2>4 DEF Ascend, Rebuilds
<1>7. ASSUME NEW t \in Transients, MakePersistent(t)
      PROVE  rightMost'[u]
  <2>1. CASE Mark(t)
    BY <1>1, <2>1 DEF Mark, control
  <2>2. CASE \E p \in Persistents : Publish(t, p)
    BY <1>0, <1>4, <2>2 DEF Publish
  <2> QED  BY <1>7, <2>1, <2>2 DEF MakePersistent
<1>8. ASSUME NEW t \in Transients, DecRef(t)
      PROVE  rightMost'[u]
  BY <1>1, <1>8 DEF DecRef, DropReference, DeleteNode, DestroyChild, control
<1>9. ASSUME NEW t \in Transients, MakeCall(t)
      PROVE  rightMost'[u]
  <2>1. CASE Persist(t) \/ PersistMove(t)
    BY <1>0, <1>4, <2>1 DEF Persist, PersistMove, StartsMarking
  <2>2. CASE ~(Persist(t) \/ PersistMove(t))
    BY <1>1, <1>9, <2>2 DEF MakeCall, New, Clear, Empties, Thaw, ThawMove, Copy, Copies, Drop, control
  <2> QED  BY <2>1, <2>2
<1> QED
  BY <1>1, <1>2, <1>3, <1>5, <1>6, <1>7, <1>8, <1>9 DEF Next, Step, vars, control

-----------------------------------------------------------------------------
(* The theorems *)

LEMMA PopsBackAlways == Spec => []PopsBack
<1>1. Init => PopsBack
  BY DEF Init, PopsBack
<1>2. MemoryInv => ControlOK
  BY DEF MemoryInv, MemInv, Memory, TypeOK
<1> QED
  BY <1>1, <1>2, PopsBackNext, MemoryAlways, PTL DEF Spec

LEMMA SizeInit == Init => SizeInv
  BY DEF Init, SizeInv, SizeAt, Handle

LEMMA SizeAlways == Spec /\ []NeverTooDeep => []SizeInv
  BY SizeInit, NextMaps, PopsBackAlways, MemoryAlways, NoTreeTooDeep, PTL DEF Spec

\* size() is the number of elements a tree has, whenever no operation is under way on
\* it, whatever other threads do, as long as no tree has been at its depth limit.
THEOREM SizeCounts == Spec /\ []NeverTooDeep => []SizeIsCount
<1>1. SizeInv => SizeIsCount
  <2> SUFFICES ASSUME SizeInv, NEW h \in Handle, root[h] # Nil, h \in Transients => pc[h] = "idle"
               PROVE  size[h] = Len(Contents(root[h]))
    BY DEF SizeIsCount
  <2>1. Holds(h) = Contents(root[h])
    BY RestingHolds, HoldsIs DEF Climbing
  <2> QED  BY <2>1 DEF SizeInv, SizeAt
<1> QED
  BY <1>1, SizeAlways, PTL

LEMMA AtomicInit == Init => AS!Init
<1> SUFFICES ASSUME Init PROVE AS!Init
  OBVIOUS
<1>1. /\ \A h \in Handle : Objects[h] = AS!NoTree
      /\ \A t \in Transients : Making[t] = AS!NoTree /\ Calling[t] = "none"
  BY ObjectIs DEF Init
<1>2. /\ Objects = [h \in Handle |-> AS!NoTree]
      /\ Making = [t \in Transients |-> AS!NoTree]
      /\ Calling = [t \in Transients |-> "none"]
  BY <1>1, ObjectIs
<1> QED
  BY <1>2 DEF AS!Init, AS!NoObjects, AS!Handle, Handle

\* Operations are atomic: an operation changes what its Transient holds at the step it
\* makes at a leaf, to what the operation is for, and no other step of it, of another
\* thread, or of a destructor changes what any tree holds.  Persistents never change.
THEOREM OperationsAreAtomic == Spec /\ []NeverTooDeep => ImplementsAtomicSeq
<1>1. ~Seen <=> UNCHANGED <<AS!objects, Calling>>
  BY DEF Seen, AS!objects
<1>2. MemoryInv /\ MemoryInv' /\ Shallow /\ Shallow' /\ PopsBack /\ NeverTooDeep
        /\ NeverTooDeep' /\ [Next]_vars
      => [AS!Next]_<<AS!objects, Calling>>
  BY <1>1, NextMaps
<1> QED
  BY <1>2, AtomicInit, PopsBackAlways, MemoryAlways, NoTreeTooDeep, PTL
     DEF Spec, ImplementsAtomicSeq, AS!Spec

=============================================================================
