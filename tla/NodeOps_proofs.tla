--------------------------- MODULE NodeOps_proofs ---------------------------
(***************************************************************************)
(* Facts about the operators of NodeOps, for every capacity and every      *)
(* array: what they return, and that the two nodes a full one is split     *)
(* into hold all of its items and both fit.                                *)
(***************************************************************************)
EXTENDS NodeOps, SequenceTheorems, TLAPS

\* insert_no_split: the new item is at index i, the ones before it keep their
\* places and the others move up by one.
LEMMA InsertItemProperties ==
    ASSUME NEW S, NEW s \in Seq(S), NEW i \in 0 .. Len(s), NEW e \in S
    PROVE  /\ InsertItem(s, i, e) \in Seq(S)
           /\ Len(InsertItem(s, i, e)) = Len(s) + 1
           /\ \A k \in 1 .. Len(s) + 1 :
                InsertItem(s, i, e)[k] =
                   IF k <= i THEN s[k] ELSE IF k = i + 1 THEN e ELSE s[k - 1]
<1> DEFINE n == Len(s)
           a == SubSeq(s, 1, i)
           c == SubSeq(s, i + 1, n)
<1>0. n \in Nat /\ i \in 0 .. n /\ \A k \in 1 .. n : s[k] \in S
  BY LenProperties, ElementOfSeq
<1> HIDE DEF n
<1>1. /\ a \in Seq(S)
      /\ Len(a) = i
      /\ \A k \in 1 .. i : a[k] = s[k]
  BY <1>0, SubSeqProperties
<1>2. /\ c \in Seq(S)
      /\ Len(c) = n - i
      /\ \A k \in 1 .. n - i : c[k] = s[k + i]
  BY <1>0, SubSeqProperties
<1> HIDE DEF a, c
<1> DEFINE b == a \o <<e>>
<1>3. /\ b \in Seq(S)
      /\ Len(b) = i + 1
      /\ \A k \in 1 .. i + 1 : b[k] = IF k <= i THEN s[k] ELSE e
  <2>1. <<e>> \in Seq(S) /\ Len(<<e>>) = 1 /\ <<e>>[1] = e
    OBVIOUS
  <2> QED  BY <1>0, <1>1, <2>1, ConcatProperties
<1> HIDE DEF b
<1> DEFINE d == b \o c
<1>4. /\ d \in Seq(S)
      /\ Len(d) = n + 1
      /\ \A k \in 1 .. n + 1 :
           d[k] = IF k <= i + 1 THEN b[k] ELSE c[k - (i + 1)]
  <2>1. i + 1 + (n - i) = n + 1
    BY <1>0
  <2>2. b \in Seq(S) /\ c \in Seq(S) /\ Len(b) = i + 1 /\ Len(c) = n - i
    BY <1>2, <1>3
  <2>3. /\ d \in Seq(S)
        /\ Len(d) = Len(b) + Len(c)
        /\ \A k \in 1 .. Len(b) + Len(c) :
             d[k] = IF k <= Len(b) THEN b[k] ELSE c[k - Len(b)]
    BY <2>2, ConcatProperties
  <2> QED  BY <2>1, <2>2, <2>3
<1> HIDE DEF d
<1>5. ASSUME NEW k \in 1 .. n + 1
      PROVE  d[k] = IF k <= i THEN s[k] ELSE IF k = i + 1 THEN e ELSE s[k - 1]
  <2>1. CASE k <= i + 1
    BY <1>0, <1>3, <1>4, <2>1
  <2>2. CASE k > i + 1
    <3>1. k - (i + 1) \in 1 .. n - i /\ (k - (i + 1)) + i = k - 1
      BY <1>0, <2>2
    <3>2. c[k - (i + 1)] = s[k - 1]
      BY <1>2, <3>1
    <3> QED  BY <1>0, <1>4, <2>2, <3>2
  <2> QED  BY <1>0, <2>1, <2>2
<1> QED
  BY <1>4, <1>5 DEF InsertItem, d, b, c, a, n

\* set_element, replace_element and assign2 change one item and no other.
LEMMA ReplaceItemProperties ==
    ASSUME NEW S, NEW s \in Seq(S), NEW i \in 0 .. Len(s) - 1, NEW e \in S
    PROVE  /\ ReplaceItem(s, i, e) \in Seq(S)
           /\ Len(ReplaceItem(s, i, e)) = Len(s)
           /\ \A k \in 1 .. Len(s) :
                ReplaceItem(s, i, e)[k] = IF k = i + 1 THEN e ELSE s[k]
<1>1. i + 1 \in 1 .. Len(s)
  BY LenProperties
<1> QED
  BY <1>1, ExceptSeq DEF ReplaceItem

\* The erase loops drop item i; at i = Len(s), pop_back's index, the last.
LEMMA EraseItemProperties ==
    ASSUME NEW S, NEW s \in Seq(S), NEW i \in 0 .. Len(s), Len(s) > 0
    PROVE  /\ EraseItem(s, i) \in Seq(S)
           /\ Len(EraseItem(s, i)) = Len(s) - 1
           /\ \A k \in 1 .. Len(s) - 1 :
                EraseItem(s, i)[k] = IF k <= i THEN s[k] ELSE s[k + 1]
<1> DEFINE n == Len(s)
           a == SubSeq(s, 1, i)
           c == SubSeq(s, i + 2, n)
<1>0. n \in Nat /\ n > 0 /\ i \in 0 .. n /\ \A k \in 1 .. n : s[k] \in S
  BY LenProperties, ElementOfSeq
<1> HIDE DEF n
<1>1. /\ a \in Seq(S)
      /\ Len(a) = i
      /\ \A k \in 1 .. i : a[k] = s[k]
  BY <1>0, SubSeqProperties
<1> DEFINE m == IF i + 2 <= n THEN n - i - 1 ELSE 0
<1>2. /\ c \in Seq(S)
      /\ Len(c) = m
      /\ m \in Nat /\ m >= n - i - 1
      /\ \A k \in 1 .. n - i - 1 : c[k] = s[k + i + 1]
  BY <1>0, SubSeqProperties
<1> HIDE DEF a, c, m
<1> DEFINE d == a \o c
<1>3. /\ d \in Seq(S)
      /\ Len(d) = i + m
      /\ \A k \in 1 .. i + m : d[k] = IF k <= i THEN a[k] ELSE c[k - i]
  <2>1. a \in Seq(S) /\ c \in Seq(S) /\ Len(a) = i /\ Len(c) = m
    BY <1>1, <1>2
  <2> QED  BY ONLY <2>1, ConcatProperties
<1> HIDE DEF d
<1>4. ASSUME NEW k \in 1 .. n - 1
      PROVE  d[k] = (IF k <= i THEN s[k] ELSE s[k + 1]) /\ d[k] \in S
  <2>1. CASE k <= i
    BY <1>0, <1>1, <1>2, <1>3, <2>1
  <2>2. CASE k > i
    <3>1. k - i \in 1 .. n - i - 1 /\ (k - i) + i + 1 = k + 1 /\ k + 1 \in 1 .. n
      BY <1>0, <2>2
    <3>2. c[k - i] = s[k + 1]
      BY <1>2, <3>1
    <3> QED  BY <1>0, <1>2, <1>3, <2>2, <3>1, <3>2
  <2> QED  BY <1>0, <2>1, <2>2
<1> DEFINE f == SubSeq(d, 1, n - 1)
<1>5. /\ f \in Seq(S)
      /\ Len(f) = n - 1
      /\ \A k \in 1 .. n - 1 : f[k] = d[k]
  BY <1>0, <1>4, SubSeqProperties
<1> HIDE DEF f
<1> QED
  BY <1>4, <1>5 DEF EraseItem, f, d, a, c, n

\* Nothing is lost, doubled or reordered by a split, wherever it is.
LEMMA SplitKeepsItems ==
    ASSUME NEW S, NEW s \in Seq(S), NEW sp \in 0 .. Len(s)
    PROVE  /\ LeftPart(s, sp) \in Seq(S)
           /\ RightPart(s, sp) \in Seq(S)
           /\ Len(LeftPart(s, sp)) = sp
           /\ Len(RightPart(s, sp)) = Len(s) - sp
           /\ LeftPart(s, sp) \o RightPart(s, sp) = s
<1>0. Len(s) \in Nat /\ sp \in Nat
  BY LenProperties
<1>1. LeftPart(s, sp) \in Seq(S) /\ Len(LeftPart(s, sp)) = sp
  BY <1>0, SubSeqProperties, ElementOfSeq DEF LeftPart
<1>2. RightPart(s, sp) \in Seq(S) /\ Len(RightPart(s, sp)) = Len(s) - sp
  BY <1>0, SubSeqProperties, ElementOfSeq DEF RightPart
<1>3. LeftPart(s, sp) \o RightPart(s, sp) = SubSeq(s, 1, Len(s))
  <2>1. 1 \in 1 .. Len(s) + 1 /\ sp \in 1 - 1 .. Len(s) /\ Len(s) \in sp .. Len(s)
    BY <1>0
  <2> QED  BY <2>1, ConcatAdjacentSubSeq DEF LeftPart, RightPart
<1> QED
  BY <1>1, <1>2, <1>3, SubSeqFull

-----------------------------------------------------------------------------
\* The split points leave both nodes with an item, and with no more than fit.
LEMMA LeafSplitPointRange ==
    ASSUME NEW i \in 0 .. LeafSize, NEW rightMost \in BOOLEAN
    PROVE  LeafSplitPoint(i, rightMost) \in 1 .. LeafSize
  BY NodeSizeAssumption DEF LeafSplitPoint

LEMMA InternalSplitPointRange ==
    ASSUME NEW i \in 0 .. InternalSize - 1, NEW rightMost \in BOOLEAN
    PROVE  InternalSplitPoint(i, rightMost) \in 1 .. InternalSize
  BY NodeSizeAssumption DEF InternalSplitPoint

\* insert_split, of a full leaf that gets value v: the two leaves hold the old
\* values and the new one in order, neither is empty and neither overflows.
THEOREM LeafSplitFits ==
    ASSUME NEW S, NEW s \in Seq(S), Len(s) = LeafSize,
           NEW i \in 0 .. LeafSize, NEW v \in S, NEW rightMost \in BOOLEAN
    PROVE  LET sp == LeafSplitPoint(i, rightMost)
               l  == LeftPart(InsertItem(s, i, v), sp)
               r  == RightPart(InsertItem(s, i, v), sp)
           IN  /\ l \o r = InsertItem(s, i, v)
               /\ Len(l) \in 1 .. LeafSize
               /\ Len(r) \in 1 .. LeafSize
<1> DEFINE all == InsertItem(s, i, v)
           sp  == LeafSplitPoint(i, rightMost)
<1>1. all \in Seq(S) /\ Len(all) = LeafSize + 1
  <2>1. i \in 0 .. Len(s)
    OBVIOUS
  <2>2. all \in Seq(S) /\ Len(all) = Len(s) + 1
    BY ONLY s \in Seq(S), v \in S, <2>1, InsertItemProperties
  <2> QED  BY <2>2
<1>2. sp \in 1 .. LeafSize
  BY LeafSplitPointRange
<1> HIDE DEF all, sp
<1>3. sp \in 0 .. Len(all)
  BY <1>1, <1>2, NodeSizeAssumption
<1>4. /\ Len(LeftPart(all, sp)) = sp
      /\ Len(RightPart(all, sp)) = Len(all) - sp
      /\ LeftPart(all, sp) \o RightPart(all, sp) = all
  BY <1>1, <1>3, SplitKeepsItems
<1>5. Len(all) - sp \in 1 .. LeafSize
  BY <1>1, <1>2, NodeSizeAssumption
<1> QED
  BY <1>2, <1>4, <1>5 DEF all, sp

\* A split child: its left half takes its place and the right half the next.
LEMMA SplitChildProperties ==
    ASSUME NEW S, NEW s \in Seq(S), NEW i \in 0 .. Len(s) - 1,
           NEW l \in S, NEW r \in S
    PROVE  /\ SplitChild(s, i, l, r) \in Seq(S)
           /\ Len(SplitChild(s, i, l, r)) = Len(s) + 1
<1>1. /\ ReplaceItem(s, i, l) \in Seq(S)
      /\ Len(ReplaceItem(s, i, l)) = Len(s)
  BY ReplaceItemProperties, SMTT(30)
<1>2. i + 1 \in 0 .. Len(ReplaceItem(s, i, l))
  BY <1>1, LenProperties
<1> QED
  BY <1>1, <1>2, InsertItemProperties DEF SplitChild

\* insert_split_split, of a full inner node whose child i has split into l and
\* r: the same as for a leaf.
THEOREM InternalSplitFits ==
    ASSUME NEW S, NEW s \in Seq(S), Len(s) = InternalSize,
           NEW i \in 0 .. InternalSize - 1, NEW l \in S, NEW r \in S,
           NEW rightMost \in BOOLEAN
    PROVE  LET sp  == InternalSplitPoint(i, rightMost)
               all == SplitChild(s, i, l, r)
           IN  /\ LeftPart(all, sp) \o RightPart(all, sp) = all
               /\ Len(LeftPart(all, sp)) \in 1 .. InternalSize
               /\ Len(RightPart(all, sp)) \in 1 .. InternalSize
<1> DEFINE all == SplitChild(s, i, l, r)
           sp  == InternalSplitPoint(i, rightMost)
<1>1. all \in Seq(S) /\ Len(all) = InternalSize + 1
  <2>1. i \in 0 .. Len(s) - 1
    OBVIOUS
  <2>2. all \in Seq(S) /\ Len(all) = Len(s) + 1
    BY ONLY s \in Seq(S), l \in S, r \in S, <2>1, SplitChildProperties
  <2> QED  BY <2>2
<1>2. sp \in 1 .. InternalSize
  BY InternalSplitPointRange
<1> HIDE DEF all, sp
<1>3. sp \in 0 .. Len(all)
  BY <1>1, <1>2, NodeSizeAssumption
<1>4. /\ Len(LeftPart(all, sp)) = sp
      /\ Len(RightPart(all, sp)) = Len(all) - sp
      /\ LeftPart(all, sp) \o RightPart(all, sp) = all
  BY <1>1, <1>3, SplitKeepsItems
<1>5. Len(all) - sp \in 1 .. InternalSize
  BY <1>1, <1>2, NodeSizeAssumption
<1> QED
  BY <1>2, <1>4, <1>5 DEF all, sp
=============================================================================
