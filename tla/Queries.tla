------------------------------- MODULE Queries -------------------------------
(***************************************************************************)
(* What the Indexed, Summed and Min mixins answer from the arrays of the   *)
(* inner nodes, on one path from the root to a leaf.  Each member function *)
(* is an operator on a node; the properties compare its answer in a tree   *)
(* at rest with a scan of the tree's contents.                             *)
(***************************************************************************)
EXTENDS Mixins, TreeWords

CONSTANT Jumps    \* the distances an iterator is moved by in one call

ASSUME JumpsAssumption == Jumps \subseteq Int

\* The node below n that a word leads to.
Below(n, it) == items[n][it[depth[n]] + 1]

\* The code's loops over the slots 0 .. i - 1 of a node.
SumOver(f(_), i) == MapThenSumSet(f, 1 .. i)

-----------------------------------------------------------------------------
(* Indexed *)

\* The loop of find_index: on, while the slots up to this one hold fewer than r;
\* the last slot takes what is left.
FirstSlot(n, r, weights) ==
    LET before(i) == SumOver(LAMBDA k : weights[k], i)
    IN  CHOOSE i \in 0 .. Len(items[n]) - 1 :
          /\ i = Len(items[n]) - 1 \/ before(i + 1) >= r
          /\ \A j \in 0 .. i - 1 : before(j + 1) < r

ChildCounts(n) == [k \in Slots(meta[n]) |-> meta[n][k].children]

\* Mutant: the slot itself is counted too.
CountBeforeThis(n, i) == SumOver(LAMBDA k : meta[n][k].children, i + 1)

CountBefore(n, i) == SumOver(LAMBDA k : meta[n][k].children, i)

\* seek_index, with the code's 1-based index.
RECURSIVE SeekIndex(_, _, _)
SeekIndex(n, it, r) ==
    IF depth[n] = 1 THEN [it EXCEPT ![1] = r - 1]
    ELSE LET i == FirstSlot(n, r, ChildCounts(n))
         IN  SeekIndex(items[n][i + 1], [it EXCEPT ![depth[n]] = i],
                       r - CountBefore(n, i))

\* The way insert_index goes: insertion_index of a leaf is the index itself, so
\* that a new element between two leaves is the last of the left one.
RECURSIVE InsertionWord(_, _, _)
InsertionWord(n, it, r) ==
    IF depth[n] = 1 THEN [it EXCEPT ![1] = r]
    ELSE LET i == FirstSlot(n, r, ChildCounts(n))
         IN  InsertionWord(items[n][i + 1], [it EXCEPT ![depth[n]] = i],
                           r - CountBefore(n, i))

RECURSIVE AtIndex(_, _)
AtIndex(n, r) ==
    IF depth[n] = 1 THEN items[n][r]
    ELSE LET i == FirstSlot(n, r, ChildCounts(n))
         IN  AtIndex(items[n][i + 1], r - CountBefore(n, i))

RECURSIVE OrderOf(_, _)
OrderOf(n, it) ==
    IF depth[n] = 1 THEN it[1]
    ELSE CountBefore(n, it[depth[n]]) + OrderOf(Below(n, it), it)

\* a - b, for iterators of an indexed tree, and for reverse ones, of which one may
\* be rend, whose word names no element.
Distance(n, a, b) == OrderOf(n, a) - OrderOf(n, b)

\* Mutant: rend is taken for the first element.
ReversePlaceFirst(n, it) == IF it = Rend THEN 0 ELSE -OrderOf(n, it)

ReversePlace(n, it) == IF it = Rend THEN 1 ELSE -OrderOf(n, it)
ReverseDistance(n, a, b) == ReversePlace(n, a) - ReversePlace(n, b)

\* The loops of advance that go past whole children: to the first one from i on,
\* by steps of s, that the distance r left does not take the word past, or, with
\* found = FALSE, to the last one there is.
RECURSIVE Skip(_, _, _, _)
Skip(n, i, s, r) ==
    IF (s = 1 /\ i = Len(items[n]) - 1) \/ (s = -1 /\ i = 0)
      THEN [slot |-> i, rest |-> r, found |-> FALSE]
      ELSE LET c == meta[n][i + s + 1].children
           IN  IF c < s * r THEN Skip(n, i + s, s, r - s * c)
               ELSE [slot |-> i + s, rest |-> r - s, found |-> TRUE]

\* Mutant: the step to the next child is not counted.
SkipUncounted(n, i, s, r) ==
    IF (s = 1 /\ i = Len(items[n]) - 1) \/ (s = -1 /\ i = 0)
      THEN [slot |-> i, rest |-> r, found |-> FALSE]
      ELSE [slot |-> i + s, rest |-> r, found |-> TRUE]

Skips(n, i, s, r) == Skip(n, i, s, r)

\* advance of a node of an indexed tree.
RECURSIVE AdvanceIndexed(_, _, _, _)
AdvanceIndexed(m, leaf, it, n) ==
    IF depth[m] = 1 THEN AdvanceLeaf(m, leaf, it, n)
    ELSE LET d == depth[m]
             r == AdvanceIndexed(Below(m, it), leaf, it, n)
             s == IF r.rest > 0 THEN 1 ELSE -1
             k == Skips(m, it[d], s, r.rest)
             w == [r.word EXCEPT ![d] = k.slot]
             c == items[m][k.slot + 1]
         IN  IF r.rest = 0 THEN r
             ELSE IF ~k.found THEN Move(r.leaf, w, k.rest)
             ELSE AdvanceIndexed(m, r.leaf, IF s = 1 THEN SeekFirstWord(c, w)
                                                     ELSE SeekLastWord(c, w),
                                 k.rest)

-----------------------------------------------------------------------------
(* Summed *)

SumLeft(n, i) ==
    IF depth[n] = 1 THEN SumOver(LAMBDA k : SumOf(items[n][k]), i)
                    ELSE SumOver(LAMBDA k : meta[n][k].sum, i)

\* Mutant: the element itself is left out, as in sum_exclusive.
SumUpToBut(n, it) == Wrap(SumLeft(n, it[1]))

\* sum_inclusive of a leaf.
SumUpTo(n, it) == Wrap(SumLeft(n, it[1] + 1))

RECURSIVE SumInclusive(_, _)
SumInclusive(n, it) ==
    IF depth[n] = 1 THEN SumUpTo(n, it)
    ELSE Wrap(SumLeft(n, it[depth[n]]) + SumInclusive(Below(n, it), it))

RECURSIVE SumExclusive(_, _)
SumExclusive(n, it) ==
    IF depth[n] = 1 THEN Wrap(SumLeft(n, it[1]))
    ELSE Wrap(SumLeft(n, it[depth[n]]) + SumExclusive(Below(n, it), it))

ChildSums(n) == [k \in Slots(meta[n]) |-> meta[n][k].sum]

\* Mutant: the last value is taken for the rest, as the last slot is.
LeafBySumInside(n, target) ==
    CHOOSE i \in 0 .. Len(items[n]) - 1 :
        /\ i = Len(items[n]) - 1 \/ SumLeft(n, i + 1) >= target
        /\ \A j \in 0 .. i - 1 : SumLeft(n, j + 1) < target

\* find_index_forward of a leaf: it may go past the last value.
LeafBySum(n, target) ==
    CHOOSE i \in 0 .. Len(items[n]) :
        /\ i = Len(items[n]) \/ SumLeft(n, i + 1) >= target
        /\ \A j \in 0 .. i - 1 : SumLeft(n, j + 1) < target

RECURSIVE SeekSum(_, _, _)
SeekSum(n, it, target) ==
    IF depth[n] = 1 THEN [it EXCEPT ![1] = LeafBySum(n, target)]
    ELSE LET i == FirstSlot(n, target, ChildSums(n))
         IN  SeekSum(items[n][i + 1], [it EXCEPT ![depth[n]] = i],
                     target - SumLeft(n, i))

-----------------------------------------------------------------------------
(* Min *)

\* What an item of a node counts as: what a value gives, or the least below a
\* child.
Least(n, i) == IF depth[n] = 1 THEN MinOf(items[n][i + 1]) ELSE meta[n][i + 1].min

\* min_excluding: the first item with the least from b to e.
FirstLeast(n, b, e) ==
    CHOOSE i \in b .. e :
        \A j \in b .. e : /\ Least(n, i) <= Least(n, j)
                          /\ Least(n, i) = Least(n, j) => i <= j

LeafMin(n, b, e) == Least(n, FirstLeast(n, b, e))

\* Mutant: the last of the slots is left out.
OrBetweenBut(n, least, b, e) == Min({least} \cup {Least(n, k) : k \in b .. e - 2})

\* min_internal: the least of what the ends have and the slots between them.
OrBetween(n, least, b, e) == Min({least} \cup {Least(n, k) : k \in b .. e - 1})

RECURSIVE MinAfter(_, _), MinBefore(_, _), MinRange(_, _, _)
MinAfter(n, b) ==
    IF depth[n] = 1 THEN LeafMin(n, b[1], Len(items[n]) - 1)
    ELSE OrBetween(n, MinAfter(Below(n, b), b), b[depth[n]] + 1, Len(items[n]))
MinBefore(n, e) ==
    IF depth[n] = 1 THEN LeafMin(n, 0, e[1])
    ELSE OrBetween(n, MinBefore(Below(n, e), e), 0, e[depth[n]])
MinRange(n, b, e) ==
    IF depth[n] = 1 THEN LeafMin(n, b[1], e[1])
    ELSE IF b[depth[n]] = e[depth[n]] THEN MinRange(Below(n, b), b, e)
    ELSE OrBetween(n, Min({MinAfter(Below(n, b), b), MinBefore(Below(n, e), e)}),
                   b[depth[n]] + 1, e[depth[n]])

\* The same for iterators.  To a slot, and on to the first least below it:
Into(n, it, i) == [it EXCEPT ![depth[n]] = i]

RECURSIVE SeekMin(_, _)
SeekMin(n, it) ==
    LET w == Into(n, it, FirstLeast(n, 0, Len(items[n]) - 1))
    IN  IF depth[n] = 1 THEN w ELSE SeekMin(Below(n, w), w)

ValueAt(n, w) == LET leaf == LeafAt(n, w) IN MinOf(items[leaf][w[1] + 1])

\* where a slot between has less than the word w names, there, else to w.
SeekBetween(n, it, w, b, e) ==
    IF OrBetween(n, ValueAt(n, w), b, e) = ValueAt(n, w) THEN w
    ELSE LET i == FirstLeast(n, b, e - 1)
         IN  SeekMin(items[n][i + 1], Into(n, it, i))

RECURSIVE SeekMinAfter(_, _, _), SeekMinBefore(_, _, _), SeekMinRange(_, _, _, _)
SeekMinAfter(n, it, b) ==
    IF depth[n] = 1 THEN Into(n, it, FirstLeast(n, b[1], Len(items[n]) - 1))
    ELSE SeekBetween(n, it,
                     SeekMinAfter(Below(n, b), Into(n, it, b[depth[n]]), b),
                     b[depth[n]] + 1, Len(items[n]))
SeekMinBefore(n, it, e) ==
    IF depth[n] = 1 THEN Into(n, it, FirstLeast(n, 0, e[1]))
    ELSE SeekBetween(n, it,
                     SeekMinBefore(Below(n, e), Into(n, it, e[depth[n]]), e),
                     0, e[depth[n]])
SeekMinRange(n, it, b, e) ==
    LET d == depth[n] IN
    IF d = 1 THEN Into(n, it, FirstLeast(n, b[1], e[1]))
    ELSE IF b[d] = e[d] THEN SeekMinRange(Below(n, b), Into(n, it, b[d]), b, e)
    ELSE LET wb == SeekMinAfter(Below(n, b), Into(n, it, b[d]), b)
             we == SeekMinBefore(Below(n, e), Into(n, it, e[d]), e)
         IN  SeekBetween(n, it, IF ValueAt(n, wb) < ValueAt(n, we) THEN wb ELSE we,
                         b[d] + 1, e[d])

-----------------------------------------------------------------------------
(* Properties *)

\* A tree at rest that has elements.
Searched(h) ==
    /\ root[h] # Nil /\ size[h] > 0
    /\ h \in Transients => Resting(h)

\* The iterator to the element at position k, by find_index; end() behind them.
WordAt(h, k) == IF k = size[h] THEN SeekEndWord(root[h], ZeroIter)
                               ELSE SeekIndex(root[h], ZeroIter, k + 1)

Elements(h) == Contents(root[h])
SumTo(h, k) == SumOver(LAMBDA j : SumOf(Elements(h)[j]), k)

\* Position, iterator and element belong together whichever of them one starts
\* with, also where a position is the border of two subtrees; insert_index comes
\* to a place there is, with that many elements before it.
IndexFinds ==
    \A h \in Handle : Searched(h) =>
        /\ \A k \in 0 .. size[h] :
             /\ Canonical(root[h], WordAt(h, k))
             /\ Position(root[h], WordAt(h, k)) = k
             /\ OrderOf(root[h], WordAt(h, k)) = k
             /\ LET w == InsertionWord(root[h], ZeroIter, k)
                IN  /\ w[1] \in 0 .. Len(items[LeafAt(root[h], w)])
                    /\ Position(root[h], w) = k
        /\ \A k \in 1 .. size[h] : AtIndex(root[h], k) = Elements(h)[k]

\* An iterator of an indexed tree goes as far as it is told, although it passes
\* whole subtrees by their counts; where there is no element it says so, on the
\* right side.
IndexedMovesExact ==
    \A h \in Handle : Searched(h) =>
        \A k \in 0 .. size[h], j \in Jumps :
            LET r == AdvanceIndexed(root[h], Nil, WordAt(h, k), j) IN
            IF j = 0 /\ k = size[h] THEN r.rest = 0
            ELSE IF k + j < 0 THEN r.rest < 0
            ELSE IF k + j >= size[h] THEN r.rest > 0
            ELSE /\ r.rest = 0
                 /\ r.word = WordAt(h, k + j)
                 /\ r.leaf = LeafAt(root[h], r.word)

\* a - b is how far one has to move from b to come to a, in the direction of the
\* iterators, from and to the ends that name no element too.
DistancesExact ==
    \A h \in Handle : Searched(h) =>
        LET word(k) == IF k = -1 THEN Rend ELSE WordAt(h, k) IN
        /\ \A j, k \in 0 .. size[h] : Distance(root[h], word(j), word(k)) = j - k
        /\ \A j, k \in -1 .. size[h] - 1 :
             ReverseDistance(root[h], word(j), word(k)) = k - j

\* Sums up to an iterator, with and without its element, are those of a scan.
SumsFind ==
    \A h \in Handle : Searched(h) =>
        \A k \in 0 .. size[h] - 1 :
            /\ SumInclusive(root[h], WordAt(h, k)) = Wrap(SumTo(h, k + 1))
            /\ SumExclusive(root[h], WordAt(h, k)) = Wrap(SumTo(h, k))

\* sum_lower_bound(target) is the first element at which the sum reaches target,
\* or end(), as long as no sum wraps: extracted values are not negative.
SumBoundFirst ==
    \A h \in Handle : Searched(h) /\ SumTo(h, size[h]) < 2 ^ SumBits =>
        \A target \in 0 .. 2 ^ SumBits - 1 :
            LET w == SeekSum(root[h], ZeroIter, target)
                k == Position(root[h], w)
            IN  /\ Canonical(root[h], w)
                /\ k < size[h] => SumTo(h, k + 1) >= target
                /\ \A j \in 1 .. k : SumTo(h, j) < target

\* The least of any range and a place in the range where it is, although only the
\* leaves at the two ends are looked through; of the whole tree, the first place.
MinFinds ==
    \A h \in Handle : Searched(h) =>
        LET least(b, e) == Min({MinOf(Elements(h)[k + 1]) : k \in b .. e})
        IN
        /\ \A b, e \in 0 .. size[h] - 1 : b <= e =>
             LET w == SeekMinRange(root[h], ZeroIter, WordAt(h, b), WordAt(h, e))
                 k == Position(root[h], w)
             IN  /\ MinRange(root[h], WordAt(h, b), WordAt(h, e)) = least(b, e)
                 /\ k \in b .. e
                 /\ MinOf(Elements(h)[k + 1]) = least(b, e)
                 /\ WordAt(h, k) = w
        /\ LET k == Position(root[h], SeekMin(root[h], ZeroIter))
           IN  /\ MinOf(Elements(h)[k + 1]) = least(0, size[h] - 1)
               /\ k > 0 => least(0, k - 1) > least(k, k)
=============================================================================
