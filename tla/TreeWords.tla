------------------------------ MODULE TreeWords ------------------------------
(***************************************************************************)
(* The words that name places in trees.                                    *)
(*                                                                         *)
(* An iterator's word packs one index per level into 64 bits, the leaf's   *)
(* in the lowest ones.  Here it is a function on levels.  The members of   *)
(* nodes that move a word (seek_first, advance, ...) are operators on it.  *)
(***************************************************************************)
EXTENDS TreeContents

-----------------------------------------------------------------------------
(* What a word names *)

\* The word names an element of the tree below n, or is its end(): every index
\* is that of an item, but in the last leaf it may be one past.
RECURSIVE Names(_, _, _)
Names(n, it, last) ==
    IF depth[n] = 1
      THEN it[1] < Len(items[n]) \/ (last /\ it[1] = Len(items[n]))
      ELSE /\ it[depth[n]] < Len(items[n])
           /\ Names(items[n][it[depth[n]] + 1], it,
                    last /\ it[depth[n]] = Len(items[n]) - 1)

\* Iterators are compared by their words, so that one word stands for one
\* place: the levels above the root hold 0.
Canonical(n, it) ==
    /\ \A d \in Level : it[d] >= 0 /\ (d > depth[n] => it[d] = 0)
    /\ Names(n, it, TRUE)

\* The number of values left of the place that a word names.
RECURSIVE Position(_, _)
Position(n, it) ==
    IF depth[n] = 1 THEN it[1]
    ELSE CountLeft(n, it[depth[n]]) + Position(items[n][it[depth[n]] + 1], it)

\* The leaf that a word leads to.
RECURSIVE LeafAt(_, _)
LeafAt(n, it) ==
    IF depth[n] = 1 THEN n ELSE LeafAt(items[n][it[depth[n]] + 1], it)

-----------------------------------------------------------------------------
(* The bits of a word *)

\* Mutant: room for the indexes of items, but not for that of end().
BitsForItems(n) == CHOOSE b \in 0 .. n : 2 ^ b >= n /\ \A c \in 0 .. b - 1 : 2 ^ c < n

\* The bits of an index that goes up to n.
BitsRequired(n) ==
    CHOOSE b \in 0 .. n : 2 ^ b - 1 >= n /\ \A c \in 0 .. b - 1 : 2 ^ c - 1 < n

LeafBits     == BitsRequired(LeafSize)
InternalBits == BitsRequired(InternalSize)

ItBits(d)  == IF d = 1 THEN LeafBits ELSE InternalBits
ItShift(d) == IF d = 1 THEN 0 ELSE LeafBits + (d - 2) * InternalBits
ItMask(d)  == 2 ^ ItBits(d) - 1

\* The levels of a tree are those whose indexes are in the word.
UsedBits == ItShift(MaxDepth) + ItBits(MaxDepth)
ASSUME MaxDepthAssumption == UsedBits <= 64

\* get_index, of the number a word is.
GetIndex(bits, d) == (bits \div 2 ^ ItShift(d)) % 2 ^ ItBits(d)

\* The number a word is: set_index puts the indexes in beside each other, where
\* no two share a bit (see IndexesApart).  The bits no level uses are all alike: one of them
\* stands for the others.
Packed(it) ==
    LET unused == IF it[MaxDepth] = -1 THEN 2 ^ UsedBits ELSE 0
        low[d \in 0 .. MaxDepth] ==
          IF d = 0 THEN 0
          ELSE low[d - 1] + (IF it[d] = -1 THEN ItMask(d) ELSE it[d]) * 2 ^ ItShift(d)
    IN  unused + low[MaxDepth]

-----------------------------------------------------------------------------
(* Moving a word *)

\* rend: all 64 bits set, and so every index has all of its bits set, for which
\* -1 stands here.
Rend == [d \in Level |-> -1]

FirstChild(n) == items[n][1]
LastChild(n)  == items[n][Len(items[n])]

\* seek_first, which is seek_begin but for the leaf pointer.
SeekFirstWord(n, it) == [d \in Level |-> IF d <= depth[n] THEN 0 ELSE it[d]]

RECURSIVE SeekLastWord(_, _)
SeekLastWord(n, it) ==
    LET w == [it EXCEPT ![depth[n]] = Len(items[n]) - 1]
    IN  IF depth[n] = 1 THEN w ELSE SeekLastWord(LastChild(n), w)

RECURSIVE SeekEndWord(_, _)
SeekEndWord(n, it) ==
    IF depth[n] = 1
      THEN [it EXCEPT ![1] = Len(items[n])]
      ELSE SeekEndWord(LastChild(n), [it EXCEPT ![depth[n]] = Len(items[n]) - 1])

RECURSIVE LeftmostLeaf(_), RightmostLeaf(_)
LeftmostLeaf(n)  == IF depth[n] = 1 THEN n ELSE LeftmostLeaf(FirstChild(n))
RightmostLeaf(n) == IF depth[n] = 1 THEN n ELSE RightmostLeaf(LastChild(n))

LeafIndex(it) == IF it[1] = -1 THEN ItMask(1) ELSE it[1]

\* set_index of a leaf does not mask the index it is given: -1, for the last
\* value of an empty leaf, sets every bit of the word.
SetLeafIndex(it, i) == IF i = -1 THEN Rend ELSE [it EXCEPT ![1] = i]

\* A word that moves, with the leaf pointer and the distance still to go.
Move(leaf, it, n) == [leaf |-> leaf, word |-> it, rest |-> n]

\* Mutant: an index equal to the length is taken for one in the leaf.
AdvanceLeafPast(m, leaf, it, n) ==
    LET len == Len(items[m])
        sum == LeafIndex(it) + n
    IN  IF n = 0 THEN Move(m, it, 0)
        ELSE IF sum > len
          THEN Move(leaf, SetLeafIndex(it, len - 1), sum - (len - 1))
        ELSE IF sum < 0 THEN Move(leaf, SetLeafIndex(it, 0), sum)
        ELSE Move(m, SetLeafIndex(it, sum), 0)

\* advance of leaf m: by n, or as far as it goes.  By 0 it fixes the leaf.
AdvanceLeaf(m, leaf, it, n) ==
    LET len == Len(items[m])
        sum == LeafIndex(it) + n
    IN  IF n = 0 THEN Move(m, it, 0)
        ELSE IF sum >= len
          THEN Move(leaf, SetLeafIndex(it, len - 1), sum - (len - 1))
        ELSE IF sum < 0 THEN Move(leaf, SetLeafIndex(it, 0), sum)
        ELSE Move(m, SetLeafIndex(it, sum), 0)

\* advance of any node: on to the next child, or back to the previous one, as
\* long as there is one and a distance to go.
RECURSIVE Advance(_, _, _, _)
Advance(m, leaf, it, n) ==
    IF depth[m] = 1 THEN AdvanceLeaf(m, leaf, it, n)
    ELSE LET d == depth[m]
             i == it[d]
             r == Advance(items[m][i + 1], leaf, it, n)
         IN  IF r.rest > 0 /\ i < Len(items[m]) - 1
               THEN Advance(m, r.leaf,
                            SeekFirstWord(items[m][i + 2],
                                          [r.word EXCEPT ![d] = i + 1]),
                            r.rest - 1)
             ELSE IF r.rest < 0 /\ i > 0
               THEN Advance(m, r.leaf,
                            SeekLastWord(items[m][i], [r.word EXCEPT ![d] = i - 1]),
                            r.rest + 1)
             ELSE r
=============================================================================
