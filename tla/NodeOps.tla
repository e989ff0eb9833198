------------------------------ MODULE NodeOps ------------------------------
(***************************************************************************)
(* What one node does to its own array.  A leaf holds up to LeafSize       *)
(* values, an internal node up to InternalSize child pointers; both are    *)
(* sequences here, the live prefix 0 .. length-1 of the code's arrays.     *)
(* Indexes are the code's 0-based ones, so item i of s is s[i + 1].        *)
(***************************************************************************)
EXTENDS Integers, Sequences

CONSTANTS LeafSize,      \* leaf_node_size
          InternalSize   \* internal_node_size

\* nodetypes.hpp asserts leaf_node_size > 0 and internal_node_size >= 4.
ASSUME NodeSizeAssumption ==
    /\ LeafSize \in Nat \ {0}
    /\ InternalSize \in Nat
    /\ InternalSize >= 4

\* Most items a node of depth d has room for; leaves have depth 1.
Capacity(d) == IF d = 1 THEN LeafSize ELSE InternalSize

\* s with e at index i, everything from i on shifted one to the right.
InsertItem(s, i, e) == SubSeq(s, 1, i) \o <<e>> \o SubSeq(s, i + 1, Len(s))

\* s with e at index i in place of the item there.
ReplaceItem(s, i, e) == [s EXCEPT ![i + 1] = e]

\* Mutant: the length is decremented without the shift.
EraseItemLast(s, i) == SubSeq(s, 1, Len(s) - 1)

\* The erase loops: everything right of i moves one to the left, and the
\* length drops by one whatever i is.  pop_back calls it with i = Len(s).
EraseItem(s, i) ==
    SubSeq(SubSeq(s, 1, i) \o SubSeq(s, i + 2, Len(s)), 1, Len(s) - 1)

\* The two sequences a full node is split into at split point sp.
LeftPart(s, sp)  == SubSeq(s, 1, sp)
RightPart(s, sp) == SubSeq(s, sp + 1, Len(s))

\* Mutant: an appended value stays in the left leaf.
LeafSplitPointLate(i, rightMost) ==
    IF rightMost /\ i = LeafSize THEN i + 1 ELSE (LeafSize + 1) \div 2

\* Where a full leaf splits when a value goes to index i: in the middle, or
\* after everything when the value is appended to the last leaf of the tree.
LeafSplitPoint(i, rightMost) ==
    IF rightMost /\ i = LeafSize THEN i ELSE (LeafSize + 1) \div 2

\* Mutant: off by one when an append splits the last child.
InternalSplitPointLate(i, rightMost) ==
    IF rightMost /\ i + 1 = InternalSize
      THEN i + 2
      ELSE (InternalSize + 1) \div 2

\* Where a full internal node splits when its child i has split.
InternalSplitPoint(i, rightMost) ==
    IF rightMost /\ i + 1 = InternalSize
      THEN i + 1
      ELSE (InternalSize + 1) \div 2

\* The children of an internal node once child i has split into l and r.
SplitChild(s, i, l, r) == InsertItem(ReplaceItem(s, i, l), i + 1, r)
=============================================================================
