---------------------------- MODULE TreeContents ----------------------------
(***************************************************************************)
(* What the trees of CowTree hold, from left to right.                     *)
(***************************************************************************)
EXTENDS CowTree, SequencesExt

\* The values of the nodes of a sequence, one node after the other.
Gathered(below, ns) == FlattenSeq([k \in 1 .. Len(ns) |-> below[ns[k]]])

\* The values below every node.
ContentsIn(its, deps) ==
    LET below[d \in Level] ==
          [n \in NodeId |-> IF d = 1 THEN its[n] ELSE Gathered(below[d - 1], its[n])]
    IN  [n \in NodeId |-> below[deps[n]][n]]
Contents(n) == ContentsIn(items, depth)[n]
Beneath(ns) == Gathered(ContentsIn(items, depth), ns)

\* The number of values below the first i children of n.
CountLeft(n, i) == Len(Beneath(SubSeq(items[n], 1, i)))

-----------------------------------------------------------------------------
(* A tree whose operation is on its way up *)

\* What is left, and right, of the child a frame names.
LeftOf(f)  == Beneath(SubSeq(items[f.node], 1, f.index))
RightOf(f) == Beneath(SubSeq(items[f.node], f.index + 2, Len(items[f.node])))

Lefts(s)  == FlattenSeq([j \in 1 .. Len(s) |-> LeftOf(s[j])])
Rights(s) == FlattenSeq([j \in 1 .. Len(s) |-> RightOf(s[Len(s) - j + 1])])

\* The node that thread t has a new version of, or has changed in place.
NewTip(t) == IF ptr[t] # Nil THEN ptr[t]
             ELSE IF stack[t] = <<>> THEN root[t]
             ELSE items[Frame(t).node][Frame(t).index + 1]

\* What is to take the place of the child.
Middle(t) ==
    CASE pc[t] = "replace" -> Contents(NewTip(t))
      [] pc[t] = "split"   -> Contents(NewTip(t)) \o Contents(right[t])
      [] pc[t] = "erase"   -> <<>>

\* What the tree of t will hold once all its continuations have been called.
Outlook(t) == Lefts(stack[t]) \o Middle(t) \o Rights(stack[t])

\* What object h holds.
Holds(h) ==
    IF root[h] = Nil THEN <<>>
    ELSE IF h \in Transients /\ pc[h] \in {"replace", "split", "erase"} THEN Outlook(h)
    ELSE Contents(root[h])

\* The objects, those being constructed, and the operations that have not come to
\* their leaf.
Objects == [h \in Handle |-> [live |-> root[h] # Nil, seq |-> Holds(h)]]
Making  == [t \in Transients |->
             IF pc[t] = "persist" THEN [live |-> TRUE, seq |-> Contents(ptr[t])]
                                  ELSE [live |-> FALSE, seq |-> <<>>]]
Calling == [t \in Transients |-> IF pc[t] = "descend" THEN op[t] ELSE "none"]

AS == INSTANCE AtomicSeq WITH contents <- Objects, making <- Making, calling <- Calling

-----------------------------------------------------------------------------
(* Properties *)

\* An operation takes effect at once, at its leaf: from there on the tree, with
\* what the continuations are still to do, holds what the operation leaves, and
\* no step of it or of another thread changes that, or any other object.
ImplementsAtomicSeq == AS!Spec

\* No operation has found its tree at the depth limit: the elements of one that does
\* are dropped with the nodes it has made, see RootSplitTooDeep.
NeverTooDeep == \A t \in Transients : pc[t] # "discard"

\* size() is the number of elements, in every tree object that is at rest.
SizeIsCount ==
    \A h \in Handle :
        root[h] # Nil /\ (h \in Transients => pc[h] = "idle") =>
            size[h] = Len(Contents(root[h]))
=============================================================================
