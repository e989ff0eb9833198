------------------------------ MODULE CowTree ------------------------------
(***************************************************************************)
(* The copy-on-write B+ tree: nodes in a shared memory, counted by the     *)
(* pointers to them, and the Transient and Persistent objects whose roots  *)
(* they are.                                                               *)
(*                                                                         *)
(* A modification walks from the root to a leaf.  At every level the       *)
(* finder picks the child to enter and the node leaves a continuation (its *)
(* DoReplace / DoSplit / DoErase object) on the way down.  The leaf then   *)
(* calls one of them, that node calls its parent's, and so on up to the    *)
(* tree object.  Here the continuations are the stack of the thread, and   *)
(* each call of one is a step:                                             *)
(*                                                                         *)
(*   idle -> descend -> replace | split | erase -> ... -> done -> idle     *)
(*                                                                         *)
(* A node with persistent = TRUE may be reachable from several trees, so   *)
(* it is copied; any other node is changed in place.  A thread runs one    *)
(* Transient; all threads share the Persistents.  Dropping a pointer is a  *)
(* step of its own, so that the release of a whole subtree by one thread   *)
(* interleaves with the steps of the others.                               *)
(***************************************************************************)
EXTENDS NodeOps, FiniteSets

CONSTANTS Transients,   \* the Transient objects, each used by its own thread
          Persistents,  \* the variables that hold Persistent objects
          Values,       \* what is stored in the leaves
          MaxDepth,     \* max_depth: levels the iterator word has room for
          Operations,   \* the operations on elements this instance performs
          ObjectCalls,  \* the calls that make, convert, copy, destroy objects
          MaxNodes,     \* bound on the nodes alive at once
          MaxSize       \* bound on the elements of a tree

NodeId  == 1 .. MaxNodes
Nil     == 0                      \* the null NodePtr
Pointer == NodeId \cup {Nil}
Handle  == Transients \cup Persistents
Level   == 1 .. MaxDepth

ASSUME TreeAssumption ==
    /\ Transients \cap Persistents = {}
    /\ IsFiniteSet(Transients) /\ IsFiniteSet(Persistents)
    /\ MaxDepth \in Nat \ {0}
    /\ MaxNodes \in Nat
    /\ MaxSize \in Nat
    /\ Operations \subseteq {"insert", "assign", "update", "erase", "pop_back",
                             "insert_v", "insert_or_assign"}
    /\ ObjectCalls \subseteq {"clear", "persist", "persist_move", "thaw",
                              "thaw_move", "copy", "drop"}

VARIABLES
    \* The nodes.
    items,       \* the values of a leaf, the child pointers of an inner node
    depth,       \* NodeType::depth, 1 for a leaf
    persistent,  \* NodeBase::persistent
    refs,        \* NodeBase::ref_count
    \* The tree objects.
    root,        \* root_variant, Nil when there is no object or it was moved
    size,        \* tree_size
    \* What thread t is doing.
    pc, op,      \* the phase and the operation it is in
    at,          \* the node being visited on the way down, or by seek_end
    rightMost,   \* is that node on the right edge of the tree?
    stack,       \* the continuations, outermost first
    \* The result the last level called its continuation with.
    ptr,         \* delta.ptr or split.left.ptr, Nil when ptr_changed is false
    right,       \* split.right.ptr
    newLeft,     \* split.new_element_left
    carry,       \* replace.carry
    iter,        \* the iterator to return: an index for every level
    \* Work that is finished before the thread goes on.
    drop,        \* a pointer about to be given up, Nil for none
    dying,       \* the nodes whose destructors are running, innermost last
    marking      \* nodes make_persistent has still to visit

nodes   == <<items, depth, persistent, refs>>
trees   == <<root, size>>
control == <<pc, op, at, rightMost, stack>>
result  == <<ptr, right, newLeft, carry, iter>>
chores  == <<drop, dying, marking>>
vars    == <<nodes, trees, control, result, chores>>

-----------------------------------------------------------------------------
(* Memory *)

Children(n) ==
    IF depth[n] = 1 THEN {} ELSE {items[n][k] : k \in 1 .. Len(items[n])}
OtherChildren(n, i) == {items[n][k] : k \in (1 .. Len(items[n])) \ {i + 1}}

\* operator new: any free node would do, and which one is of no consequence.
Dying(n)  == \E t \in Transients : \E k \in 1 .. Len(dying[t]) : dying[t][k] = n
FreeNodes == {n \in NodeId : refs[n] = 0 /\ ~Dying(n)}
Allocates(n, taken) ==
    /\ n \in FreeNodes \ taken
    /\ \A m \in FreeNodes \ taken : n <= m

\* Mutant: every node is changed in place.
RewritesInPlace(n, dst, taken) == dst = n

\* The node a new version of n is written to: a fresh one if n is persistent
\* ("taken" was allocated before it), and otherwise n itself.
Rewrites(n, dst, taken) ==
    IF persistent[n] THEN Allocates(dst, taken) ELSE dst = n

\* What the caller is told: the new pointer, or that the pointer is the same.
Changed(n, dst) == IF persistent[n] THEN dst ELSE Nil

\* Nodes ns are of depth d; a node that was just made is not persistent.
Makes(ns, d) ==
    /\ depth' = [n \in NodeId |-> IF n \in ns THEN d ELSE depth[n]]
    /\ persistent' = [n \in NodeId |-> n \notin ns /\ persistent[n]]

\* Reference counts after the fresh nodes were made, with their one owner,
\* and the nodes "shared" got one owner more.
Counted(fresh, shared) ==
    [n \in NodeId |-> IF n \in fresh THEN 1
                      ELSE IF n \in shared THEN refs[n] + 1
                      ELSE refs[n]]

\* Counts when the new version of leaf n is dst.
CountedLeaf(n, dst, more) ==
    Counted((IF persistent[n] THEN {dst} ELSE {}) \cup more, {})

\* Mutant: a copied inner node does not count as an owner of its children.
CountedCopyUnshared(n, dst, i, more) ==
    Counted((IF persistent[n] THEN {dst} ELSE {}) \cup more, {})

\* Counts when the new version of inner node n is dst: a copy shares all of
\* n's children but the one at index i, in whose place it has its own pointer.
CountedCopy(n, dst, i, more) ==
    IF persistent[n] THEN Counted({dst} \cup more, OtherChildren(n, i))
                     ELSE Counted(more, {})

\* The pointer to child i that is overwritten or reset when n changes in place.
Overwritten(n, i) == IF persistent[n] THEN Nil ELSE items[n][i + 1]

Drops(t, p) == drop' = [drop EXCEPT ![t] = p]

-----------------------------------------------------------------------------
(* Threads *)

FrameSet == [node : NodeId, index : Nat, rightMost : BOOLEAN]
Frame(t) == stack[t][Len(stack[t])]
Pops(t)  == stack' = [stack EXCEPT ![t] = SubSeq(@, 1, Len(@) - 1)]

Busy(t)    == drop[t] # Nil \/ dying[t] # <<>>
Resting(t) == pc[t] = "idle" /\ ~Busy(t)

\* A continuation of an inner node is called.  The node is one by its type, and
\* the index in the frame is that of a child: see StackIsPath.
AtNode(t, phase) ==
    /\ pc[t] = phase /\ ~Busy(t)
    /\ at[t] = Nil
    /\ stack[t] # <<>>
    /\ LET f == Frame(t)
       IN  depth[f.node] > 1 /\ f.index < Len(items[f.node])

\* A continuation of the tree object is called.
AtRoot(t, phase) ==
    pc[t] = phase /\ ~Busy(t) /\ at[t] = Nil /\ stack[t] = <<>>

AtLeaf(t, names) ==
    pc[t] = "descend" /\ ~Busy(t) /\ depth[at[t]] = 1 /\ op[t] \in names

ZeroIter == [d \in Level |-> 0]

\* do_replace: the pointer is p (Nil: unchanged), and the returned iterator goes
\* on to the next sibling if c.
CallReplace(t, p, c) ==
    /\ pc' = [pc EXCEPT ![t] = "replace"]
    /\ ptr' = [ptr EXCEPT ![t] = p]
    /\ carry' = [carry EXCEPT ![t] = c]
    /\ right' = [right EXCEPT ![t] = Nil]
    /\ newLeft' = [newLeft EXCEPT ![t] = FALSE]

\* do_split: l (Nil: unchanged) and r take the place of the node, and the new
\* element is below l if inLeft.
CallSplit(t, l, r, inLeft) ==
    /\ pc' = [pc EXCEPT ![t] = "split"]
    /\ ptr' = [ptr EXCEPT ![t] = l]
    /\ right' = [right EXCEPT ![t] = r]
    /\ newLeft' = [newLeft EXCEPT ![t] = inLeft]
    /\ UNCHANGED carry

\* do_erase: the node has lost its last item and goes.
CallErase(t) ==
    /\ pc' = [pc EXCEPT ![t] = "erase"]
    /\ UNCHANGED <<ptr, right, newLeft, carry>>

\* The tree object has taken over the result.
Complete(t, phase) ==
    /\ pc' = [pc EXCEPT ![t] = phase]
    /\ ptr' = [ptr EXCEPT ![t] = Nil]
    /\ carry' = [carry EXCEPT ![t] = FALSE]
    /\ right' = [right EXCEPT ![t] = Nil]
    /\ newLeft' = [newLeft EXCEPT ![t] = FALSE]

SetIndex(t, d, i) == iter' = [iter EXCEPT ![t][d] = i]

-----------------------------------------------------------------------------
(* The way down *)

\* What an operation may do at the leaf.  insert_v and insert_or_assign, of an
\* Ordered tree, insert an element unless its key is there: the one then keeps
\* the element that has it, the other replaces it.
Inserting == {"insert", "insert_v", "insert_or_assign"}

\* Mutant: both replace it.
AssigningBoth == {"assign", "update", "insert_v", "insert_or_assign"}

Assigning == {"assign", "update", "insert_or_assign"}
Keeping   == {"update", "insert_v"}

\* Modify: an operation on an element of a tree that has one, or a place for one.
Begin(t, name) ==
    /\ Resting(t) /\ root[t] # Nil
    /\ IF name \in Inserting THEN size[t] < MaxSize
                             ELSE size[t] > 0 /\ items[root[t]] # <<>>
    /\ pc' = [pc EXCEPT ![t] = "descend"]
    /\ op' = [op EXCEPT ![t] = name]
    /\ at' = [at EXCEPT ![t] = root[t]]
    /\ rightMost' = [rightMost EXCEPT ![t] = TRUE]
    /\ UNCHANGED <<nodes, trees, stack, result, chores>>

\* Mutant: right_most is passed on to every child.
ChildOnEdgeAlways(t, i) == rightMost[t]

\* right_most of child i of the node the thread is at.
ChildOnEdge(t, i) == rightMost[t] /\ i = Len(items[at[t]]) - 1

\* An inner node calls the child at the index the finder gives: any index for an
\* iterator or a key, the last for pop_back.
Descend(t, i) ==
    LET n == at[t] IN
        /\ pc[t] = "descend" /\ ~Busy(t) /\ depth[n] > 1
        /\ i < Len(items[n])
        /\ op[t] = "pop_back" => i = Len(items[n]) - 1
        /\ stack' = [stack EXCEPT ![t] =
                       Append(@, [node |-> n, index |-> i,
                                  rightMost |-> rightMost[t]])]
        /\ at' = [at EXCEPT ![t] = items[n][i + 1]]
        /\ rightMost' = [rightMost EXCEPT ![t] = ChildOnEdge(t, i)]
        /\ UNCHANGED <<nodes, trees, pc, op, result, chores>>

-----------------------------------------------------------------------------
(* The leaf *)

LeavesLeaf(t) ==
    /\ at' = [at EXCEPT ![t] = Nil]
    /\ rightMost' = [rightMost EXCEPT ![t] = FALSE]
    /\ UNCHANGED <<op, stack, root, chores>>

\* Mutant: erase does not count the element out.
ShrinksNot(t) == UNCHANGED size

Grows(t)   == size' = [size EXCEPT ![t] = @ + 1]
Shrinks(t) == size' = [size EXCEPT ![t] = @ - 1]

LeafInsert(t, i, v) ==
    LET n == at[t] IN
    /\ AtLeaf(t, Inserting)
    /\ Len(items[n]) # LeafSize
    /\ i <= Len(items[n])
    /\ \E dst \in NodeId :
         /\ Rewrites(n, dst, {})
         /\ items' = [items EXCEPT ![dst] = InsertItem(items[n], i, v)]
         /\ Makes({dst}, 1)
         /\ refs' = CountedLeaf(n, dst, {})
         /\ CallReplace(t, Changed(n, dst), FALSE)
    /\ Grows(t)
    /\ SetIndex(t, 1, i)
    /\ LeavesLeaf(t)

\* A full leaf: the right half goes to a new leaf, made before the left one.
LeafSplit(t, i, v) ==
    LET n  == at[t]
        sp == LeafSplitPoint(i, rightMost[t])
        all == InsertItem(items[n], i, v)
    IN  /\ AtLeaf(t, Inserting)
        /\ Len(items[n]) = LeafSize
        /\ i <= LeafSize
        /\ \E r, dst \in NodeId :
             /\ Allocates(r, {})
             /\ Rewrites(n, dst, {r})
             /\ items' = [items EXCEPT ![dst] = LeftPart(all, sp),
                                       ![r] = RightPart(all, sp)]
             /\ Makes({dst, r}, 1)
             /\ refs' = CountedLeaf(n, dst, {r})
             /\ CallSplit(t, Changed(n, dst), r, i < sp)
        /\ Grows(t)
        /\ SetIndex(t, 1, IF i < sp THEN i ELSE i - sp)
        /\ LeavesLeaf(t)

\* assign2, for assign, for an update whose updater yields v, and for
\* insert_or_assign.
LeafAssign(t, i, v) ==
    LET n == at[t] IN
    /\ AtLeaf(t, Assigning)
    /\ i < Len(items[n])
    /\ \E dst \in NodeId :
         /\ Rewrites(n, dst, {})
         /\ items' = [items EXCEPT ![dst] = ReplaceItem(items[n], i, v)]
         /\ Makes({dst}, 1)
         /\ refs' = CountedLeaf(n, dst, {})
         /\ CallReplace(t, Changed(n, dst), FALSE)
    /\ SetIndex(t, 1, i)
    /\ UNCHANGED size
    /\ LeavesLeaf(t)

\* update2, with an updater that does not call back, and insert_v: no continuation
\* is called.
LeafKeep(t) ==
    /\ AtLeaf(t, Keeping)
    /\ items[at[t]] # <<>>
    /\ pc' = [pc EXCEPT ![t] = "done"]
    /\ at' = [at EXCEPT ![t] = Nil]
    /\ rightMost' = [rightMost EXCEPT ![t] = FALSE]
    /\ stack' = [stack EXCEPT ![t] = <<>>]
    /\ UNCHANGED <<nodes, trees, op, result, chores>>

\* find_last gives pop_back the index after the last value.
ErasesAt(t, i) ==
    IF op[t] = "pop_back" THEN i = Len(items[at[t]]) ELSE i < Len(items[at[t]])

\* Mutant: at the end of the tree too, where there is no next leaf.
LeafCarryAtEnd(i, newLength, onRightEdge) == i = newLength

\* Does the iterator go on to the next leaf when value i is erased?
LeafCarry(i, newLength, onRightEdge) == i = newLength /\ ~onRightEdge

LeafErase(t, i) ==
    LET n == at[t]
        c == LeafCarry(i, Len(items[n]) - 1, rightMost[t])
    IN  /\ AtLeaf(t, {"erase", "pop_back"})
        /\ Len(items[n]) > 1
        /\ ErasesAt(t, i)
        /\ \E dst \in NodeId :
             /\ Rewrites(n, dst, {})
             /\ items' = [items EXCEPT ![dst] = EraseItem(items[n], i)]
             /\ Makes({dst}, 1)
             /\ refs' = CountedLeaf(n, dst, {})
             /\ CallReplace(t, Changed(n, dst), c)
        /\ Shrinks(t)
        /\ SetIndex(t, 1, IF c THEN 0 ELSE i)
        /\ LeavesLeaf(t)

\* The only value of a leaf: the leaf is left as it is, and its parent erases it.
LeafEraseOnly(t, i) ==
    /\ AtLeaf(t, {"erase", "pop_back"})
    /\ Len(items[at[t]]) = 1
    /\ ErasesAt(t, i)
    /\ Shrinks(t)
    /\ SetIndex(t, 1, 0)
    /\ CallErase(t)
    /\ UNCHANGED nodes
    /\ LeavesLeaf(t)

LeafStep(t, i, v) ==
    \/ LeafInsert(t, i, v)
    \/ LeafSplit(t, i, v)
    \/ LeafAssign(t, i, v)
    \/ LeafErase(t, i)
    \/ LeafEraseOnly(t, i)

-----------------------------------------------------------------------------
(* The way up through the inner nodes *)

\* Mutant: the pointer is overwritten without a dec_ref.
ReplacedLeaked(t, n, i) == Nil

\* The pointer that makes room for the child's new version, if there is one.
Replaced(t, n, i) == IF ptr[t] = Nil THEN Nil ELSE Overwritten(n, i)

\* insert_replace: item i has a new version, or only its metadata changed.
InternalReplace(t) ==
    LET n == Frame(t).node
        i == Frame(t).index
        c == carry[t] /\ i = Len(items[n]) - 1
    IN  /\ AtNode(t, "replace")
        /\ \E dst \in NodeId :
             /\ Rewrites(n, dst, {})
             /\ items' = [items EXCEPT ![dst] =
                            IF ptr[t] = Nil THEN items[n]
                            ELSE ReplaceItem(items[n], i, ptr[t])]
             /\ Makes({dst}, depth[n])
             /\ refs' = IF ptr[t] = Nil /\ persistent[n]
                          THEN Counted({dst}, Children(n))
                          ELSE CountedCopy(n, dst, i, {})
             /\ CallReplace(t, Changed(n, dst), c)
        /\ Drops(t, Replaced(t, n, i))
        /\ SetIndex(t, depth[n], IF ~carry[t] THEN i ELSE IF c THEN 0 ELSE i + 1)
        /\ Pops(t)
        /\ UNCHANGED <<trees, op, at, rightMost, dying, marking>>

\* Mutant: ptr_changed is not looked at.
SplitLeftUnchecked(t, n, i) == ptr[t]

\* The left half of a split child: the child's own node if it split in place.
SplitLeft(t, n, i) == IF ptr[t] = Nil THEN items[n][i + 1] ELSE ptr[t]

\* Mutant: the iterator stays with the left half.
InsertionIndexLeft(i, inLeft) == i

\* The index of the new element's child once child i has split.
InsertionIndex(i, inLeft) == IF inLeft THEN i ELSE i + 1

InternalInsert(t) ==
    LET n == Frame(t).node
        i == Frame(t).index
    IN  /\ AtNode(t, "split")
        /\ Len(items[n]) # InternalSize
        /\ \E dst \in NodeId :
             /\ Rewrites(n, dst, {})
             /\ items' = [items EXCEPT ![dst] =
                            SplitChild(items[n], i, SplitLeft(t, n, i), right[t])]
             /\ Makes({dst}, depth[n])
             /\ refs' = CountedCopy(n, dst, i, {})
             /\ CallReplace(t, Changed(n, dst), FALSE)
        /\ Drops(t, Replaced(t, n, i))
        /\ SetIndex(t, depth[n], InsertionIndex(i, newLeft[t]))
        /\ Pops(t)
        /\ UNCHANGED <<trees, op, at, rightMost, dying, marking>>

\* A full inner node splits too.
InternalSplit(t) ==
    LET n   == Frame(t).node
        i   == Frame(t).index
        sp  == InternalSplitPoint(i, Frame(t).rightMost)
        new == InsertionIndex(i, newLeft[t])
        all == SplitChild(items[n], i, SplitLeft(t, n, i), right[t])
    IN  /\ AtNode(t, "split")
        /\ Len(items[n]) = InternalSize
        /\ \E r, dst \in NodeId :
             /\ Allocates(r, {})
             /\ Rewrites(n, dst, {r})
             /\ items' = [items EXCEPT ![dst] = LeftPart(all, sp),
                                       ![r] = RightPart(all, sp)]
             /\ Makes({dst, r}, depth[n])
             /\ refs' = CountedCopy(n, dst, i, {r})
             /\ CallSplit(t, Changed(n, dst), r, new < sp)
        /\ Drops(t, Replaced(t, n, i))
        /\ SetIndex(t, depth[n], IF new < sp THEN new ELSE new - sp)
        /\ Pops(t)
        /\ UNCHANGED <<trees, op, at, rightMost, dying, marking>>

\* Child i goes.  When it was the last, the iterator carries over to the next
\* subtree, or, on the right edge of the tree, becomes its end().
InternalErase(t) ==
    LET n    == Frame(t).node
        i    == Frame(t).index
        past == i = Len(items[n]) - 1
        seek == past /\ Frame(t).rightMost
    IN  /\ AtNode(t, "erase")
        /\ Len(items[n]) > 1
        /\ \E dst \in NodeId :
             /\ Rewrites(n, dst, {})
             /\ items' = [items EXCEPT ![dst] = EraseItem(items[n], i)]
             /\ Makes({dst}, depth[n])
             /\ refs' = CountedCopy(n, dst, i, {})
             /\ CallReplace(t, Changed(n, dst), past /\ ~seek)
             /\ at' = [at EXCEPT ![t] = IF seek THEN dst ELSE Nil]
        /\ Drops(t, Overwritten(n, i))
        /\ IF seek THEN UNCHANGED iter
                   ELSE SetIndex(t, depth[n], IF past THEN 0 ELSE i)
        /\ Pops(t)
        /\ UNCHANGED <<trees, op, rightMost, dying, marking>>

\* The only child goes, and this node with it.
InternalEraseOnly(t) ==
    /\ AtNode(t, "erase")
    /\ Len(items[Frame(t).node]) = 1
    /\ SetIndex(t, depth[Frame(t).node], 0)
    /\ CallErase(t)
    /\ Pops(t)
    /\ UNCHANGED <<nodes, trees, op, at, rightMost, chores>>

\* The continuation is not called before seek_end, which goes down the right
\* edge from the node that lost its last child, has come to the leaf.
Seeking(t) == pc[t] = "replace" /\ at[t] # Nil

SeekEnd(t) ==
    LET n == at[t] IN
    /\ Seeking(t) /\ ~Busy(t)
    /\ items[n] # <<>>
    /\ IF depth[n] = 1
         THEN /\ SetIndex(t, 1, Len(items[n]))
              /\ at' = [at EXCEPT ![t] = Nil]
         ELSE /\ SetIndex(t, depth[n], Len(items[n]) - 1)
              /\ at' = [at EXCEPT ![t] = items[n][Len(items[n])]]
    /\ UNCHANGED <<nodes, trees, pc, op, rightMost, stack, chores>>
    /\ UNCHANGED <<ptr, right, newLeft, carry>>

-----------------------------------------------------------------------------
(* The tree object takes the result *)

\* An inner root with one child gives way to the child.
Collapsible(n, children) == depth[n] > 1 /\ Len(children) = 1

RootReplace(t) ==
    LET new == IF ptr[t] = Nil THEN root[t] ELSE ptr[t] IN
    /\ AtRoot(t, "replace")
    /\ root' = [root EXCEPT ![t] = new]
    /\ Drops(t, IF ptr[t] = Nil THEN Nil ELSE root[t])
    /\ Complete(t, IF Collapsible(new, items[new]) THEN "collapse" ELSE "done")
    /\ UNCHANGED <<nodes, size, op, at, rightMost, stack, iter, dying, marking>>

\* Mutant: the root is replaced by itself.
OnlyChildSelf(n) == n

OnlyChild(n) == items[n][1]

\* The child is counted before the old root is dropped.
Collapse(t) ==
    LET old == root[t]
        new == OnlyChild(old)
    IN  /\ pc[t] = "collapse" /\ ~Busy(t)
        /\ Collapsible(old, items[old])
        /\ root' = [root EXCEPT ![t] = new]
        /\ refs' = Counted({}, {new})
        /\ Drops(t, old)
        /\ pc' = [pc EXCEPT ![t] = IF Collapsible(new, items[new])
                                     THEN "collapse" ELSE "done"]
        /\ UNCHANGED <<items, depth, persistent, size, op, at, rightMost, stack,
                       result, dying, marking>>

\* A new root above the two halves of the old one.
RootSplit(t) ==
    LET left == IF ptr[t] = Nil THEN root[t] ELSE ptr[t] IN
    /\ AtRoot(t, "split")
    /\ depth[root[t]] < MaxDepth
    /\ \E r \in NodeId :
         /\ Allocates(r, {})
         /\ items' = [items EXCEPT ![r] = <<left, right[t]>>]
         /\ Makes({r}, depth[root[t]] + 1)
         /\ refs' = Counted({r}, {})
         /\ root' = [root EXCEPT ![t] = r]
         /\ SetIndex(t, depth[root[t]] + 1, IF newLeft[t] THEN 0 ELSE 1)
    /\ Drops(t, IF ptr[t] = Nil THEN Nil ELSE root[t])
    /\ Complete(t, "done")
    /\ UNCHANGED <<size, op, at, rightMost, stack, dying, marking>>

\* No level is left for a new root.  Without BPPTREE_SAFETY_CHECKS nothing is
\* done, and the split goes out of scope: its right half, then its left one.
RootSplitTooDeep(t) ==
    /\ AtRoot(t, "split")
    /\ depth[root[t]] >= MaxDepth
    /\ Drops(t, right[t])
    /\ right' = [right EXCEPT ![t] = Nil]
    /\ pc' = [pc EXCEPT ![t] = "discard"]
    /\ UNCHANGED <<nodes, trees, op, at, rightMost, stack, ptr, newLeft, carry,
                   iter, dying, marking>>

\* Mutant: the left half is forgotten.
LeftHalfForgotten(t) == Nil

\* There is no new left half if the root split in place.
LeftHalf(t) == ptr[t]

DiscardLeft(t) ==
    /\ AtRoot(t, "discard")
    /\ Drops(t, LeftHalf(t))
    /\ Complete(t, "done")
    /\ UNCHANGED <<nodes, trees, op, at, rightMost, stack, iter, dying, marking>>

\* The last value is gone: an empty leaf.
RootErase(t) ==
    /\ AtRoot(t, "erase")
    /\ \E r \in NodeId :
         /\ Allocates(r, {})
         /\ items' = [items EXCEPT ![r] = <<>>]
         /\ Makes({r}, 1)
         /\ refs' = Counted({r}, {})
         /\ root' = [root EXCEPT ![t] = r]
    /\ Drops(t, root[t])
    /\ Complete(t, "done")
    /\ UNCHANGED <<size, op, at, rightMost, stack, iter, dying, marking>>

\* The caller has the iterator.
Return(t) ==
    /\ pc[t] = "done" /\ ~Busy(t)
    /\ pc' = [pc EXCEPT ![t] = "idle"]
    /\ op' = [op EXCEPT ![t] = "none"]
    /\ iter' = [iter EXCEPT ![t] = ZeroIter]
    /\ UNCHANGED <<nodes, trees, at, rightMost, stack, ptr, right, newLeft,
                   carry, chores>>

-----------------------------------------------------------------------------
(* Making, converting, copying and destroying the objects *)

\* A Transient whose root is a new empty leaf: its constructor, or clear().
Empties(t) ==
    /\ \E r \in NodeId :
         /\ Allocates(r, {})
         /\ items' = [items EXCEPT ![r] = <<>>]
         /\ Makes({r}, 1)
         /\ refs' = Counted({r}, {})
         /\ root' = [root EXCEPT ![t] = r]
    /\ size' = [size EXCEPT ![t] = 0]
    /\ Drops(t, root[t])
    /\ UNCHANGED <<control, result, dying, marking>>

New(t) ==
    /\ Resting(t) /\ root[t] = Nil
    /\ Empties(t)

Clear(t) ==
    /\ "clear" \in ObjectCalls
    /\ Resting(t) /\ root[t] # Nil
    /\ Empties(t)

\* The constructor of a Persistent has its root pointer and marks the nodes.
StartsMarking(t) ==
    /\ Resting(t) /\ root[t] # Nil
    /\ ptr' = [ptr EXCEPT ![t] = root[t]]
    /\ marking' = [marking EXCEPT ![t] = <<root[t]>>]
    /\ pc' = [pc EXCEPT ![t] = "persist"]
    /\ UNCHANGED <<items, depth, persistent, size, op, at, rightMost, stack,
                   right, newLeft, carry, iter, drop, dying>>

\* persistent() const&: the Transient goes on sharing the nodes.
Persist(t) ==
    /\ "persist" \in ObjectCalls
    /\ StartsMarking(t)
    /\ refs' = Counted({}, {root[t]})
    /\ UNCHANGED root

\* persistent() &&: the Transient gives its root away.
PersistMove(t) ==
    /\ "persist_move" \in ObjectCalls
    /\ StartsMarking(t)
    /\ root' = [root EXCEPT ![t] = Nil]
    /\ UNCHANGED refs

\* Mutants: the children are not marked; the last one is not.
ToMarkNothing(n) == <<>>
ToMarkButLast(n) ==
    IF persistent[n] \/ depth[n] = 1 \/ items[n] = <<>>
      THEN <<>> ELSE SubSeq(items[n], 1, Len(items[n]) - 1)

\* make_persistent goes on below a node only if it was not persistent.
ToMark(n) == IF persistent[n] \/ depth[n] = 1 THEN <<>> ELSE items[n]

Mark(t) ==
    /\ pc[t] = "persist" /\ marking[t] # <<>>
    /\ LET n == Head(marking[t]) IN
         /\ persistent' = [persistent EXCEPT ![n] = TRUE]
         /\ marking' = [marking EXCEPT ![t] = ToMark(n) \o Tail(@)]
    /\ UNCHANGED <<items, depth, refs, trees, control, result, drop, dying>>

\* The new object is assigned to variable p.
Publish(t, p) ==
    /\ pc[t] = "persist" /\ marking[t] = <<>>
    /\ root' = [root EXCEPT ![p] = ptr[t]]
    /\ size' = [size EXCEPT ![p] = size[t]]
    /\ ptr' = [ptr EXCEPT ![t] = Nil]
    /\ pc' = [pc EXCEPT ![t] = "idle"]
    /\ Drops(t, root[p])
    /\ UNCHANGED <<nodes, op, at, rightMost, stack, right, newLeft, carry, iter,
                   dying, marking>>

\* Object h is made or assigned a copy of object g.
Copies(t, g, h) ==
    /\ root[g] # Nil
    /\ root' = [root EXCEPT ![h] = root[g]]
    /\ size' = [size EXCEPT ![h] = size[g]]
    /\ refs' = Counted({}, {root[g]})
    /\ Drops(t, root[h])
    /\ UNCHANGED <<items, depth, persistent, control, result, dying, marking>>

\* transient() const&: the Transient shares the nodes of p.
Thaw(t, p) ==
    /\ "thaw" \in ObjectCalls
    /\ Resting(t) /\ root[t] = Nil
    /\ Copies(t, p, t)

\* transient() &&: it takes the root of p.
ThawMove(t, p) ==
    /\ "thaw_move" \in ObjectCalls
    /\ Resting(t) /\ root[t] = Nil /\ root[p] # Nil
    /\ root' = [root EXCEPT ![t] = root[p], ![p] = Nil]
    /\ size' = [size EXCEPT ![t] = size[p]]
    /\ UNCHANGED <<nodes, control, result, chores>>

\* q = p, for Persistents p and q, by thread t; p and q may be the same.
Copy(t, p, q) ==
    /\ "copy" \in ObjectCalls
    /\ Resting(t)
    /\ Copies(t, p, q)

\* The destructor of a Persistent, or of the thread's own Transient.
Drop(t, h) ==
    /\ "drop" \in ObjectCalls
    /\ Resting(t) /\ root[h] # Nil
    /\ root' = [root EXCEPT ![h] = Nil]
    /\ size' = [size EXCEPT ![h] = 0]
    /\ Drops(t, root[h])
    /\ UNCHANGED <<nodes, control, result, dying, marking>>

-----------------------------------------------------------------------------
(* dec_ref, and the destructors it starts *)

\* Other pointers to the node are left.
DropReference(t) ==
    /\ drop[t] # Nil /\ refs[drop[t]] > 1
    /\ refs' = [refs EXCEPT ![drop[t]] = @ - 1]
    /\ Drops(t, Nil)
    /\ UNCHANGED <<items, depth, persistent, trees, control, result, dying,
                   marking>>

\* The memory of node n is free again.
Frees(n) ==
    /\ items' = [items EXCEPT ![n] = <<>>]
    /\ Makes({n}, 1)

\* It was the last pointer: the node is deleted, an inner one together with the
\* pointers in it.
DeleteNode(t) ==
    LET n == drop[t] IN
    /\ n # Nil /\ refs[n] = 1
    /\ refs' = [refs EXCEPT ![n] = 0]
    /\ Drops(t, Nil)
    /\ IF depth[n] = 1
         THEN Frees(n) /\ UNCHANGED dying
         ELSE /\ dying' = [dying EXCEPT ![t] = Append(@, n)]
              /\ UNCHANGED <<items, depth, persistent>>
    /\ UNCHANGED <<trees, control, result, marking>>

\* The destructor of an inner node drops its children, the last one first.
DestroyChild(t) ==
    LET n   == dying[t][Len(dying[t])]
        len == Len(items[n])
    IN  /\ drop[t] = Nil /\ dying[t] # <<>>
        /\ depth[n] > 1 /\ items[n] # <<>>
        /\ Drops(t, items[n][len])
        /\ IF len > 1
             THEN /\ items' = [items EXCEPT ![n] = SubSeq(@, 1, len - 1)]
                  /\ UNCHANGED <<depth, persistent, dying>>
             ELSE /\ Frees(n)
                  /\ dying' = [dying EXCEPT ![t] = SubSeq(@, 1, Len(@) - 1)]
        /\ UNCHANGED <<refs, trees, control, result, marking>>

-----------------------------------------------------------------------------
(* The system *)

Ascend(t) ==
    \/ InternalReplace(t) \/ InternalInsert(t) \/ InternalSplit(t)
    \/ InternalErase(t) \/ InternalEraseOnly(t) \/ SeekEnd(t)
    \/ LeafKeep(t)
    \/ RootReplace(t) \/ Collapse(t) \/ RootSplit(t) \/ RootErase(t)
    \/ RootSplitTooDeep(t) \/ DiscardLeft(t)
    \/ Return(t)

MakePersistent(t) == Mark(t) \/ \E p \in Persistents : Publish(t, p)

DecRef(t) == DropReference(t) \/ DeleteNode(t) \/ DestroyChild(t)

MakeCall(t) ==
    \/ New(t) \/ Clear(t) \/ Persist(t) \/ PersistMove(t)
    \/ \E p \in Persistents : Thaw(t, p) \/ ThawMove(t, p)
    \/ \E p, q \in Persistents : Copy(t, p, q)
    \/ \E h \in {t} \cup Persistents : Drop(t, h)

\* A step of the call thread t is in.
Step(t) ==
    \/ \E i \in 0 .. InternalSize - 1 : Descend(t, i)
    \/ \E i \in 0 .. LeafSize, v \in Values : LeafStep(t, i, v)
    \/ Ascend(t)
    \/ MakePersistent(t)
    \/ DecRef(t)

Init ==
    /\ items = [n \in NodeId |-> <<>>]
    /\ depth = [n \in NodeId |-> 1]
    /\ persistent = [n \in NodeId |-> FALSE]
    /\ refs = [n \in NodeId |-> 0]
    /\ root = [h \in Handle |-> Nil]
    /\ size = [h \in Handle |-> 0]
    /\ pc = [t \in Transients |-> "idle"]
    /\ op = [t \in Transients |-> "none"]
    /\ at = [t \in Transients |-> Nil]
    /\ rightMost = [t \in Transients |-> FALSE]
    /\ stack = [t \in Transients |-> <<>>]
    /\ ptr = [t \in Transients |-> Nil]
    /\ right = [t \in Transients |-> Nil]
    /\ newLeft = [t \in Transients |-> FALSE]
    /\ carry = [t \in Transients |-> FALSE]
    /\ iter = [t \in Transients |-> ZeroIter]
    /\ drop = [t \in Transients |-> Nil]
    /\ dying = [t \in Transients |-> <<>>]
    /\ marking = [t \in Transients |-> <<>>]

Next ==
    \E t \in Transients :
        \/ \E name \in Operations : Begin(t, name)
        \/ MakeCall(t)
        \/ Step(t)

Spec == Init /\ [][Next]_vars

\* A thread inside a call keeps running.  Whether it starts another one is up
\* to the program that uses the tree.
FairSpec == Spec /\ \A t \in Transients : WF_vars(Step(t))

-----------------------------------------------------------------------------
(* Properties *)

PhaseSet == {"idle", "descend", "replace", "split", "erase", "collapse",
             "discard", "done", "persist"}

NodesOK ==
    /\ items \in [NodeId -> Seq(Values) \cup Seq(NodeId)]
    /\ depth \in [NodeId -> Nat \ {0}]
    /\ persistent \in [NodeId -> BOOLEAN]
    /\ refs \in [NodeId -> Nat]
    /\ \A n \in NodeId :
         items[n] \in IF depth[n] = 1 THEN Seq(Values) ELSE Seq(NodeId)

TreesOK ==
    /\ root \in [Handle -> Pointer]
    /\ size \in [Handle -> Nat]

ControlOK ==
    /\ pc \in [Transients -> PhaseSet]
    /\ op \in [Transients -> Operations \cup {"none"}]
    /\ at \in [Transients -> Pointer]
    /\ rightMost \in [Transients -> BOOLEAN]
    /\ stack \in [Transients -> Seq(FrameSet)]

ResultOK ==
    /\ ptr \in [Transients -> Pointer]
    /\ right \in [Transients -> Pointer]
    /\ newLeft \in [Transients -> BOOLEAN]
    /\ carry \in [Transients -> BOOLEAN]
    /\ iter \in [Transients -> [Level -> Nat]]

ChoresOK ==
    /\ drop \in [Transients -> Pointer]
    /\ dying \in [Transients -> Seq(NodeId)]
    /\ marking \in [Transients -> Seq(NodeId)]

\* What thread t needs in its phase is there.
PhaseOK(t) ==
    /\ pc[t] \in {"descend", "replace", "split", "erase", "collapse", "discard"}
         => root[t] # Nil
    /\ pc[t] = "descend" =>
         at[t] # Nil /\ (op[t] \in {"erase", "pop_back"} => size[t] > 0)
    /\ pc[t] = "split" => right[t] # Nil

\* A leaf holds values and an inner node pointers to nodes; every count, index
\* and pointer is one; and a thread never lacks the pointer that the next step
\* of its call dereferences, nor counts an element less than none.
TypeOK ==
    /\ NodesOK /\ TreesOK /\ ControlOK /\ ResultOK /\ ChoresOK
    /\ \A t \in Transients : PhaseOK(t)

\* The places in the pointer arrays of inner nodes, alive or dying.
Inner == {m \in NodeId : depth[m] > 1}
PointerSlots == UNION {{m} \X DOMAIN items[m] : m \in Inner}

\* The pointers to node n: in objects, in slots, and in the results and chores
\* of threads.
Owners(n) ==
    Cardinality({h \in Handle : root[h] = n})
      + Cardinality({slot \in PointerSlots : items[slot[1]][slot[2]] = n})
      + Cardinality({t \in Transients : ptr[t] = n})
      + Cardinality({t \in Transients : right[t] = n})
      + Cardinality({t \in Transients : drop[t] = n})

\* NodeBase::ref_count is the number of NodePtrs to the node at every step of
\* every thread: no node is deleted while one points to it, and none is lost
\* when the last one goes, whatever is shared, moved, split or collapsed.  A
\* node whose destructor has begun has no pointer to it any more.
RefExact ==
    \A n \in NodeId : refs[n] = Owners(n) /\ (Dying(n) => refs[n] = 0)

\* A node is changed in place only while it has a single owner: the code never
\* looks at the count, it trusts the mark make_persistent leaves.  The one node
\* that is shared without being marked is a root whose marking has begun, or
\* one Collapse is about to drop the parent of.
MutableIsExclusive ==
    \A n \in NodeId : refs[n] > 1 /\ ~persistent[n] =>
        /\ refs[n] = 2
        /\ \E t \in Transients : root[t] = n /\ (marking[t] = <<n>> \/ Busy(t))

\* Everything below a persistent node is persistent, or about to be marked by
\* the thread that marked the node: the reason why make_persistent may stop at
\* a node that is persistent already.
PersistentBelow ==
    \A n \in NodeId : refs[n] > 0 /\ persistent[n] =>
        \A m \in Children(n) :
            persistent[m] \/ \E t \in Transients :
                \E k \in 1 .. Len(marking[t]) : marking[t][k] = m

\* Every node that is alive is one of a B+ tree: an inner node has children, of
\* the level below, which are alive and not empty; no node is over capacity;
\* and the root of an object at rest is no chain of single children.
NodeShape ==
    /\ \A n \in NodeId : refs[n] > 0 =>
         /\ Len(items[n]) <= Capacity(depth[n])
         /\ depth[n] > 1 =>
              /\ items[n] # <<>>
              /\ \A m \in Children(n) :
                   depth[m] = depth[n] - 1 /\ refs[m] > 0 /\ items[m] # <<>>
    /\ \A h \in Handle :
         root[h] # Nil /\ (h \in Transients => pc[h] = "idle") =>
            ~Collapsible(root[h], items[root[h]])

\* The continuations of a thread are a path from its root: each frame names a
\* child of its node, the next frame's node is that child, and the node the
\* thread is at comes after the last.  On the way down the path is the tree as
\* it is; on the way up the part that is left is unchanged by the part done.
StackIsPath ==
    \A t \in Transients : ~Busy(t) =>
        LET s == stack[t]
            OnEdge(k) == \A j \in 1 .. k : s[j].index = Len(items[s[j].node]) - 1
        IN  /\ s # <<>> => root[t] = s[1].node
            /\ pc[t] = "descend" =>
                 /\ at[t] = IF s = <<>> THEN root[t]
                            ELSE items[Frame(t).node][Frame(t).index + 1]
                 /\ rightMost[t] = OnEdge(Len(s))
            /\ \A k \in 1 .. Len(s) :
                 /\ depth[s[k].node] > 1
                 /\ s[k].index < Len(items[s[k].node])
                 /\ s[k].rightMost = OnEdge(k - 1)
                 /\ k > 1 =>
                      s[k].node = items[s[k - 1].node][s[k - 1].index + 1]

\* A node that may be shared does not change: whoever holds a Persistent, or
\* reads it in another thread, sees one version of it for as long as it lives.
PersistentFrozen ==
    [][\A n \in NodeId :
          refs[n] > 0 /\ ~Dying(n) /\ persistent[n] /\ refs'[n] > 0 =>
             persistent'[n] /\ depth'[n] = depth[n] /\ items'[n] = items[n]]_vars

\* Every call returns, whatever the other threads do.
CallsEnd == \A t \in Transients : ~Resting(t) ~> Resting(t)
=============================================================================
