--------------------------- MODULE CowTree_proofs ---------------------------
(***************************************************************************)
(* Theorems about the copy-on-write tree, for every number of threads,     *)
(* objects, nodes and levels, every capacity, and all orders of steps:     *)
(*                                                                         *)
(*   TypeCorrect     every step of every call keeps the types, and no      *)
(*                   thread lacks the pointer its next step dereferences   *)
(*   VersionsFrozen  no step changes a node that may be shared             *)
(*                                                                         *)
(* TypeOK is inductive: its conjunct PhaseOK says for every phase of a     *)
(* call what the phase before has left.                                    *)
(***************************************************************************)
EXTENDS CowTree, NodeOps_proofs

-----------------------------------------------------------------------------
(* The parts a step leaves alone *)

LEMMA SameNodes == NodesOK /\ UNCHANGED nodes => NodesOK'
  BY DEF NodesOK, nodes

LEMMA SameTrees == TreesOK /\ UNCHANGED trees => TreesOK'
  BY DEF TreesOK, trees

LEMMA SameControl == ControlOK /\ UNCHANGED control => ControlOK'
  BY DEF ControlOK, control

LEMMA SameResult == ResultOK /\ UNCHANGED result => ResultOK'
  BY DEF ResultOK, result

LEMMA SameChores == ChoresOK /\ UNCHANGED chores => ChoresOK'
  BY DEF ChoresOK, chores

\* A step of thread t leaves the phase of every other thread as it was.
OthersWait(t) ==
    \A u \in Transients \ {t} :
        /\ pc'[u] = pc[u] /\ op'[u] = op[u] /\ at'[u] = at[u]
        /\ right'[u] = right[u] /\ root'[u] = root[u] /\ size'[u] = size[u]

LEMMA PhasesOfOthers ==
    ASSUME TypeOK, NEW t \in Transients, OthersWait(t), PhaseOK(t)'
    PROVE  \A u \in Transients : PhaseOK(u)'
  BY DEF TypeOK, OthersWait, PhaseOK

-----------------------------------------------------------------------------
(* The helpers of the actions *)

LEMMA CountedType ==
    ASSUME NodesOK, NEW fresh, NEW shared
    PROVE  Counted(fresh, shared) \in [NodeId -> Nat]
  BY DEF NodesOK, Counted

\* Nodes ns were written, with the items of nodes of depth d.
LEMMA WrittenNodes ==
    ASSUME NodesOK, NEW ns \in SUBSET NodeId, NEW d \in Nat \ {0},
           Makes(ns, d),
           refs' \in [NodeId -> Nat],
           DOMAIN items' = NodeId, items' = [n \in NodeId |-> items'[n]],
           \A n \in NodeId \ ns : items'[n] = items[n],
           \A n \in ns : items'[n] \in IF d = 1 THEN Seq(Values) ELSE Seq(NodeId)
    PROVE  NodesOK'
  BY DEF NodesOK, Makes

LEMMA SetIndexType ==
    ASSUME ResultOK, NEW t \in Transients, NEW d, NEW i \in Nat,
           SetIndex(t, d, i)
    PROVE  iter' \in [Transients -> [Level -> Nat]]
  BY DEF ResultOK, SetIndex

LEMMA CallReplaceType ==
    ASSUME ResultOK, NEW t \in Transients, NEW p \in Pointer, NEW c \in BOOLEAN,
           CallReplace(t, p, c), iter' \in [Transients -> [Level -> Nat]]
    PROVE  ResultOK'
  BY DEF ResultOK, CallReplace, Pointer

LEMMA CallSplitType ==
    ASSUME ResultOK, NEW t \in Transients, NEW l \in Pointer, NEW r \in NodeId,
           NEW inLeft \in BOOLEAN,
           CallSplit(t, l, r, inLeft), iter' \in [Transients -> [Level -> Nat]]
    PROVE  ResultOK'
  BY DEF ResultOK, CallSplit, Pointer

LEMMA CompleteType ==
    ASSUME ResultOK, NEW t \in Transients, NEW phase,
           Complete(t, phase), iter' \in [Transients -> [Level -> Nat]]
    PROVE  ResultOK'
  BY DEF ResultOK, Complete, Pointer

LEMMA DropsType ==
    ASSUME ChoresOK, NEW t \in Transients, NEW p \in Pointer, Drops(t, p),
           UNCHANGED <<dying, marking>>
    PROVE  ChoresOK'
  BY DEF ChoresOK, Drops

LEMMA NodePointer == NodeId \subseteq Nat /\ Nil \notin NodeId
  BY TreeAssumption DEF NodeId, Nil

-----------------------------------------------------------------------------
(* TypeOK holds initially *)

LEMMA InitType == Init => TypeOK
<1> SUFFICES ASSUME Init PROVE TypeOK
  OBVIOUS
<1>0. \A S : <<>> \in Seq(S)
  BY EmptySeq
<1>1. NodesOK
  BY <1>0 DEF Init, NodesOK
<1>2. TreesOK
  BY DEF Init, TreesOK, Pointer
<1>3. ControlOK
  BY <1>0 DEF Init, ControlOK, PhaseSet, Pointer
<1>4. ResultOK
  BY DEF Init, ResultOK, Pointer, ZeroIter
<1>5. ChoresOK
  BY <1>0 DEF Init, ChoresOK, Pointer
<1>6. \A t \in Transients : PhaseOK(t)
  BY DEF Init, PhaseOK
<1> QED
  BY <1>1, <1>2, <1>3, <1>4, <1>5, <1>6 DEF TypeOK

-----------------------------------------------------------------------------
(* The way down *)

LEMMA BeginType ==
    ASSUME TypeOK, NEW t \in Transients, NEW name \in Operations, Begin(t, name)
    PROVE  TypeOK'
<1> USE DEF Begin, Resting
<1>1. NodesOK' /\ TreesOK' /\ ResultOK' /\ ChoresOK'
  BY SameNodes, SameTrees, SameResult, SameChores DEF TypeOK
<1>2. ControlOK'
  BY DEF TypeOK, ControlOK, TreesOK, PhaseSet, Handle
<1>3. OthersWait(t)
  BY DEF TypeOK, ControlOK, OthersWait, trees, result
<1>4. PhaseOK(t)'
  BY TreeAssumption DEF TypeOK, ControlOK, TreesOK, PhaseOK, trees, Inserting
<1> QED
  BY <1>1, <1>2, <1>3, <1>4, PhasesOfOthers DEF TypeOK

\* The thread is at a node while it descends.
LEMMA AtIsNode ==
    ASSUME TypeOK, NEW t \in Transients, pc[t] = "descend"
    PROVE  at[t] \in NodeId
  BY DEF TypeOK, ControlOK, PhaseOK, Pointer

LEMMA DescendType ==
    ASSUME TypeOK, NEW t \in Transients, NEW i \in 0 .. InternalSize - 1,
           Descend(t, i)
    PROVE  TypeOK'
<1> USE DEF Descend
<1> DEFINE n == at[t]
<1>0. /\ n \in NodeId
      /\ items[n][i + 1] \in NodeId
  <2>1. n \in NodeId
    BY AtIsNode
  <2>2. items[n] \in Seq(NodeId) /\ i + 1 \in 1 .. Len(items[n])
    BY <2>1, LenProperties, NodeSizeAssumption DEF TypeOK, NodesOK
  <2> QED  BY <2>1, <2>2, ElementOfSeq
<1>1. NodesOK' /\ TreesOK' /\ ResultOK' /\ ChoresOK'
  BY SameNodes, SameTrees, SameResult, SameChores DEF TypeOK
<1>2. ControlOK'
  <2>1. [node |-> n, index |-> i, rightMost |-> rightMost[t]] \in FrameSet
    BY <1>0, NodeSizeAssumption DEF TypeOK, ControlOK, FrameSet
  <2>2. stack' \in [Transients -> Seq(FrameSet)]
    BY <2>1, AppendProperties DEF TypeOK, ControlOK
  <2>3. at' \in [Transients -> Pointer]
    BY <1>0 DEF TypeOK, ControlOK, Pointer
  <2>4. rightMost' \in [Transients -> BOOLEAN]
    BY DEF TypeOK, ControlOK, ChildOnEdge
  <2> QED  BY <2>2, <2>3, <2>4 DEF TypeOK, ControlOK
<1>3. OthersWait(t)
  BY DEF TypeOK, ControlOK, OthersWait, trees, result
<1>4. PhaseOK(t)'
  BY <1>0, NodePointer DEF TypeOK, ControlOK, PhaseOK, trees, result
<1> QED
  BY <1>1, <1>2, <1>3, <1>4, PhasesOfOthers DEF TypeOK

-----------------------------------------------------------------------------
(* The leaf *)

\* A leaf holds values, and so does what a node operation makes of it.
LEMMA LeafItems ==
    ASSUME TypeOK, NEW t \in Transients, NEW names, AtLeaf(t, names)
    PROVE  /\ at[t] \in NodeId
           /\ items[at[t]] \in Seq(Values)
           /\ Len(items[at[t]]) \in Nat
           /\ depth[at[t]] = 1
           /\ pc[t] = "descend" /\ op[t] \in names /\ ~Busy(t)
<1>1. at[t] \in NodeId
  BY AtIsNode DEF AtLeaf
<1>2. items[at[t]] \in Seq(Values)
  BY <1>1 DEF TypeOK, NodesOK, AtLeaf
<1> QED
  BY <1>1, <1>2, LenProperties DEF AtLeaf

\* What is common to the steps in the leaf: the new version "new" of its values
\* is written to dst.
LEMMA LeafWritten ==
    ASSUME TypeOK, NEW t \in Transients, NEW names, AtLeaf(t, names),
           NEW dst \in NodeId, NEW new \in Seq(Values),
           items' = [items EXCEPT ![dst] = new],
           Makes({dst}, 1),
           refs' = CountedLeaf(at[t], dst, {})
    PROVE  NodesOK' /\ Changed(at[t], dst) \in Pointer
<1>1. NodesOK
  BY DEF TypeOK
<1>2. refs' \in [NodeId -> Nat]
  BY <1>1, CountedType DEF CountedLeaf
<1>3. /\ DOMAIN items' = NodeId
      /\ items' = [n \in NodeId |-> items'[n]]
      /\ \A n \in NodeId \ {dst} : items'[n] = items[n]
      /\ items'[dst] = new
  BY <1>1 DEF NodesOK
<1>4. NodesOK'
  <2>1. /\ {dst} \in SUBSET NodeId
        /\ 1 \in Nat \ {0}
        /\ \A n \in {dst} :
             items'[n] \in IF 1 = 1 THEN Seq(Values) ELSE Seq(NodeId)
    BY <1>3
  <2> QED  BY ONLY <1>1, <1>2, <1>3, <2>1, Makes({dst}, 1), WrittenNodes
<1> QED
  BY <1>4 DEF Changed, Pointer

\* The thread leaves the leaf, and goes on in one of the phases of the way up.
LEMMA LeafLeft ==
    ASSUME TypeOK, NEW t \in Transients, LeavesLeaf(t),
           NEW phase \in {"replace", "split", "erase"},
           pc' = [pc EXCEPT ![t] = phase],
           TreesOK', \A u \in Transients \ {t} : size'[u] = size[u],
           \A u \in Transients \ {t} : right'[u] = right[u],
           pc[t] = "descend", phase = "split" => right'[t] # Nil
    PROVE  /\ ControlOK'
           /\ ChoresOK'
           /\ \A u \in Transients : PhaseOK(u)'
<1>1. ControlOK'
  BY DEF TypeOK, ControlOK, LeavesLeaf, PhaseSet, Pointer
<1>2. ChoresOK'
  BY SameChores DEF TypeOK, LeavesLeaf
<1>3. OthersWait(t)
  BY DEF TypeOK, ControlOK, OthersWait, LeavesLeaf
<1>4. PhaseOK(t)'
  BY DEF TypeOK, ControlOK, PhaseOK, LeavesLeaf
<1> QED
  BY <1>1, <1>2, <1>3, <1>4, PhasesOfOthers

LEMMA GrowsType ==
    ASSUME TreesOK, NEW t \in Transients, Grows(t), UNCHANGED root
    PROVE  TreesOK' /\ \A u \in Transients \ {t} : size'[u] = size[u]
  BY DEF TreesOK, Grows, Handle

\* An erase is only begun on a tree that has an element.
LEMMA ShrinksType ==
    ASSUME TypeOK, NEW t \in Transients, Shrinks(t), UNCHANGED root,
           AtLeaf(t, {"erase", "pop_back"})
    PROVE  TreesOK' /\ \A u \in Transients \ {t} : size'[u] = size[u]
<1>1. size[t] \in Nat /\ size[t] > 0
  BY DEF TypeOK, TreesOK, PhaseOK, AtLeaf, Handle
<1>2. size[t] - 1 \in Nat
  BY <1>1
<1> QED
  BY <1>2 DEF TypeOK, TreesOK, Shrinks, Handle

LEMMA LeafInsertType ==
    ASSUME TypeOK, NEW t \in Transients, NEW i \in 0 .. LeafSize,
           NEW v \in Values, LeafInsert(t, i, v)
    PROVE  TypeOK'
<1> DEFINE n == at[t]
<1>0. AtLeaf(t, Inserting) /\ LeavesLeaf(t) /\ Grows(t) /\ SetIndex(t, 1, i)
  BY DEF LeafInsert
<1>1. n \in NodeId /\ items[n] \in Seq(Values) /\ pc[t] = "descend"
  BY <1>0, LeafItems
<1>2. i \in 0 .. Len(items[n]) /\ i \in Nat
  BY <1>1, LenProperties, NodeSizeAssumption DEF LeafInsert
<1>3. InsertItem(items[n], i, v) \in Seq(Values)
  BY <1>1, <1>2, InsertItemProperties
<1>4. PICK dst \in NodeId :
        /\ items' = [items EXCEPT ![dst] = InsertItem(items[n], i, v)]
        /\ Makes({dst}, 1)
        /\ refs' = CountedLeaf(n, dst, {})
        /\ CallReplace(t, Changed(n, dst), FALSE)
  BY DEF LeafInsert
<1>5. NodesOK' /\ Changed(n, dst) \in Pointer
  BY <1>0, <1>3, <1>4, LeafWritten
<1>6. TreesOK' /\ \A u \in Transients \ {t} : size'[u] = size[u]
  BY <1>0, GrowsType DEF TypeOK, LeavesLeaf
<1>7. ResultOK'
  BY <1>0, <1>2, <1>4, <1>5, SetIndexType, CallReplaceType DEF TypeOK
<1>8. ControlOK' /\ ChoresOK' /\ \A u \in Transients : PhaseOK(u)'
  BY <1>0, <1>1, <1>4, <1>6, LeafLeft DEF CallReplace, TypeOK, ResultOK
<1> QED
  BY <1>5, <1>6, <1>7, <1>8 DEF TypeOK

LEMMA LeafAssignType ==
    ASSUME TypeOK, NEW t \in Transients, NEW i \in 0 .. LeafSize,
           NEW v \in Values, LeafAssign(t, i, v)
    PROVE  TypeOK'
<1> DEFINE n == at[t]
<1>0. AtLeaf(t, Assigning) /\ LeavesLeaf(t) /\ SetIndex(t, 1, i)
  BY DEF LeafAssign
<1>1. n \in NodeId /\ items[n] \in Seq(Values) /\ pc[t] = "descend"
  BY <1>0, LeafItems
<1>2. i \in 0 .. Len(items[n]) - 1 /\ i \in Nat
  BY <1>1, LenProperties, NodeSizeAssumption DEF LeafAssign
<1>3. ReplaceItem(items[n], i, v) \in Seq(Values)
  BY <1>1, <1>2, ReplaceItemProperties
<1>4. PICK dst \in NodeId :
        /\ items' = [items EXCEPT ![dst] = ReplaceItem(items[n], i, v)]
        /\ Makes({dst}, 1)
        /\ refs' = CountedLeaf(n, dst, {})
        /\ CallReplace(t, Changed(n, dst), FALSE)
  BY DEF LeafAssign
<1>5. NodesOK' /\ Changed(n, dst) \in Pointer
  BY <1>0, <1>3, <1>4, LeafWritten
<1>6. TreesOK' /\ \A u \in Transients \ {t} : size'[u] = size[u]
  BY <1>0, SameTrees DEF TypeOK, LeafAssign, LeavesLeaf, trees
<1>7. ResultOK'
  BY <1>0, <1>2, <1>4, <1>5, SetIndexType, CallReplaceType DEF TypeOK
<1>8. ControlOK' /\ ChoresOK' /\ \A u \in Transients : PhaseOK(u)'
  BY <1>0, <1>1, <1>4, <1>6, LeafLeft DEF CallReplace, TypeOK, ResultOK
<1> QED
  BY <1>5, <1>6, <1>7, <1>8 DEF TypeOK

LEMMA LeafEraseType ==
    ASSUME TypeOK, NEW t \in Transients, NEW i \in 0 .. LeafSize,
           LeafErase(t, i)
    PROVE  TypeOK'
<1> DEFINE n == at[t]
           c == LeafCarry(i, Len(items[n]) - 1, rightMost[t])
<1>0. /\ AtLeaf(t, {"erase", "pop_back"}) /\ LeavesLeaf(t) /\ Shrinks(t)
      /\ SetIndex(t, 1, IF c THEN 0 ELSE i)
      /\ c \in BOOLEAN
  BY DEF LeafErase, LeafCarry
<1>1. n \in NodeId /\ items[n] \in Seq(Values) /\ pc[t] = "descend"
  BY <1>0, LeafItems
<1>2. i \in 0 .. Len(items[n]) /\ i \in Nat /\ (IF c THEN 0 ELSE i) \in Nat
  BY <1>1, LenProperties, NodeSizeAssumption DEF LeafErase, ErasesAt
<1>3. EraseItem(items[n], i) \in Seq(Values)
  <2>1. Len(items[n]) > 0
    BY <1>1, LenProperties DEF LeafErase
  <2> QED  BY <1>1, <1>2, <2>1, EraseItemProperties
<1>4. PICK dst \in NodeId :
        /\ items' = [items EXCEPT ![dst] = EraseItem(items[n], i)]
        /\ Makes({dst}, 1)
        /\ refs' = CountedLeaf(n, dst, {})
        /\ CallReplace(t, Changed(n, dst), c)
  BY DEF LeafErase
<1> HIDE DEF c
<1>5. NodesOK' /\ Changed(n, dst) \in Pointer
  BY <1>0, <1>3, <1>4, LeafWritten
<1>6. TreesOK' /\ \A u \in Transients \ {t} : size'[u] = size[u]
  BY <1>0, ShrinksType DEF LeavesLeaf
<1>7. ResultOK'
  BY <1>0, <1>2, <1>4, <1>5, SetIndexType, CallReplaceType DEF TypeOK
<1>8. ControlOK' /\ ChoresOK' /\ \A u \in Transients : PhaseOK(u)'
  BY <1>0, <1>1, <1>4, <1>6, LeafLeft DEF CallReplace, TypeOK, ResultOK
<1> QED
  BY <1>5, <1>6, <1>7, <1>8 DEF TypeOK

LEMMA LeafSplitType ==
    ASSUME TypeOK, NEW t \in Transients, NEW i \in 0 .. LeafSize,
           NEW v \in Values, LeafSplit(t, i, v)
    PROVE  TypeOK'
<1> DEFINE n   == at[t]
           sp  == LeafSplitPoint(i, rightMost[t])
           all == InsertItem(items[n], i, v)
           k   == IF i < sp THEN i ELSE i - sp
<1>0. /\ AtLeaf(t, Inserting) /\ LeavesLeaf(t) /\ Grows(t)
      /\ SetIndex(t, 1, k)
      /\ (i < sp) \in BOOLEAN
  BY DEF LeafSplit
<1>1. n \in NodeId /\ items[n] \in Seq(Values) /\ pc[t] = "descend"
  BY <1>0, LeafItems
<1>2. sp \in 1 .. LeafSize /\ k \in Nat
  <2>1. sp \in 1 .. LeafSize
    BY LeafSplitPointRange DEF TypeOK, ControlOK
  <2> HIDE DEF sp
  <2> QED  BY <2>1, NodeSizeAssumption
<1>3. LeftPart(all, sp) \in Seq(Values) /\ RightPart(all, sp) \in Seq(Values)
  <2>1. i \in 0 .. Len(items[n]) /\ Len(items[n]) = LeafSize
    BY DEF LeafSplit
  <2>2. all \in Seq(Values) /\ Len(all) = Len(items[n]) + 1
    BY <1>1, <2>1, InsertItemProperties
  <2> HIDE DEF all, sp
  <2>3. sp \in 0 .. Len(all)
    BY <1>2, <2>1, <2>2, NodeSizeAssumption
  <2> QED  BY <2>2, <2>3, SplitKeepsItems
<1>4. PICK r \in NodeId, dst \in NodeId :
        /\ items' = [items EXCEPT ![dst] = LeftPart(all, sp),
                                  ![r] = RightPart(all, sp)]
        /\ Makes({dst, r}, 1)
        /\ refs' = CountedLeaf(n, dst, {r})
        /\ CallSplit(t, Changed(n, dst), r, i < sp)
  BY DEF LeafSplit
<1> HIDE DEF all, sp, k
<1>5. NodesOK' /\ Changed(n, dst) \in Pointer
  <2>1. NodesOK /\ {dst, r} \in SUBSET NodeId /\ 1 \in Nat \ {0}
    BY DEF TypeOK
  <2>2. refs' \in [NodeId -> Nat]
    BY <1>4, <2>1, CountedType DEF CountedLeaf
  <2>3. /\ DOMAIN items' = NodeId
        /\ items' = [m \in NodeId |-> items'[m]]
        /\ \A m \in NodeId \ {dst, r} : items'[m] = items[m]
        /\ \A m \in {dst, r} :
             items'[m] \in IF 1 = 1 THEN Seq(Values) ELSE Seq(NodeId)
    BY <1>3, <1>4, <2>1 DEF NodesOK
  <2>4. NodesOK'
    BY ONLY <1>4, <2>1, <2>2, <2>3, WrittenNodes
  <2> QED  BY <2>4 DEF Changed, Pointer
<1>6. TreesOK' /\ \A u \in Transients \ {t} : size'[u] = size[u]
  BY <1>0, GrowsType DEF TypeOK, LeavesLeaf
<1>7. ResultOK'
  BY <1>0, <1>2, <1>4, <1>5, SetIndexType, CallSplitType DEF TypeOK
<1>8. ControlOK' /\ ChoresOK' /\ \A u \in Transients : PhaseOK(u)'
  <2>1. /\ pc' = [pc EXCEPT ![t] = "split"]
        /\ \A u \in Transients \ {t} : right'[u] = right[u]
        /\ right'[t] # Nil
    BY <1>4, NodePointer DEF CallSplit, TypeOK, ResultOK
  <2> QED  BY <1>0, <1>1, <1>6, <2>1, LeafLeft
<1> QED
  BY <1>5, <1>6, <1>7, <1>8 DEF TypeOK

LEMMA LeafEraseOnlyType ==
    ASSUME TypeOK, NEW t \in Transients, NEW i \in 0 .. LeafSize,
           LeafEraseOnly(t, i)
    PROVE  TypeOK'
<1>0. /\ AtLeaf(t, {"erase", "pop_back"}) /\ LeavesLeaf(t) /\ Shrinks(t)
      /\ SetIndex(t, 1, 0) /\ CallErase(t)
      /\ pc[t] = "descend"
  BY DEF LeafEraseOnly, AtLeaf
<1>1. NodesOK'
  BY SameNodes DEF TypeOK, LeafEraseOnly
<1>2. TreesOK' /\ \A u \in Transients \ {t} : size'[u] = size[u]
  BY <1>0, ShrinksType DEF LeavesLeaf
<1>3. ResultOK'
  BY <1>0, SetIndexType DEF TypeOK, ResultOK, CallErase
<1>4. ControlOK' /\ ChoresOK' /\ \A u \in Transients : PhaseOK(u)'
  BY <1>0, <1>2, LeafLeft DEF CallErase
<1> QED
  BY <1>1, <1>2, <1>3, <1>4 DEF TypeOK

LEMMA LeafKeepType ==
    ASSUME TypeOK, NEW t \in Transients, LeafKeep(t)
    PROVE  TypeOK'
<1> USE DEF LeafKeep
<1>1. NodesOK' /\ TreesOK' /\ ResultOK' /\ ChoresOK'
  BY SameNodes, SameTrees, SameResult, SameChores DEF TypeOK
<1>2. ControlOK'
  BY EmptySeq DEF TypeOK, ControlOK, PhaseSet, Pointer
<1>3. OthersWait(t)
  BY DEF TypeOK, ControlOK, OthersWait, trees, result
<1>4. PhaseOK(t)'
  BY DEF TypeOK, ControlOK, PhaseOK
<1> QED
  BY <1>1, <1>2, <1>3, <1>4, PhasesOfOthers DEF TypeOK

LEMMA LeafStepType ==
    ASSUME TypeOK, NEW t \in Transients, NEW i \in 0 .. LeafSize,
           NEW v \in Values, LeafStep(t, i, v)
    PROVE  TypeOK'
  BY LeafInsertType, LeafSplitType, LeafAssignType, LeafEraseType,
     LeafEraseOnlyType DEF LeafStep

-----------------------------------------------------------------------------
(* The inner nodes *)

\* A frame names an inner node and one of its children.
LEMMA FrameNode ==
    ASSUME TypeOK, NEW t \in Transients, NEW phase, AtNode(t, phase)
    PROVE  /\ Frame(t).node \in NodeId
           /\ Frame(t).index \in Nat
           /\ Frame(t).index \in 0 .. Len(items[Frame(t).node]) - 1
           /\ Frame(t).rightMost \in BOOLEAN
           /\ items[Frame(t).node] \in Seq(NodeId)
           /\ Len(items[Frame(t).node]) \in Nat
           /\ depth[Frame(t).node] \in Nat \ {0, 1}
           /\ pc[t] = phase
<1>1. stack[t] \in Seq(FrameSet) /\ stack[t] # <<>>
  BY DEF TypeOK, ControlOK, AtNode
<1>2. Frame(t) \in FrameSet
  <2>1. Len(stack[t]) \in 1 .. Len(stack[t])
    BY <1>1, EmptySeq
  <2> QED  BY <1>1, <2>1, ElementOfSeq DEF Frame
<1>3. /\ Frame(t).node \in NodeId
      /\ Frame(t).index \in Nat
      /\ Frame(t).rightMost \in BOOLEAN
  BY <1>2 DEF FrameSet
<1>4. depth[Frame(t).node] > 1 /\ Frame(t).index < Len(items[Frame(t).node])
      /\ pc[t] = phase
  BY DEF AtNode
<1>5. depth[Frame(t).node] \in Nat \ {0, 1}
  BY <1>3, <1>4 DEF TypeOK, NodesOK
<1>6. items[Frame(t).node] \in Seq(NodeId)
  BY <1>3, <1>5 DEF TypeOK, NodesOK
<1>7. Len(items[Frame(t).node]) \in Nat
  BY <1>6, LenProperties
<1> QED
  BY <1>3, <1>4, <1>5, <1>6, <1>7

\* The child a frame names is a node, and may be given another owner's pointer.
LEMMA FrameChild ==
    ASSUME TypeOK, NEW t \in Transients, NEW phase, AtNode(t, phase)
    PROVE  /\ items[Frame(t).node][Frame(t).index + 1] \in NodeId
           /\ Overwritten(Frame(t).node, Frame(t).index) \in Pointer
           /\ Replaced(t, Frame(t).node, Frame(t).index) \in Pointer
<1> DEFINE n == Frame(t).node
           i == Frame(t).index
<1>1. items[n] \in Seq(NodeId) /\ i \in 0 .. Len(items[n]) - 1
  BY FrameNode
<1> HIDE DEF n, i
<1>2. i + 1 \in 1 .. Len(items[n])
  BY <1>1, LenProperties
<1>3. items[n][i + 1] \in NodeId
  BY <1>1, <1>2, ElementOfSeq
<1> QED
  BY <1>3 DEF n, i, Overwritten, Replaced, Pointer

\* The new version "new" of inner node n is written to dst.
LEMMA InnerWritten ==
    ASSUME TypeOK, NEW n \in NodeId, depth[n] \in Nat \ {0, 1},
           NEW dst \in NodeId, NEW new \in Seq(NodeId),
           items' = [items EXCEPT ![dst] = new],
           Makes({dst}, depth[n]),
           refs' \in [NodeId -> Nat]
    PROVE  NodesOK' /\ Changed(n, dst) \in Pointer
<1>1. NodesOK /\ depth[n] \in Nat \ {0} /\ {dst} \in SUBSET NodeId
  BY DEF TypeOK
<1>2. /\ DOMAIN items' = NodeId
      /\ items' = [m \in NodeId |-> items'[m]]
      /\ \A m \in NodeId \ {dst} : items'[m] = items[m]
      /\ \A m \in {dst} :
           items'[m] \in IF depth[n] = 1 THEN Seq(Values) ELSE Seq(NodeId)
  BY <1>1 DEF NodesOK
<1>3. NodesOK'
  BY ONLY <1>1, <1>2, Makes({dst}, depth[n]), refs' \in [NodeId -> Nat],
     WrittenNodes
<1> QED
  BY <1>3 DEF Changed, Pointer

LEMMA CountedCopyType ==
    ASSUME TypeOK, NEW n, NEW dst, NEW i, NEW more
    PROVE  CountedCopy(n, dst, i, more) \in [NodeId -> Nat]
  BY CountedType DEF TypeOK, CountedCopy

\* The thread goes up to the next continuation.
LEMMA Climbs ==
    ASSUME TypeOK, NEW t \in Transients, NEW from \in {"replace", "split", "erase"},
           AtNode(t, from), Pops(t),
           NEW phase \in {"replace", "split", "erase"},
           pc' = [pc EXCEPT ![t] = phase],
           UNCHANGED <<trees, op, rightMost>>,
           at' \in [Transients -> Pointer],
           \A u \in Transients \ {t} : at'[u] = at[u],
           \A u \in Transients \ {t} : right'[u] = right[u],
           phase = "split" => right'[t] # Nil
    PROVE  TreesOK' /\ ControlOK' /\ \A u \in Transients : PhaseOK(u)'
<1>1. TreesOK'
  BY SameTrees DEF TypeOK
<1>2. ControlOK'
  <2>1. stack[t] \in Seq(FrameSet) /\ stack[t] # <<>>
    BY DEF TypeOK, ControlOK, AtNode
  <2>2. SubSeq(stack[t], 1, Len(stack[t]) - 1) \in Seq(FrameSet)
    BY <2>1, SubSeqProperties, ElementOfSeq, EmptySeq
  <2>3. stack' \in [Transients -> Seq(FrameSet)]
    BY <2>2 DEF TypeOK, ControlOK, Pops
  <2> QED  BY <2>3 DEF TypeOK, ControlOK, PhaseSet
<1>3. OthersWait(t)
  BY DEF TypeOK, ControlOK, OthersWait, trees
<1>4. PhaseOK(t)'
  BY DEF TypeOK, ControlOK, PhaseOK, AtNode, trees
<1> QED
  BY <1>1, <1>2, <1>3, <1>4, PhasesOfOthers

LEMMA InternalReplaceType ==
    ASSUME TypeOK, NEW t \in Transients, InternalReplace(t)
    PROVE  TypeOK'
<1> DEFINE n   == Frame(t).node
           i   == Frame(t).index
           c   == carry[t] /\ i = Len(items[n]) - 1
           new == IF ptr[t] = Nil THEN items[n] ELSE ReplaceItem(items[n], i, ptr[t])
           k   == IF ~carry[t] THEN i ELSE IF c THEN 0 ELSE i + 1
<1>0. /\ AtNode(t, "replace") /\ Pops(t)
      /\ SetIndex(t, depth[n], k)
      /\ Drops(t, Replaced(t, n, i))
      /\ UNCHANGED <<trees, op, at, rightMost, dying, marking>>
      /\ c \in BOOLEAN
  BY DEF InternalReplace
<1>1. /\ n \in NodeId /\ i \in 0 .. Len(items[n]) - 1
      /\ items[n] \in Seq(NodeId) /\ depth[n] \in Nat \ {0, 1}
      /\ k \in Nat
  BY <1>0, FrameNode
<1>2. new \in Seq(NodeId)
  <2>1. ptr[t] # Nil => ptr[t] \in NodeId
    BY DEF TypeOK, ResultOK, Pointer
  <2> QED  BY <1>1, <2>1, ReplaceItemProperties
<1>3. PICK dst \in NodeId :
        /\ items' = [items EXCEPT ![dst] = new]
        /\ Makes({dst}, depth[n])
        /\ refs' = IF ptr[t] = Nil /\ persistent[n]
                     THEN Counted({dst}, Children(n))
                     ELSE CountedCopy(n, dst, i, {})
        /\ CallReplace(t, Changed(n, dst), c)
  BY DEF InternalReplace
<1>4. refs' \in [NodeId -> Nat]
  BY <1>3, CountedType, CountedCopyType DEF TypeOK
<1> HIDE DEF c, new, k
<1>5. NodesOK' /\ Changed(n, dst) \in Pointer
  BY <1>1, <1>2, <1>3, <1>4, InnerWritten
<1>6. ResultOK'
  BY <1>0, <1>1, <1>3, <1>5, SetIndexType, CallReplaceType DEF TypeOK
<1>7. ChoresOK'
  BY <1>0, FrameChild, DropsType DEF TypeOK
<1>8. TreesOK' /\ ControlOK' /\ \A u \in Transients : PhaseOK(u)'
  BY <1>0, <1>3, Climbs DEF CallReplace, TypeOK, ControlOK, ResultOK
<1> QED
  BY <1>5, <1>6, <1>7, <1>8 DEF TypeOK

\* The two halves of a split child are nodes.
LEMMA HalvesAreNodes ==
    ASSUME TypeOK, NEW t \in Transients, AtNode(t, "split")
    PROVE  /\ SplitLeft(t, Frame(t).node, Frame(t).index) \in NodeId
           /\ right[t] \in NodeId
<1>1. right[t] \in NodeId
  BY DEF AtNode, TypeOK, ResultOK, PhaseOK, Pointer
<1>2. ptr[t] # Nil => ptr[t] \in NodeId
  BY DEF TypeOK, ResultOK, Pointer
<1> QED
  BY <1>1, <1>2, FrameChild DEF SplitLeft

LEMMA InternalInsertType ==
    ASSUME TypeOK, NEW t \in Transients, InternalInsert(t)
    PROVE  TypeOK'
<1> DEFINE n   == Frame(t).node
           i   == Frame(t).index
           new == SplitChild(items[n], i, SplitLeft(t, n, i), right[t])
           k   == InsertionIndex(i, newLeft[t])
<1>0. /\ AtNode(t, "split") /\ Pops(t)
      /\ SetIndex(t, depth[n], k)
      /\ Drops(t, Replaced(t, n, i))
      /\ UNCHANGED <<trees, op, at, rightMost, dying, marking>>
  BY DEF InternalInsert
<1>1. /\ n \in NodeId /\ i \in 0 .. Len(items[n]) - 1
      /\ items[n] \in Seq(NodeId) /\ depth[n] \in Nat \ {0, 1}
      /\ k \in Nat
  BY <1>0, FrameNode DEF InsertionIndex
<1>2. new \in Seq(NodeId)
  <2>1. SplitLeft(t, n, i) \in NodeId /\ right[t] \in NodeId
    BY <1>0, HalvesAreNodes
  <2> HIDE DEF n, i
  <2> QED  BY <1>1, <2>1, SplitChildProperties
<1>3. PICK dst \in NodeId :
        /\ items' = [items EXCEPT ![dst] = new]
        /\ Makes({dst}, depth[n])
        /\ refs' = CountedCopy(n, dst, i, {})
        /\ CallReplace(t, Changed(n, dst), FALSE)
  BY DEF InternalInsert
<1>4. refs' \in [NodeId -> Nat]
  BY <1>3, CountedCopyType
<1> HIDE DEF new, k
<1>5. NodesOK' /\ Changed(n, dst) \in Pointer
  BY <1>1, <1>2, <1>3, <1>4, InnerWritten
<1>6. ResultOK'
  BY <1>0, <1>1, <1>3, <1>5, SetIndexType, CallReplaceType DEF TypeOK
<1>7. ChoresOK'
  BY <1>0, FrameChild, DropsType DEF TypeOK
<1>8. TreesOK' /\ ControlOK' /\ \A u \in Transients : PhaseOK(u)'
  BY <1>0, <1>3, Climbs DEF CallReplace, TypeOK, ControlOK, ResultOK
<1> QED
  BY <1>5, <1>6, <1>7, <1>8 DEF TypeOK

LEMMA InternalSplitType ==
    ASSUME TypeOK, NEW t \in Transients, InternalSplit(t)
    PROVE  TypeOK'
<1> DEFINE n   == Frame(t).node
           i   == Frame(t).index
           sp  == InternalSplitPoint(i, Frame(t).rightMost)
           new == InsertionIndex(i, newLeft[t])
           all == SplitChild(items[n], i, SplitLeft(t, n, i), right[t])
           k   == IF new < sp THEN new ELSE new - sp
<1>0. /\ AtNode(t, "split") /\ Pops(t)
      /\ Len(items[n]) = InternalSize
      /\ SetIndex(t, depth[n], k)
      /\ Drops(t, Replaced(t, n, i))
      /\ UNCHANGED <<trees, op, at, rightMost, dying, marking>>
      /\ (new < sp) \in BOOLEAN
  BY DEF InternalSplit
<1>1. /\ n \in NodeId /\ i \in 0 .. Len(items[n]) - 1
      /\ items[n] \in Seq(NodeId) /\ depth[n] \in Nat \ {0, 1}
      /\ Frame(t).rightMost \in BOOLEAN
      /\ new \in Nat
  BY <1>0, FrameNode DEF InsertionIndex
<1>2. sp \in 1 .. InternalSize /\ k \in Nat
  <2>1. sp \in 1 .. InternalSize
    BY <1>0, <1>1, InternalSplitPointRange
  <2> HIDE DEF sp, new
  <2> QED  BY <1>1, <2>1, NodeSizeAssumption
<1>3. LeftPart(all, sp) \in Seq(NodeId) /\ RightPart(all, sp) \in Seq(NodeId)
  <2>1. SplitLeft(t, n, i) \in NodeId /\ right[t] \in NodeId
    BY <1>0, HalvesAreNodes
  <2>2. all \in Seq(NodeId) /\ Len(all) = Len(items[n]) + 1
    <3>1. items[n] \in Seq(NodeId) /\ i \in 0 .. Len(items[n]) - 1
      BY <1>1
    <3> HIDE DEF n, i
    <3> QED  BY ONLY <2>1, <3>1, SplitChildProperties
  <2> HIDE DEF all, sp
  <2>3. sp \in 0 .. Len(all)
    BY <1>0, <1>2, <2>2, NodeSizeAssumption
  <2> QED  BY <2>2, <2>3, SplitKeepsItems
<1>4. PICK r \in NodeId, dst \in NodeId :
        /\ items' = [items EXCEPT ![dst] = LeftPart(all, sp),
                                  ![r] = RightPart(all, sp)]
        /\ Makes({dst, r}, depth[n])
        /\ refs' = CountedCopy(n, dst, i, {r})
        /\ CallSplit(t, Changed(n, dst), r, new < sp)
  BY DEF InternalSplit
<1> HIDE DEF all, sp, new, k
<1>5. NodesOK' /\ Changed(n, dst) \in Pointer
  <2>1. NodesOK /\ {dst, r} \in SUBSET NodeId /\ depth[n] \in Nat \ {0}
    BY <1>1 DEF TypeOK
  <2>2. refs' \in [NodeId -> Nat]
    BY <1>4, CountedCopyType
  <2>3. /\ DOMAIN items' = NodeId
        /\ items' = [m \in NodeId |-> items'[m]]
        /\ \A m \in NodeId \ {dst, r} : items'[m] = items[m]
        /\ \A m \in {dst, r} :
             items'[m] \in IF depth[n] = 1 THEN Seq(Values) ELSE Seq(NodeId)
    BY <1>1, <1>3, <1>4, <2>1 DEF NodesOK
  <2>4. Makes({dst, r}, depth[n])
    BY <1>4
  <2> DEFINE ns == {dst, r}
             d  == depth[n]
  <2>5. NodesOK'
    <3> HIDE DEF ns, d, n
    <3> QED  BY ONLY <2>1, <2>2, <2>3, <2>4, WrittenNodes DEF ns, d
  <2> QED  BY <2>5 DEF Changed, Pointer
<1>6. ResultOK'
  BY <1>0, <1>2, <1>4, <1>5, SetIndexType, CallSplitType DEF TypeOK
<1>7. ChoresOK'
  BY <1>0, FrameChild, DropsType DEF TypeOK
<1>8. TreesOK' /\ ControlOK' /\ \A u \in Transients : PhaseOK(u)'
  <2>1. /\ pc' = [pc EXCEPT ![t] = "split"]
        /\ \A u \in Transients \ {t} : right'[u] = right[u]
        /\ right'[t] # Nil
        /\ at' \in [Transients -> Pointer]
    BY <1>0, <1>4, NodePointer DEF CallSplit, TypeOK, ControlOK, ResultOK
  <2> QED  BY <1>0, <2>1, Climbs
<1> QED
  BY <1>5, <1>6, <1>7, <1>8 DEF TypeOK

LEMMA InternalEraseType ==
    ASSUME TypeOK, NEW t \in Transients, InternalErase(t)
    PROVE  TypeOK'
<1> DEFINE n    == Frame(t).node
           i    == Frame(t).index
           past == i = Len(items[n]) - 1
           seek == past /\ Frame(t).rightMost
           new  == EraseItem(items[n], i)
           k    == IF past THEN 0 ELSE i
<1>0. /\ AtNode(t, "erase") /\ Pops(t)
      /\ Len(items[n]) > 1
      /\ IF seek THEN UNCHANGED iter ELSE SetIndex(t, depth[n], k)
      /\ Drops(t, Overwritten(n, i))
      /\ UNCHANGED <<trees, op, rightMost, dying, marking>>
      /\ (past /\ ~seek) \in BOOLEAN
  BY DEF InternalErase
<1>1. /\ n \in NodeId /\ i \in 0 .. Len(items[n]) - 1
      /\ items[n] \in Seq(NodeId) /\ depth[n] \in Nat \ {0, 1}
      /\ Len(items[n]) \in Nat
      /\ k \in Nat
  BY <1>0, FrameNode
<1>2. new \in Seq(NodeId)
  <2>1. i \in 0 .. Len(items[n]) /\ Len(items[n]) > 0
    BY <1>0, <1>1
  <2> QED  BY <1>1, <2>1, EraseItemProperties
<1>3. PICK dst \in NodeId :
        /\ items' = [items EXCEPT ![dst] = new]
        /\ Makes({dst}, depth[n])
        /\ refs' = CountedCopy(n, dst, i, {})
        /\ CallReplace(t, Changed(n, dst), past /\ ~seek)
        /\ at' = [at EXCEPT ![t] = IF seek THEN dst ELSE Nil]
  BY DEF InternalErase
<1>4. refs' \in [NodeId -> Nat]
  BY <1>3, CountedCopyType
<1>5. iter' \in [Transients -> [Level -> Nat]]
  BY <1>0, <1>1, SetIndexType DEF TypeOK, ResultOK
<1>6. /\ at' \in [Transients -> Pointer]
      /\ \A u \in Transients \ {t} : at'[u] = at[u]
  BY <1>3 DEF TypeOK, ControlOK, Pointer
<1> HIDE DEF past, seek, new, k
<1>7. NodesOK' /\ Changed(n, dst) \in Pointer
  BY <1>1, <1>2, <1>3, <1>4, InnerWritten
<1>8. ResultOK'
  BY <1>0, <1>3, <1>5, <1>7, CallReplaceType DEF TypeOK
<1>9. ChoresOK'
  BY <1>0, FrameChild, DropsType DEF TypeOK
<1>10. TreesOK' /\ ControlOK' /\ \A u \in Transients : PhaseOK(u)'
  BY <1>0, <1>3, <1>6, Climbs DEF CallReplace, TypeOK, ResultOK
<1> QED
  BY <1>7, <1>8, <1>9, <1>10 DEF TypeOK

LEMMA InternalEraseOnlyType ==
    ASSUME TypeOK, NEW t \in Transients, InternalEraseOnly(t)
    PROVE  TypeOK'
<1>0. /\ AtNode(t, "erase") /\ Pops(t) /\ CallErase(t)
      /\ SetIndex(t, depth[Frame(t).node], 0)
      /\ UNCHANGED <<nodes, trees, op, at, rightMost, chores>>
  BY DEF InternalEraseOnly
<1>1. NodesOK' /\ ChoresOK'
  BY <1>0, SameNodes, SameChores DEF TypeOK
<1>2. ResultOK'
  BY <1>0, SetIndexType DEF TypeOK, ResultOK, CallErase
<1>3. TreesOK' /\ ControlOK' /\ \A u \in Transients : PhaseOK(u)'
  BY <1>0, Climbs DEF CallErase, TypeOK, ControlOK
<1> QED
  BY <1>1, <1>2, <1>3 DEF TypeOK

LEMMA SeekEndType ==
    ASSUME TypeOK, NEW t \in Transients, SeekEnd(t)
    PROVE  TypeOK'
<1> DEFINE n == at[t]
<1>1. NodesOK' /\ TreesOK' /\ ChoresOK'
  BY SameNodes, SameTrees, SameChores DEF TypeOK, SeekEnd
<1>2. n \in NodeId /\ items[n] # <<>>
  BY DEF SeekEnd, Seeking, TypeOK, ControlOK, Pointer
<1>3. ResultOK' /\ at' \in [Transients -> Pointer]
      /\ \A u \in Transients \ {t} : at'[u] = at[u]
  <2>1. CASE depth[n] = 1
    <3>1. items[n] \in Seq(Values) /\ Len(items[n]) \in Nat
      BY <1>2, <2>1, LenProperties DEF TypeOK, NodesOK
    <3>2. SetIndex(t, 1, Len(items[n])) /\ at' = [at EXCEPT ![t] = Nil]
          /\ UNCHANGED <<ptr, right, newLeft, carry>>
      BY <2>1 DEF SeekEnd
    <3>3. iter' \in [Transients -> [Level -> Nat]]
      BY <3>1, <3>2, SetIndexType DEF TypeOK
    <3> QED  BY <3>2, <3>3 DEF TypeOK, ControlOK, ResultOK, Pointer
  <2>2. CASE depth[n] # 1
    <3>1. items[n] \in Seq(NodeId)
      BY <1>2, <2>2 DEF TypeOK, NodesOK
    <3>2. Len(items[n]) \in 1 .. Len(items[n]) /\ Len(items[n]) - 1 \in Nat
      BY <1>2, <3>1, EmptySeq
    <3>3. items[n][Len(items[n])] \in NodeId
      BY <3>1, <3>2, ElementOfSeq
    <3>4. SetIndex(t, depth[n], Len(items[n]) - 1)
          /\ at' = [at EXCEPT ![t] = items[n][Len(items[n])]]
          /\ UNCHANGED <<ptr, right, newLeft, carry>>
      BY <2>2 DEF SeekEnd
    <3>5. iter' \in [Transients -> [Level -> Nat]]
      BY <3>2, <3>4, SetIndexType DEF TypeOK
    <3> QED  BY <3>3, <3>4, <3>5 DEF TypeOK, ControlOK, ResultOK, Pointer
  <2> QED  BY <2>1, <2>2
<1>4. ControlOK'
  BY <1>3 DEF SeekEnd, TypeOK, ControlOK
<1>5. OthersWait(t)
  BY <1>3 DEF SeekEnd, OthersWait, trees
<1>6. PhaseOK(t)'
  BY DEF SeekEnd, Seeking, TypeOK, PhaseOK, trees
<1> QED
  BY <1>1, <1>3, <1>4, <1>5, <1>6, PhasesOfOthers DEF TypeOK

-----------------------------------------------------------------------------
(* The tree object *)

\* A new node r, with one owner, holds "new".
LEMMA NewNode ==
    ASSUME TypeOK, NEW r \in NodeId, NEW d \in Nat \ {0}, NEW new,
           new \in IF d = 1 THEN Seq(Values) ELSE Seq(NodeId),
           items' = [items EXCEPT ![r] = new],
           Makes({r}, d),
           refs' = Counted({r}, {})
    PROVE  NodesOK'
<1>1. NodesOK /\ {r} \in SUBSET NodeId
  BY DEF TypeOK
<1>2. refs' \in [NodeId -> Nat]
  BY <1>1, CountedType
<1>3. /\ DOMAIN items' = NodeId
      /\ items' = [m \in NodeId |-> items'[m]]
      /\ \A m \in NodeId \ {r} : items'[m] = items[m]
      /\ \A m \in {r} :
           items'[m] \in IF d = 1 THEN Seq(Values) ELSE Seq(NodeId)
  BY <1>1 DEF NodesOK
<1> QED
  BY ONLY <1>1, <1>2, <1>3, d \in Nat \ {0}, Makes({r}, d), WrittenNodes

\* The object of thread t has a new root.
LEMMA RootType ==
    ASSUME TypeOK, NEW t \in Transients, NEW r \in Pointer,
           root' = [root EXCEPT ![t] = r],
           size' \in [Handle -> Nat]
    PROVE  /\ TreesOK'
           /\ root'[t] = r
           /\ \A u \in Transients \ {t} : root'[u] = root[u]
  BY DEF TypeOK, TreesOK, Handle

LEMMA RootPointer ==
    ASSUME TypeOK, NEW h \in Handle
    PROVE  root[h] \in Pointer /\ (root[h] # Nil => root[h] \in NodeId)
  BY DEF TypeOK, TreesOK, Pointer

LEMMA RootReplaceType ==
    ASSUME TypeOK, NEW t \in Transients, RootReplace(t)
    PROVE  TypeOK'
<1> DEFINE new   == IF ptr[t] = Nil THEN root[t] ELSE ptr[t]
           phase == IF Collapsible(new, items[new]) THEN "collapse" ELSE "done"
<1>0. /\ root' = [root EXCEPT ![t] = new]
      /\ Drops(t, IF ptr[t] = Nil THEN Nil ELSE root[t])
      /\ Complete(t, phase)
      /\ UNCHANGED <<nodes, size, op, at, rightMost, stack, iter, dying, marking>>
      /\ pc[t] = "replace"
      /\ t \in Handle
  BY DEF RootReplace, AtRoot, Handle
<1>1. /\ root[t] \in NodeId
      /\ new \in NodeId /\ new # Nil
      /\ (IF ptr[t] = Nil THEN Nil ELSE root[t]) \in Pointer
  BY <1>0, RootPointer, NodePointer DEF TypeOK, PhaseOK, ResultOK, Pointer
<1>2. phase \in {"collapse", "done"}
  OBVIOUS
<1> HIDE DEF new, phase
<1>3. NodesOK' /\ ChoresOK'
  BY <1>0, <1>1, SameNodes, DropsType DEF TypeOK
<1>4. TreesOK' /\ root'[t] = new /\ \A u \in Transients \ {t} : root'[u] = root[u]
  BY <1>0, <1>1, RootType DEF TypeOK, TreesOK, Pointer
<1>5. ResultOK'
  BY <1>0, CompleteType DEF TypeOK, ResultOK
<1>6. ControlOK'
  BY <1>0, <1>2 DEF TypeOK, ControlOK, Complete, PhaseSet
<1>7. OthersWait(t)
  BY <1>0, <1>4 DEF TypeOK, ControlOK, ResultOK, OthersWait, Complete
<1>8. PhaseOK(t)'
  BY <1>0, <1>1, <1>2, <1>4 DEF TypeOK, ControlOK, PhaseOK, Complete
<1> QED
  BY <1>3, <1>4, <1>5, <1>6, <1>7, <1>8, PhasesOfOthers DEF TypeOK

\* The object of thread t is being changed, so it has a root.
LEMMA RootIsNode ==
    ASSUME TypeOK, NEW t \in Transients,
           pc[t] \in {"replace", "split", "erase", "collapse", "discard"}
    PROVE  root[t] \in NodeId /\ root[t] \in Pointer
  BY RootPointer DEF TypeOK, PhaseOK, Handle

\* The object of thread t goes from one phase to the next, and it has a root.
LEMMA RootPhase ==
    ASSUME TypeOK, NEW t \in Transients,
           NEW phase \in {"collapse", "discard", "done"},
           pc' = [pc EXCEPT ![t] = phase],
           UNCHANGED <<size, op, at, rightMost, stack>>,
           root'[t] # Nil,
           \A u \in Transients \ {t} : root'[u] = root[u] /\ right'[u] = right[u]
    PROVE  ControlOK' /\ \A u \in Transients : PhaseOK(u)'
<1>1. ControlOK'
  BY DEF TypeOK, ControlOK, PhaseSet
<1>2. OthersWait(t)
  BY DEF TypeOK, ControlOK, OthersWait
<1>3. PhaseOK(t)'
  BY DEF TypeOK, ControlOK, PhaseOK
<1> QED
  BY <1>1, <1>2, <1>3, PhasesOfOthers

LEMMA CollapseType ==
    ASSUME TypeOK, NEW t \in Transients, Collapse(t)
    PROVE  TypeOK'
<1> DEFINE old   == root[t]
           new   == OnlyChild(old)
           phase == IF Collapsible(new, items[new]) THEN "collapse" ELSE "done"
<1>0. /\ depth[old] > 1 /\ Len(items[old]) = 1
      /\ root' = [root EXCEPT ![t] = new]
      /\ refs' = Counted({}, {new})
      /\ Drops(t, old)
      /\ pc' = [pc EXCEPT ![t] = phase]
      /\ UNCHANGED <<items, depth, persistent, size, op, at, rightMost, stack,
                     result, dying, marking>>
      /\ pc[t] = "collapse"
  BY DEF Collapse, Collapsible
<1>1. old \in NodeId /\ old \in Pointer
  BY <1>0, RootIsNode
<1>2. new \in NodeId
  <2>1. items[old] \in Seq(NodeId)
    BY <1>0, <1>1 DEF TypeOK, NodesOK
  <2>2. 1 \in 1 .. Len(items[old])
    BY <1>0
  <2> QED  BY <2>1, <2>2, ElementOfSeq DEF OnlyChild
<1>3. phase \in {"collapse", "discard", "done"}
  OBVIOUS
<1> HIDE DEF old, new, phase
<1>4. NodesOK'
  BY <1>0, CountedType DEF TypeOK, NodesOK
<1>5. ResultOK' /\ ChoresOK'
  BY <1>0, <1>1, SameResult, DropsType DEF TypeOK
<1>6. new \in Pointer /\ size' \in [Handle -> Nat]
  BY <1>0, <1>2 DEF TypeOK, TreesOK, Pointer
<1>7. TreesOK' /\ root'[t] = new /\ \A u \in Transients \ {t} : root'[u] = root[u]
  BY <1>0, <1>6, RootType
<1>8. ControlOK' /\ \A u \in Transients : PhaseOK(u)'
  BY <1>0, <1>2, <1>3, <1>7, NodePointer, RootPhase DEF result
<1> QED
  BY <1>4, <1>5, <1>7, <1>8 DEF TypeOK

\* What the tree object is left with when it has taken over the result.
LEMMA Completed ==
    ASSUME TypeOK, NEW t \in Transients, NEW r \in NodeId,
           root' = [root EXCEPT ![t] = r], Complete(t, "done"),
           UNCHANGED <<size, op, at, rightMost, stack>>
    PROVE  TreesOK' /\ ControlOK' /\ \A u \in Transients : PhaseOK(u)'
<1>1. r \in Pointer /\ size' \in [Handle -> Nat]
  BY DEF TypeOK, TreesOK, Pointer
<1>2. TreesOK' /\ root'[t] = r /\ \A u \in Transients \ {t} : root'[u] = root[u]
  BY <1>1, RootType
<1>3. /\ pc' = [pc EXCEPT ![t] = "done"]
      /\ \A u \in Transients \ {t} : right'[u] = right[u]
  BY DEF Complete, TypeOK, ResultOK
<1> QED
  BY <1>2, <1>3, NodePointer, RootPhase

LEMMA RootSplitType ==
    ASSUME TypeOK, NEW t \in Transients, RootSplit(t)
    PROVE  TypeOK'
<1> DEFINE left == IF ptr[t] = Nil THEN root[t] ELSE ptr[t]
           d    == depth[root[t]] + 1
           k    == IF newLeft[t] THEN 0 ELSE 1
<1>0. /\ pc[t] = "split"
      /\ Drops(t, IF ptr[t] = Nil THEN Nil ELSE root[t])
      /\ Complete(t, "done")
      /\ UNCHANGED <<size, op, at, rightMost, stack, dying, marking>>
      /\ k \in Nat
  BY DEF RootSplit, AtRoot
<1>1. /\ root[t] \in NodeId
      /\ left \in NodeId
      /\ right[t] \in NodeId
      /\ (IF ptr[t] = Nil THEN Nil ELSE root[t]) \in Pointer
  BY <1>0, RootIsNode DEF TypeOK, PhaseOK, ResultOK, Pointer
<1>2. <<left, right[t]>> \in Seq(NodeId) /\ d \in Nat \ {0} /\ d # 1
  BY <1>1 DEF TypeOK, NodesOK
<1>3. PICK r \in NodeId :
        /\ items' = [items EXCEPT ![r] = <<left, right[t]>>]
        /\ Makes({r}, d)
        /\ refs' = Counted({r}, {})
        /\ root' = [root EXCEPT ![t] = r]
        /\ SetIndex(t, d, k)
  BY DEF RootSplit
<1> HIDE DEF left, d, k
<1>4. NodesOK'
  BY <1>2, <1>3, NewNode
<1>5. ResultOK' /\ ChoresOK'
  BY <1>0, <1>1, <1>3, SetIndexType, CompleteType, DropsType DEF TypeOK
<1>6. TreesOK' /\ ControlOK' /\ \A u \in Transients : PhaseOK(u)'
  BY <1>0, <1>3, Completed
<1> QED
  BY <1>4, <1>5, <1>6 DEF TypeOK

LEMMA RootSplitTooDeepType ==
    ASSUME TypeOK, NEW t \in Transients, RootSplitTooDeep(t)
    PROVE  TypeOK'
<1>0. /\ pc[t] = "split"
      /\ Drops(t, right[t])
      /\ right' = [right EXCEPT ![t] = Nil]
      /\ pc' = [pc EXCEPT ![t] = "discard"]
      /\ UNCHANGED <<nodes, trees, op, at, rightMost, stack, ptr, newLeft,
                     carry, iter, dying, marking>>
  BY DEF RootSplitTooDeep, AtRoot
<1>1. NodesOK' /\ TreesOK'
  BY <1>0, SameNodes, SameTrees DEF TypeOK
<1>2. ResultOK'
  BY <1>0 DEF TypeOK, ResultOK, Pointer
<1>3. ChoresOK'
  BY <1>0, DropsType DEF TypeOK, ResultOK
<1>4. /\ root'[t] # Nil
      /\ \A u \in Transients \ {t} : root'[u] = root[u] /\ right'[u] = right[u]
  BY <1>0, RootIsNode, NodePointer DEF TypeOK, ResultOK, trees
<1>5. ControlOK' /\ \A u \in Transients : PhaseOK(u)'
  BY <1>0, <1>4, RootPhase DEF trees
<1> QED
  BY <1>1, <1>2, <1>3, <1>5 DEF TypeOK

LEMMA DiscardLeftType ==
    ASSUME TypeOK, NEW t \in Transients, DiscardLeft(t)
    PROVE  TypeOK'
<1>0. /\ pc[t] = "discard"
      /\ Drops(t, ptr[t])
      /\ Complete(t, "done")
      /\ UNCHANGED <<nodes, trees, op, at, rightMost, stack, iter, dying, marking>>
  BY DEF DiscardLeft, AtRoot, LeftHalf
<1>1. NodesOK' /\ TreesOK'
  BY <1>0, SameNodes, SameTrees DEF TypeOK
<1>2. ResultOK' /\ ChoresOK'
  BY <1>0, CompleteType, DropsType DEF TypeOK, ResultOK
<1>3. /\ root'[t] # Nil
      /\ pc' = [pc EXCEPT ![t] = "done"]
      /\ \A u \in Transients \ {t} : root'[u] = root[u] /\ right'[u] = right[u]
  BY <1>0, RootIsNode, NodePointer DEF TypeOK, ResultOK, trees, Complete
<1>4. ControlOK' /\ \A u \in Transients : PhaseOK(u)'
  BY <1>0, <1>3, RootPhase DEF trees
<1> QED
  BY <1>1, <1>2, <1>4 DEF TypeOK

LEMMA RootEraseType ==
    ASSUME TypeOK, NEW t \in Transients, RootErase(t)
    PROVE  TypeOK'
<1>0. /\ pc[t] = "erase"
      /\ Drops(t, root[t])
      /\ Complete(t, "done")
      /\ UNCHANGED <<size, op, at, rightMost, stack, iter, dying, marking>>
  BY DEF RootErase, AtRoot
<1>1. PICK r \in NodeId :
        /\ items' = [items EXCEPT ![r] = <<>>]
        /\ Makes({r}, 1)
        /\ refs' = Counted({r}, {})
        /\ root' = [root EXCEPT ![t] = r]
  BY DEF RootErase
<1>2. NodesOK'
  <2>1. 1 \in Nat \ {0} /\ <<>> \in IF 1 = 1 THEN Seq(Values) ELSE Seq(NodeId)
    BY EmptySeq
  <2> QED  BY <1>1, <2>1, NewNode
<1>3. ResultOK' /\ ChoresOK'
  BY <1>0, RootIsNode, CompleteType, DropsType DEF TypeOK, ResultOK
<1>4. TreesOK' /\ ControlOK' /\ \A u \in Transients : PhaseOK(u)'
  BY <1>0, <1>1, Completed
<1> QED
  BY <1>2, <1>3, <1>4 DEF TypeOK

LEMMA ReturnType ==
    ASSUME TypeOK, NEW t \in Transients, Return(t)
    PROVE  TypeOK'
<1> USE DEF Return
<1>1. NodesOK' /\ TreesOK' /\ ChoresOK'
  BY SameNodes, SameTrees, SameChores DEF TypeOK
<1>2. ControlOK' /\ ResultOK'
  BY DEF TypeOK, ControlOK, ResultOK, PhaseSet, ZeroIter
<1>3. OthersWait(t)
  BY DEF TypeOK, ControlOK, OthersWait, trees
<1>4. PhaseOK(t)'
  BY DEF TypeOK, ControlOK, PhaseOK
<1> QED
  BY <1>1, <1>2, <1>3, <1>4, PhasesOfOthers DEF TypeOK

-----------------------------------------------------------------------------
(* The calls on objects *)

\* A thread that rests, and goes on resting or starts to mark, is in no phase
\* that needs anything, whatever happens to the objects it uses.
LEMMA RestingPhase ==
    ASSUME TypeOK, NEW t \in Transients, pc[t] \in {"idle", "persist"},
           pc'[t] \in {"idle", "persist"},
           \A u \in Transients \ {t} : pc'[u] = pc[u],
           UNCHANGED <<op, at, rightMost, stack, right>>,
           \A u \in Transients \ {t} : root'[u] = root[u] /\ size'[u] = size[u]
    PROVE  \A u \in Transients : PhaseOK(u)'
<1>1. OthersWait(t)
  BY DEF OthersWait
<1>2. PhaseOK(t)'
  BY DEF PhaseOK
<1> QED
  BY <1>1, <1>2, PhasesOfOthers

LEMMA EmptiesType ==
    ASSUME TypeOK, NEW t \in Transients, Resting(t), Empties(t)
    PROVE  TypeOK'
<1>0. /\ Drops(t, root[t])
      /\ size' = [size EXCEPT ![t] = 0]
      /\ UNCHANGED <<control, result, dying, marking>>
      /\ pc[t] = "idle"
      /\ t \in Handle
  BY DEF Empties, Resting, Handle
<1>1. PICK r \in NodeId :
        /\ items' = [items EXCEPT ![r] = <<>>]
        /\ Makes({r}, 1)
        /\ refs' = Counted({r}, {})
        /\ root' = [root EXCEPT ![t] = r]
  BY DEF Empties
<1>2. NodesOK'
  <2>1. 1 \in Nat \ {0} /\ <<>> \in IF 1 = 1 THEN Seq(Values) ELSE Seq(NodeId)
    BY EmptySeq
  <2> QED  BY <1>1, <2>1, NewNode
<1>3. /\ TreesOK'
      /\ \A u \in Transients \ {t} : root'[u] = root[u] /\ size'[u] = size[u]
  BY <1>0, <1>1 DEF TypeOK, TreesOK, Pointer, Handle
<1>4. ControlOK' /\ ResultOK'
  BY <1>0, SameControl, SameResult DEF TypeOK
<1>5. ChoresOK'
  BY <1>0, RootPointer, DropsType DEF TypeOK
<1>6. \A u \in Transients : PhaseOK(u)'
  BY <1>0, <1>3, RestingPhase DEF control, result
<1> QED
  BY <1>2, <1>3, <1>4, <1>5, <1>6 DEF TypeOK

LEMMA StartsMarkingType ==
    ASSUME TypeOK, NEW t \in Transients, StartsMarking(t),
           refs' \in [NodeId -> Nat],
           root' = root \/ root' = [root EXCEPT ![t] = Nil]
    PROVE  TypeOK'
<1>0. /\ pc[t] = "idle" /\ root[t] # Nil
      /\ ptr' = [ptr EXCEPT ![t] = root[t]]
      /\ marking' = [marking EXCEPT ![t] = <<root[t]>>]
      /\ pc' = [pc EXCEPT ![t] = "persist"]
      /\ UNCHANGED <<items, depth, persistent, size, op, at, rightMost, stack,
                     right, newLeft, carry, iter, drop, dying>>
  BY DEF StartsMarking, Resting
<1>1. root[t] \in NodeId /\ root[t] \in Pointer
  BY <1>0, RootPointer DEF Handle
<1>2. NodesOK'
  BY <1>0 DEF TypeOK, NodesOK
<1>3. TreesOK' /\ \A u \in Transients \ {t} : root'[u] = root[u]
  BY <1>0 DEF TypeOK, TreesOK, Handle, Pointer
<1>4. ControlOK'
  BY <1>0 DEF TypeOK, ControlOK, PhaseSet
<1>5. ResultOK'
  BY <1>0, <1>1 DEF TypeOK, ResultOK
<1>6. ChoresOK'
  <2>1. <<root[t]>> \in Seq(NodeId)
    BY <1>1
  <2> QED  BY <1>0, <2>1 DEF TypeOK, ChoresOK
<1>7. \A u \in Transients : PhaseOK(u)'
  BY <1>0, <1>3, RestingPhase DEF TypeOK, ControlOK
<1> QED
  BY <1>2, <1>3, <1>4, <1>5, <1>6, <1>7 DEF TypeOK

LEMMA PersistType ==
    ASSUME TypeOK, NEW t \in Transients, Persist(t) \/ PersistMove(t)
    PROVE  TypeOK'
<1>1. CASE Persist(t)
  BY <1>1, CountedType, StartsMarkingType DEF Persist, TypeOK
<1>2. CASE PersistMove(t)
  BY <1>2, StartsMarkingType DEF PersistMove, TypeOK, NodesOK
<1> QED
  BY <1>1, <1>2

LEMMA MarkType ==
    ASSUME TypeOK, NEW t \in Transients, Mark(t)
    PROVE  TypeOK'
<1> DEFINE n == Head(marking[t])
<1>0. /\ marking[t] # <<>>
      /\ persistent' = [persistent EXCEPT ![n] = TRUE]
      /\ marking' = [marking EXCEPT ![t] = ToMark(n) \o Tail(@)]
      /\ UNCHANGED <<items, depth, refs, trees, control, result, drop, dying>>
  BY DEF Mark
<1>1. /\ marking[t] \in Seq(NodeId)
      /\ n \in NodeId
      /\ Tail(marking[t]) \in Seq(NodeId)
  <2>1. marking[t] \in Seq(NodeId)
    BY DEF TypeOK, ChoresOK
  <2> QED  BY <1>0, <2>1, HeadTailProperties
<1> HIDE DEF n
<1>2. ToMark(n) \in Seq(NodeId)
  BY <1>1, EmptySeq DEF ToMark, TypeOK, NodesOK
<1>3. ToMark(n) \o Tail(marking[t]) \in Seq(NodeId)
  BY <1>1, <1>2, ConcatProperties
<1>4. NodesOK'
  BY <1>0, <1>1 DEF TypeOK, NodesOK
<1>5. TreesOK' /\ ControlOK' /\ ResultOK'
  BY <1>0, SameTrees, SameControl, SameResult DEF TypeOK
<1>6. ChoresOK'
  BY <1>0, <1>3 DEF TypeOK, ChoresOK
<1>7. \A u \in Transients : PhaseOK(u)'
  BY <1>0 DEF TypeOK, PhaseOK, trees, control, result
<1> QED
  BY <1>4, <1>5, <1>6, <1>7 DEF TypeOK

LEMMA PublishType ==
    ASSUME TypeOK, NEW t \in Transients, NEW p \in Persistents, Publish(t, p)
    PROVE  TypeOK'
<1>0. /\ pc[t] = "persist"
      /\ root' = [root EXCEPT ![p] = ptr[t]]
      /\ size' = [size EXCEPT ![p] = size[t]]
      /\ ptr' = [ptr EXCEPT ![t] = Nil]
      /\ pc' = [pc EXCEPT ![t] = "idle"]
      /\ Drops(t, root[p])
      /\ UNCHANGED <<nodes, op, at, rightMost, stack, right, newLeft, carry, iter,
                     dying, marking>>
      /\ p \in Handle /\ t \in Handle /\ p \notin Transients
  BY TreeAssumption DEF Publish, Handle
<1>1. NodesOK'
  BY <1>0, SameNodes DEF TypeOK
<1>2. /\ TreesOK'
      /\ \A u \in Transients : root'[u] = root[u] /\ size'[u] = size[u]
  BY <1>0 DEF TypeOK, TreesOK, ResultOK, Handle
<1>3. ControlOK' /\ ResultOK'
  BY <1>0 DEF TypeOK, ControlOK, ResultOK, PhaseSet, Pointer
<1>4. ChoresOK'
  BY <1>0, RootPointer, DropsType DEF TypeOK
<1>5. \A u \in Transients : PhaseOK(u)'
  BY <1>0, <1>2, RestingPhase DEF TypeOK, ControlOK
<1> QED
  BY <1>1, <1>2, <1>3, <1>4, <1>5 DEF TypeOK

\* Object h gets another root and size.  It is no other thread's Transient.
LEMMA ObjectChanged ==
    ASSUME TypeOK, NEW t \in Transients, Resting(t), NEW h \in {t} \cup Persistents,
           NEW r \in Pointer, NEW n \in Nat,
           root' = [root EXCEPT ![h] = r], size' = [size EXCEPT ![h] = n],
           UNCHANGED <<items, depth, persistent, control, result, dying, marking>>,
           refs' \in [NodeId -> Nat],
           Drops(t, root[h])
    PROVE  TypeOK'
<1>0. h \in Handle /\ pc[t] = "idle" /\ \A u \in Transients \ {t} : u # h
  BY TreeAssumption DEF Handle, Resting
<1>1. NodesOK'
  BY DEF TypeOK, NodesOK
<1>2. /\ TreesOK'
      /\ \A u \in Transients \ {t} : root'[u] = root[u] /\ size'[u] = size[u]
  BY <1>0 DEF TypeOK, TreesOK, Handle
<1>3. ControlOK' /\ ResultOK'
  BY SameControl, SameResult DEF TypeOK
<1>4. ChoresOK'
  BY <1>0, RootPointer, DropsType DEF TypeOK
<1>5. \A u \in Transients : PhaseOK(u)'
  BY <1>0, <1>2, RestingPhase DEF control, result
<1> QED
  BY <1>1, <1>2, <1>3, <1>4, <1>5 DEF TypeOK

LEMMA CopiesType ==
    ASSUME TypeOK, NEW t \in Transients, Resting(t), NEW h \in {t} \cup Persistents,
           NEW g \in Persistents, Copies(t, g, h)
    PROVE  TypeOK'
  BY CountedType, ObjectChanged DEF Copies, TypeOK, TreesOK, Handle

LEMMA ThawMoveType ==
    ASSUME TypeOK, NEW t \in Transients, NEW p \in Persistents, ThawMove(t, p)
    PROVE  TypeOK'
<1>0. /\ pc[t] = "idle"
      /\ root' = [root EXCEPT ![t] = root[p], ![p] = Nil]
      /\ size' = [size EXCEPT ![t] = size[p]]
      /\ UNCHANGED <<nodes, control, result, chores>>
      /\ p \in Handle /\ t \in Handle /\ p \notin Transients
  BY TreeAssumption DEF ThawMove, Resting, Handle
<1>1. NodesOK' /\ ControlOK' /\ ResultOK' /\ ChoresOK'
  BY <1>0, SameNodes, SameControl, SameResult, SameChores DEF TypeOK
<1>2. /\ TreesOK'
      /\ \A u \in Transients \ {t} : root'[u] = root[u] /\ size'[u] = size[u]
  BY <1>0 DEF TypeOK, TreesOK, Handle, Pointer
<1>3. \A u \in Transients : PhaseOK(u)'
  BY <1>0, <1>2, RestingPhase DEF control, result
<1> QED
  BY <1>1, <1>2, <1>3 DEF TypeOK

LEMMA DropType ==
    ASSUME TypeOK, NEW t \in Transients, NEW h \in {t} \cup Persistents, Drop(t, h)
    PROVE  TypeOK'
<1>1. /\ Resting(t)
      /\ root' = [root EXCEPT ![h] = Nil]
      /\ size' = [size EXCEPT ![h] = 0]
      /\ UNCHANGED <<items, depth, persistent, control, result, dying, marking>>
      /\ Drops(t, root[h])
      /\ refs' \in [NodeId -> Nat]
      /\ Nil \in Pointer /\ 0 \in Nat
  BY DEF Drop, nodes, TypeOK, NodesOK, Pointer
<1> QED
  BY <1>1, ObjectChanged

LEMMA MakeCallType ==
    ASSUME TypeOK, NEW t \in Transients, MakeCall(t)
    PROVE  TypeOK'
<1>1. CASE New(t) \/ Clear(t)
  BY <1>1, EmptiesType DEF New, Clear
<1>2. CASE Persist(t) \/ PersistMove(t)
  BY <1>2, PersistType
<1>3. ASSUME NEW p \in Persistents, Thaw(t, p) \/ ThawMove(t, p)
      PROVE  TypeOK'
  BY <1>3, CopiesType, ThawMoveType DEF Thaw
<1>4. ASSUME NEW p \in Persistents, NEW q \in Persistents, Copy(t, p, q)
      PROVE  TypeOK'
  BY <1>4, CopiesType DEF Copy
<1>5. ASSUME NEW h \in {t} \cup Persistents, Drop(t, h)
      PROVE  TypeOK'
  BY <1>5, DropType
<1> QED
  BY <1>1, <1>2, <1>3, <1>4, <1>5 DEF MakeCall

-----------------------------------------------------------------------------
(* dec_ref *)

\* The release of nodes touches no object and no call.
LEMMA ReleaseType ==
    ASSUME TypeOK, NodesOK', ChoresOK', UNCHANGED <<trees, control, result>>
    PROVE  TypeOK'
<1>1. TreesOK' /\ ControlOK' /\ ResultOK'
  BY SameTrees, SameControl, SameResult DEF TypeOK
<1>2. \A u \in Transients : PhaseOK(u)'
  BY DEF TypeOK, PhaseOK, trees, control, result
<1> QED
  BY <1>1, <1>2 DEF TypeOK

\* A freed node is an empty leaf to whoever allocates it next.
LEMMA FreesType ==
    ASSUME NodesOK, NEW n \in NodeId, Frees(n), refs' \in [NodeId -> Nat]
    PROVE  NodesOK'
<1>1. /\ {n} \in SUBSET NodeId
      /\ 1 \in Nat \ {0}
      /\ Makes({n}, 1)
      /\ items' = [items EXCEPT ![n] = <<>>]
      /\ <<>> \in Seq(Values)
  BY EmptySeq DEF Frees
<1>2. /\ DOMAIN items' = NodeId
      /\ items' = [m \in NodeId |-> items'[m]]
      /\ \A m \in NodeId \ {n} : items'[m] = items[m]
      /\ \A m \in {n} :
           items'[m] \in IF 1 = 1 THEN Seq(Values) ELSE Seq(NodeId)
  BY <1>1 DEF NodesOK
<1> QED
  BY ONLY <1>1, <1>2, NodesOK, refs' \in [NodeId -> Nat], WrittenNodes

LEMMA DropReferenceType ==
    ASSUME TypeOK, NEW t \in Transients, DropReference(t)
    PROVE  TypeOK'
<1>1. /\ drop[t] \in NodeId
      /\ refs[drop[t]] - 1 \in Nat
  BY DEF DropReference, TypeOK, ChoresOK, NodesOK, Pointer
<1>2. NodesOK'
  BY <1>1 DEF DropReference, TypeOK, NodesOK
<1>3. ChoresOK'
  BY DropsType DEF DropReference, TypeOK, Pointer
<1> QED
  BY <1>2, <1>3, ReleaseType DEF DropReference

LEMMA DeleteNodeType ==
    ASSUME TypeOK, NEW t \in Transients, DeleteNode(t)
    PROVE  TypeOK'
<1> DEFINE n == drop[t]
<1>0. /\ n \in NodeId
      /\ refs' = [refs EXCEPT ![n] = 0]
      /\ Drops(t, Nil)
      /\ UNCHANGED <<trees, control, result, marking>>
  BY DEF DeleteNode, TypeOK, ChoresOK, Pointer
<1>1. refs' \in [NodeId -> Nat]
  BY <1>0 DEF TypeOK, NodesOK
<1>2. CASE depth[n] = 1
  <2>1. Frees(n) /\ UNCHANGED dying
    BY <1>2 DEF DeleteNode
  <2>2. NodesOK' /\ ChoresOK'
    BY <1>0, <1>1, <2>1, FreesType, DropsType DEF TypeOK, Pointer
  <2> QED  BY <1>0, <2>2, ReleaseType
<1>3. CASE depth[n] # 1
  <2>1. /\ dying' = [dying EXCEPT ![t] = Append(@, n)]
        /\ UNCHANGED <<items, depth, persistent>>
    BY <1>3 DEF DeleteNode
  <2>2. Append(dying[t], n) \in Seq(NodeId)
    BY <1>0, AppendProperties DEF TypeOK, ChoresOK
  <2>3. ChoresOK'
    BY <1>0, <2>1, <2>2 DEF TypeOK, ChoresOK, Drops, Pointer
  <2>4. NodesOK'
    BY <1>1, <2>1 DEF TypeOK, NodesOK
  <2> QED  BY <1>0, <2>3, <2>4, ReleaseType
<1> QED
  BY <1>2, <1>3

\* The node whose destructor runs has a last child.
LEMMA LastOfDying ==
    ASSUME TypeOK, NEW t \in Transients, DestroyChild(t)
    PROVE  LET n == dying[t][Len(dying[t])]
           IN  /\ n \in NodeId
               /\ items[n] \in Seq(NodeId)
               /\ items[n][Len(items[n])] \in NodeId
               /\ SubSeq(items[n], 1, Len(items[n]) - 1) \in Seq(NodeId)
               /\ SubSeq(dying[t], 1, Len(dying[t]) - 1) \in Seq(NodeId)
<1> DEFINE n == dying[t][Len(dying[t])]
<1>1. dying[t] \in Seq(NodeId) /\ dying[t] # <<>>
  BY DEF DestroyChild, TypeOK, ChoresOK
<1>2. n \in NodeId
  <2>1. Len(dying[t]) \in 1 .. Len(dying[t])
    BY <1>1, EmptySeq
  <2> QED  BY <1>1, <2>1, ElementOfSeq
<1>3. depth[n] > 1 /\ items[n] # <<>>
  BY DEF DestroyChild
<1> HIDE DEF n
<1>4. items[n] \in Seq(NodeId)
  BY <1>2, <1>3 DEF TypeOK, NodesOK
<1>5. items[n][Len(items[n])] \in NodeId
  <2>1. Len(items[n]) \in 1 .. Len(items[n])
    BY <1>3, <1>4, EmptySeq
  <2> QED  BY <1>4, <2>1, ElementOfSeq
<1>6. ASSUME NEW S, NEW s \in Seq(S), s # <<>>
      PROVE  SubSeq(s, 1, Len(s) - 1) \in Seq(S)
  BY <1>6, SubSeqProperties, ElementOfSeq, EmptySeq
<1> QED
  BY <1>1, <1>2, <1>3, <1>4, <1>5, <1>6 DEF n

LEMMA DestroyChildType ==
    ASSUME TypeOK, NEW t \in Transients, DestroyChild(t)
    PROVE  TypeOK'
<1> DEFINE n   == dying[t][Len(dying[t])]
           len == Len(items[n])
<1>0. /\ Drops(t, items[n][len])
      /\ depth[n] > 1
      /\ UNCHANGED <<refs, trees, control, result, marking>>
  BY DEF DestroyChild
<1>1. /\ n \in NodeId
      /\ items[n][len] \in NodeId
      /\ SubSeq(items[n], 1, len - 1) \in Seq(NodeId)
      /\ SubSeq(dying[t], 1, Len(dying[t]) - 1) \in Seq(NodeId)
  BY LastOfDying
<1>2. refs' \in [NodeId -> Nat]
  BY <1>0 DEF TypeOK, NodesOK
<1>3. CASE len > 1
  <2>1. /\ items' = [items EXCEPT ![n] = SubSeq(items[n], 1, len - 1)]
        /\ UNCHANGED <<depth, persistent, dying>>
    BY <1>3 DEF DestroyChild
  <2> HIDE DEF n, len
  <2> DEFINE new == SubSeq(items[n], 1, len - 1)
  <2>2. new \in Seq(NodeId) /\ items' = [items EXCEPT ![n] = new]
    BY <1>1, <2>1
  <2> HIDE DEF new
  <2>3. NodesOK'
    <3>1. items' \in [NodeId -> Seq(Values) \cup Seq(NodeId)]
      BY <1>1, <2>2 DEF TypeOK, NodesOK
    <3>2. depth[n] # 1
      BY <1>0
    <3>3. ASSUME NEW m \in NodeId
          PROVE  items'[m] \in IF depth[m] = 1 THEN Seq(Values) ELSE Seq(NodeId)
      BY <1>1, <2>2, <3>2 DEF TypeOK, NodesOK
    <3> QED  BY <1>2, <2>1, <3>1, <3>3 DEF TypeOK, NodesOK
  <2>4. ChoresOK'
    BY <1>0, <1>1, <2>1, DropsType DEF TypeOK, Pointer
  <2> QED  BY <1>0, <2>3, <2>4, ReleaseType
<1>4. CASE ~(len > 1)
  <2>1. /\ Frees(n)
        /\ dying' = [dying EXCEPT ![t] = SubSeq(dying[t], 1, Len(dying[t]) - 1)]
    BY <1>4 DEF DestroyChild
  <2> HIDE DEF n, len
  <2>2. NodesOK'
    BY <1>1, <1>2, <2>1, FreesType DEF TypeOK
  <2>3. ChoresOK'
    BY <1>0, <1>1, <2>1 DEF TypeOK, ChoresOK, Drops, Pointer
  <2> QED  BY <1>0, <2>2, <2>3, ReleaseType
<1> QED
  BY <1>3, <1>4

-----------------------------------------------------------------------------
(* Every step *)

LEMMA AscendType ==
    ASSUME TypeOK, NEW t \in Transients, Ascend(t)
    PROVE  TypeOK'
<1>1. CASE InternalReplace(t) \/ InternalInsert(t) \/ InternalSplit(t)
  BY <1>1, InternalReplaceType, InternalInsertType, InternalSplitType
<1>2. CASE InternalErase(t) \/ InternalEraseOnly(t) \/ SeekEnd(t) \/ LeafKeep(t)
  BY <1>2, InternalEraseType, InternalEraseOnlyType, SeekEndType, LeafKeepType
<1>3. CASE RootReplace(t) \/ Collapse(t) \/ RootSplit(t) \/ RootErase(t)
  BY <1>3, RootReplaceType, CollapseType, RootSplitType, RootEraseType
<1>4. CASE RootSplitTooDeep(t) \/ DiscardLeft(t) \/ Return(t)
  BY <1>4, RootSplitTooDeepType, DiscardLeftType, ReturnType
<1> QED
  BY <1>1, <1>2, <1>3, <1>4 DEF Ascend

LEMMA StepType ==
    ASSUME TypeOK, NEW t \in Transients, Step(t)
    PROVE  TypeOK'
<1>1. ASSUME NEW i \in 0 .. InternalSize - 1, Descend(t, i)
      PROVE  TypeOK'
  BY <1>1, DescendType
<1>2. ASSUME NEW i \in 0 .. LeafSize, NEW v \in Values, LeafStep(t, i, v)
      PROVE  TypeOK'
  BY <1>2, LeafStepType
<1>3. CASE Ascend(t)
  BY <1>3, AscendType
<1>4. CASE MakePersistent(t)
  BY <1>4, MarkType, PublishType DEF MakePersistent
<1>5. CASE DecRef(t)
  BY <1>5, DropReferenceType, DeleteNodeType, DestroyChildType DEF DecRef
<1> QED
  BY <1>1, <1>2, <1>3, <1>4, <1>5 DEF Step

LEMMA NextType == TypeOK /\ [Next]_vars => TypeOK'
<1> SUFFICES ASSUME TypeOK, [Next]_vars PROVE TypeOK'
  OBVIOUS
<1>1. ASSUME NEW t \in Transients, NEW name \in Operations, Begin(t, name)
      PROVE  TypeOK'
  BY <1>1, BeginType
<1>2. ASSUME NEW t \in Transients, MakeCall(t)
      PROVE  TypeOK'
  BY <1>2, MakeCallType
<1>3. ASSUME NEW t \in Transients, Step(t)
      PROVE  TypeOK'
  BY <1>3, StepType
<1>4. CASE UNCHANGED vars
  <2>1. UNCHANGED <<nodes, trees, control, result, chores>>
    BY <1>4 DEF vars
  <2>2. NodesOK' /\ ChoresOK'
    BY <2>1, SameNodes, SameChores DEF TypeOK
  <2> QED  BY <2>1, <2>2, ReleaseType
<1> QED
  BY <1>1, <1>2, <1>3, <1>4 DEF Next

\* In every state of the tree TypeOK holds: leaves hold values and inner nodes
\* pointers, and no step of a call lacks a pointer it dereferences.
THEOREM TypeCorrect == Spec => []TypeOK
<1>1. Init => TypeOK
  BY InitType
<1>2. TypeOK /\ [Next]_vars => TypeOK'
  BY NextType
<1> QED
  BY <1>1, <1>2, PTL DEF Spec

-----------------------------------------------------------------------------
(* No step changes a node that may be shared *)

\* What PersistentFrozen says of one step.
Frozen ==
    \A n \in NodeId :
        refs[n] > 0 /\ ~Dying(n) /\ persistent[n] /\ refs'[n] > 0 =>
            persistent'[n] /\ depth'[n] = depth[n] /\ items'[n] = items[n]

\* A node may be written that is free, not persistent, being destroyed, or gone
\* after the step.
LEMMA WritesSpare ==
    ASSUME NEW ns \in SUBSET NodeId, NEW d, Makes(ns, d),
           \A m \in NodeId \ ns : items'[m] = items[m],
           \A m \in ns : refs[m] = 0 \/ ~persistent[m] \/ Dying(m) \/ refs'[m] = 0
    PROVE  Frozen
<1> SUFFICES ASSUME NEW n \in NodeId,
                    refs[n] > 0, ~Dying(n), persistent[n], refs'[n] > 0
             PROVE  persistent'[n] /\ depth'[n] = depth[n] /\ items'[n] = items[n]
  BY DEF Frozen
<1>1. n \notin ns
  OBVIOUS
<1> QED
  BY <1>1 DEF Makes

\* New versions and new nodes are written to such places only.
LEMMA RewritesSpare ==
    ASSUME NEW n, NEW dst, NEW taken, Rewrites(n, dst, taken)
    PROVE  refs[dst] = 0 \/ ~persistent[dst]
  BY DEF Rewrites, Allocates, FreeNodes

LEMMA AllocatesSpare ==
    ASSUME NEW r, NEW taken, Allocates(r, taken)
    PROVE  refs[r] = 0
  BY DEF Allocates, FreeNodes

\* One node gets a new version; or one node is made; or a node is split.
LEMMA RewriteFrozen ==
    ASSUME TypeOK, NEW n, NEW dst \in NodeId, NEW d, NEW new,
           Rewrites(n, dst, {}),
           items' = [items EXCEPT ![dst] = new], Makes({dst}, d)
    PROVE  Frozen
<1>1. \A m \in NodeId \ {dst} : items'[m] = items[m]
  BY DEF TypeOK, NodesOK
<1>2. refs[dst] = 0 \/ ~persistent[dst]
  BY RewritesSpare
<1> QED
  BY <1>1, <1>2, WritesSpare

LEMMA AllocateFrozen ==
    ASSUME TypeOK, NEW r \in NodeId, NEW d, NEW new,
           Allocates(r, {}),
           items' = [items EXCEPT ![r] = new], Makes({r}, d)
    PROVE  Frozen
<1>1. \A m \in NodeId \ {r} : items'[m] = items[m]
  BY DEF TypeOK, NodesOK
<1>2. refs[r] = 0
  BY AllocatesSpare
<1> QED
  BY <1>1, <1>2, WritesSpare

LEMMA SplitFrozen ==
    ASSUME TypeOK, NEW n, NEW r \in NodeId, NEW dst \in NodeId, NEW d,
           NEW l, NEW rt,
           Allocates(r, {}), Rewrites(n, dst, {r}),
           items' = [items EXCEPT ![dst] = l, ![r] = rt], Makes({dst, r}, d)
    PROVE  Frozen
<1>1. \A m \in NodeId \ {dst, r} : items'[m] = items[m]
  BY DEF TypeOK, NodesOK
<1>2. /\ {dst, r} \in SUBSET NodeId
      /\ \A m \in {dst, r} :
           refs[m] = 0 \/ ~persistent[m] \/ Dying(m) \/ refs'[m] = 0
  BY RewritesSpare, AllocatesSpare
<1> QED
  BY ONLY <1>1, <1>2, Makes({dst, r}, d), WritesSpare

LEMMA UnwrittenFrozen == UNCHANGED <<items, depth, persistent>> => Frozen
  BY DEF Frozen

LEMMA LeafStepFrozen ==
    ASSUME TypeOK, NEW t \in Transients, NEW i, NEW v, LeafStep(t, i, v)
    PROVE  Frozen
<1>1. CASE LeafInsert(t, i, v)
  BY <1>1, RewriteFrozen DEF LeafInsert
<1>2. CASE LeafSplit(t, i, v)
  BY <1>2, SplitFrozen DEF LeafSplit
<1>3. CASE LeafAssign(t, i, v)
  BY <1>3, RewriteFrozen DEF LeafAssign
<1>4. CASE LeafErase(t, i)
  BY <1>4, RewriteFrozen DEF LeafErase
<1>5. CASE LeafEraseOnly(t, i)
  BY <1>5, UnwrittenFrozen DEF LeafEraseOnly, nodes
<1> QED
  BY <1>1, <1>2, <1>3, <1>4, <1>5 DEF LeafStep

LEMMA AscendFrozen ==
    ASSUME TypeOK, NEW t \in Transients, Ascend(t)
    PROVE  Frozen
<1>1. CASE InternalReplace(t)
  BY <1>1, RewriteFrozen DEF InternalReplace
<1>2. CASE InternalInsert(t)
  BY <1>2, RewriteFrozen DEF InternalInsert
<1>3. CASE InternalSplit(t)
  BY <1>3, SplitFrozen DEF InternalSplit
<1>4. CASE InternalErase(t)
  BY <1>4, RewriteFrozen DEF InternalErase
<1>5. CASE RootSplit(t)
  BY <1>5, AllocateFrozen DEF RootSplit
<1>6. CASE RootErase(t)
  BY <1>6, AllocateFrozen DEF RootErase
<1>7. CASE \/ InternalEraseOnly(t) \/ SeekEnd(t) \/ LeafKeep(t) \/ RootReplace(t)
           \/ Collapse(t) \/ RootSplitTooDeep(t) \/ DiscardLeft(t) \/ Return(t)
  BY <1>7, UnwrittenFrozen
     DEF InternalEraseOnly, SeekEnd, LeafKeep, RootReplace, Collapse,
         RootSplitTooDeep, DiscardLeft, Return, nodes
<1> QED
  BY <1>1, <1>2, <1>3, <1>4, <1>5, <1>6, <1>7 DEF Ascend

\* A node is marked, never unmarked.
LEMMA MarkFrozen ==
    ASSUME TypeOK, NEW t \in Transients, Mark(t)
    PROVE  Frozen
  BY DEF Mark, Frozen, TypeOK, NodesOK

LEMMA MakeCallFrozen ==
    ASSUME TypeOK, NEW t \in Transients, MakeCall(t)
    PROVE  Frozen
<1>1. CASE New(t) \/ Clear(t)
  BY <1>1, AllocateFrozen DEF New, Clear, Empties
<1>2. CASE Persist(t) \/ PersistMove(t)
  BY <1>2, UnwrittenFrozen DEF Persist, PersistMove, StartsMarking
<1>3. ASSUME NEW p \in Persistents, Thaw(t, p) \/ ThawMove(t, p)
      PROVE  Frozen
  BY <1>3, UnwrittenFrozen DEF Thaw, ThawMove, Copies, nodes
<1>4. ASSUME NEW p \in Persistents, NEW q \in Persistents, Copy(t, p, q)
      PROVE  Frozen
  BY <1>4, UnwrittenFrozen DEF Copy, Copies
<1>5. ASSUME NEW h \in {t} \cup Persistents, Drop(t, h)
      PROVE  Frozen
  BY <1>5, UnwrittenFrozen DEF Drop, nodes
<1> QED
  BY <1>1, <1>2, <1>3, <1>4, <1>5 DEF MakeCall

LEMMA DecRefFrozen ==
    ASSUME TypeOK, NEW t \in Transients, DecRef(t)
    PROVE  Frozen
<1>1. CASE DropReference(t)
  BY <1>1, UnwrittenFrozen DEF DropReference
<1>2. CASE DeleteNode(t)
  <2> DEFINE n == drop[t]
  <2>1. n \in NodeId /\ refs' = [refs EXCEPT ![n] = 0]
    BY <1>2 DEF DeleteNode, TypeOK, ChoresOK, Pointer
  <2>2. CASE depth[n] = 1
    <3>1. items' = [items EXCEPT ![n] = <<>>] /\ Makes({n}, 1)
      BY <1>2, <2>2 DEF DeleteNode, Frees
    <3>2. refs'[n] = 0 /\ \A m \in NodeId \ {n} : items'[m] = items[m]
      BY <2>1, <3>1 DEF TypeOK, NodesOK
    <3> QED  BY <2>1, <3>1, <3>2, WritesSpare
  <2>3. CASE depth[n] # 1
    BY <1>2, <2>3, UnwrittenFrozen DEF DeleteNode
  <2> QED  BY <2>2, <2>3
<1>3. CASE DestroyChild(t)
  <2> DEFINE n   == dying[t][Len(dying[t])]
             len == Len(items[n])
  <2>1. n \in NodeId /\ Dying(n)
    <3>1. dying[t] \in Seq(NodeId) /\ dying[t] # <<>>
      BY <1>3 DEF DestroyChild, TypeOK, ChoresOK
    <3>2. Len(dying[t]) \in 1 .. Len(dying[t])
      BY <3>1, EmptySeq
    <3> QED  BY <1>3, <3>2, LastOfDying DEF Dying
  <2>2. CASE len > 1
    <3>1. /\ items' = [items EXCEPT ![n] = SubSeq(items[n], 1, len - 1)]
          /\ UNCHANGED <<depth, persistent, dying>>
      BY <1>3, <2>2 DEF DestroyChild
    <3> HIDE DEF n, len
    <3> QED  BY <2>1, <3>1 DEF Frozen, TypeOK, NodesOK
  <2>3. CASE ~(len > 1)
    <3>1. items' = [items EXCEPT ![n] = <<>>] /\ Makes({n}, 1)
      BY <1>3, <2>3 DEF DestroyChild, Frees
    <3> HIDE DEF n, len
    <3>2. \A m \in NodeId \ {n} : items'[m] = items[m]
      BY <3>1 DEF TypeOK, NodesOK
    <3> QED  BY <2>1, <3>1, <3>2, WritesSpare
  <2> QED  BY <2>2, <2>3
<1> QED
  BY <1>1, <1>2, <1>3 DEF DecRef

LEMMA NextFrozen == TypeOK /\ Next => Frozen
<1> SUFFICES ASSUME TypeOK, Next PROVE Frozen
  OBVIOUS
<1>1. ASSUME NEW t \in Transients, NEW name \in Operations, Begin(t, name)
      PROVE  Frozen
  BY <1>1, UnwrittenFrozen DEF Begin, nodes
<1>2. ASSUME NEW t \in Transients, MakeCall(t)
      PROVE  Frozen
  BY <1>2, MakeCallFrozen
<1>3. ASSUME NEW t \in Transients, Step(t)
      PROVE  Frozen
  <2>1. ASSUME NEW i \in 0 .. InternalSize - 1, Descend(t, i)
        PROVE  Frozen
    BY <2>1, UnwrittenFrozen DEF Descend, nodes
  <2>2. ASSUME NEW i \in 0 .. LeafSize, NEW v \in Values, LeafStep(t, i, v)
        PROVE  Frozen
    BY <2>2, LeafStepFrozen
  <2>3. CASE Ascend(t)
    BY <2>3, AscendFrozen
  <2>4. CASE MakePersistent(t)
    <3>1. CASE Mark(t)
      BY <3>1, MarkFrozen
    <3>2. ASSUME NEW p \in Persistents, Publish(t, p)
          PROVE  Frozen
      BY <3>2, UnwrittenFrozen DEF Publish, nodes
    <3> QED  BY <2>4, <3>1, <3>2 DEF MakePersistent
  <2>5. CASE DecRef(t)
    BY <2>5, DecRefFrozen
  <2> QED  BY <1>3, <2>1, <2>2, <2>3, <2>4, <2>5 DEF Step
<1> QED
  BY <1>1, <1>2, <1>3 DEF Next

\* A node marked persistent keeps its items as long as it lives: every operation
\* copies it, and no release of another tree writes to it.
THEOREM VersionsFrozen == Spec => PersistentFrozen
<1>1. TypeOK /\ [Next]_vars => [Frozen]_vars
  BY NextFrozen
<1>2. Spec => [][Frozen]_vars
  BY <1>1, TypeCorrect, PTL DEF Spec
<1> QED
  BY <1>2, PTL DEF PersistentFrozen, Frozen
=============================================================================
