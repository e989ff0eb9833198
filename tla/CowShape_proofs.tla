--------------------------- MODULE CowShape_proofs ---------------------------
(***************************************************************************)
(* Every node that is alive is one of a B+ tree.                           *)
(*                                                                         *)
(* NodeShape speaks of the tree as it is; the invariant also has to speak  *)
(* of what running calls hold: results are not empty, or their parents     *)
(* would have empty children, and the root is a chain of single children   *)
(* only from the moment its last continuation returns until Collapse.      *)
(***************************************************************************)
EXTENDS CowMemory_proofs

\* Within capacity, and an inner node has children, none of them empty.
Formed(n) ==
    /\ Len(items[n]) <= Capacity(depth[n])
    /\ depth[n] > 1 => items[n] # <<>> /\ \A m \in Children(n) : items[m] # <<>>

Shaped == \A n \in NodeId : refs[n] > 0 => Formed(n)

\* An inner node with one child is the root.
Chain(n) == n # Nil /\ Collapsible(n, items[n])

\* What thread t holds, while it is there.
Firm(t) ==
    /\ pc[t] \in {"replace", "split"} /\ ptr[t] # Nil => items[ptr[t]] # <<>>
    /\ right[t] # Nil => items[right[t]] # <<>>
    /\ pc[t] = "split" /\ ptr[t] = Nil /\ stack[t] = <<>> => items[root[t]] # <<>>
    /\ pc[t] = "persist" => ~Chain(ptr[t])
    /\ pc[t] # "collapse" /\ ~(pc[t] = "replace" /\ stack[t] = <<>>) => ~Chain(root[t])

ShapeInv ==
    /\ Shaped
    /\ \A t \in Transients : Firm(t)
    /\ \A p \in Persistents : ~Chain(root[p])

-----------------------------------------------------------------------------
(* What a step leaves as it is *)

\* HeldAlive for all nodes, in this state and the next.
LEMMA AliveNow ==
    Memory => \A n \in NodeId :
        (Placed(n) \/ \E t \in Transients : ptr[t] = n \/ right[t] = n \/ drop[t] = n)
            => refs[n] > 0
  BY HeldAlive

\* AliveNow of the state a step leads to: what a tree or a hand points to is alive.
LEMMA AliveNext ==
    (Memory => \A n \in NodeId :
        (Placed(n) \/ \E t \in Transients : ptr[t] = n \/ right[t] = n \/ drop[t] = n)
            => refs[n] > 0)'
  BY AliveNow, PTL

\* What an object or a result points to after a step is alive then.
LEMMA HandsAlive ==
    ASSUME MemoryInv', NEW n \in NodeId,
           \/ \E h \in Handle : root'[h] = n
           \/ \E t \in Transients : ptr'[t] = n \/ right'[t] = n
    PROVE  refs'[n] > 0
<1>1. Memory'
  BY DEF MemoryInv, MemInv
<1>2. Placed(n)' \/ \E t \in Transients : ptr'[t] = n \/ right'[t] = n
  BY DEF Placed
<1> QED
  BY <1>1, <1>2, AliveNext

\* A step of t writes to nodes W: free ones, ones that are freed, and ones that
\* belong to t.  No node comes to life that is not written, and none that is in
\* a tree is emptied.
Alters(owner, t, W) ==
    /\ W \subseteq NodeId
    /\ \A n \in NodeId \ W : items'[n] = items[n] /\ depth'[n] = depth[n]
    /\ \A n \in W : n \in FreeNodes \/ refs'[n] = 0 \/ owner[n] = t
    /\ \A n \in NodeId \ W : refs'[n] > 0 => refs[n] > 0
    /\ \A n \in W : Placed(n) /\ items[n] # <<>> => items'[n] # <<>>

\* The nodes that are not written stay well formed.
LEMMA ShapedKept ==
    ASSUME NEW owner, MemInv(owner), Shaped, NEW t, NEW W, Alters(owner, t, W),
           \A n \in W : refs'[n] > 0 => Formed(n)'
    PROVE  Shaped'
<1> SUFFICES ASSUME NEW n \in NodeId, refs'[n] > 0, n \notin W PROVE Formed(n)'
  BY DEF Shaped
<1>1. /\ items'[n] = items[n] /\ depth'[n] = depth[n] /\ refs[n] > 0
      /\ Children(n)' = Children(n)
  BY DEF Alters, Children
<1>2. Formed(n)
  BY <1>1 DEF Shaped
<1>3. ASSUME NEW m \in Children(n), depth[n] > 1 PROVE items'[m] # <<>>
  <2>1. m \in NodeId /\ Placed(m) /\ items[m] # <<>>
    BY <1>2, <1>3 DEF Formed, Placed, MemInv, Memory, TypeOK, NodesOK, Children
  <2>2. CASE m \in W
    BY <2>1, <2>2 DEF Alters
  <2>3. CASE m \notin W
    BY <2>1, <2>3 DEF Alters
  <2> QED  BY <2>2, <2>3
<1> QED
  BY <1>1, <1>2, <1>3 DEF Formed

\* Nodes that another thread, or no one, has are not written.
LEMMA Untouched ==
    ASSUME NEW owner, MemInv(owner), NEW t \in Transients, NEW W, Alters(owner, t, W),
           NEW n \in NodeId, owner[n] # t, refs[n] > 0, refs'[n] > 0
    PROVE  items'[n] = items[n] /\ depth'[n] = depth[n]
  BY DEF Alters, FreeNodes, MemInv, Memory, TypeOK, NodesOK

\* Nothing has changed for thread u.
LEMMA FirmKept ==
    ASSUME NEW u \in Transients, Firm(u), root[u] \in Pointer, ptr[u] \in Pointer,
           right[u] \in Pointer,
           UNCHANGED <<pc[u], stack[u], root[u], ptr[u], right[u]>>,
           \A n \in NodeId : n = root[u] \/ n = ptr[u] \/ n = right[u] =>
               items'[n] = items[n] /\ depth'[n] = depth[n],
           pc[u] = "split" => root[u] # Nil
    PROVE  Firm(u)'
<1>1. \A n \in {root[u], ptr[u], right[u]} : Chain(n)' <=> Chain(n)
  BY DEF Chain, Collapsible, Pointer
<1> QED
  BY <1>1 DEF Firm, Pointer

\* A step of t that writes to nodes W, once t and the objects it changes are done.
LEMMA ShapeStep ==
    ASSUME NEW owner, MemInv(owner), MemoryInv', ShapeInv, NEW t \in Transients,
           NEW W, Alters(owner, t, W), \A n \in W : refs'[n] > 0 => Formed(n)',
           Waits(t), Firm(t)',
           \A p \in Persistents : root'[p] # root[p] => ~Chain(root[p])'
    PROVE  ShapeInv'
<1>1. Shaped'
  BY ShapedKept DEF ShapeInv
<1>2. Memory /\ Owned(owner) /\ Memory'
  BY DEF MemInv, MemoryInv
<1>3. ASSUME NEW u \in Transients \ {t} PROVE Firm(u)'
  <2>1. UNCHANGED <<pc[u], stack[u], root[u], ptr[u], right[u]>>
    BY DEF Waits
  <2>2. root[u] \in Pointer /\ ptr[u] \in Pointer /\ right[u] \in Pointer
        /\ (pc[u] = "split" => root[u] # Nil)
    BY <1>2 DEF Memory, TypeOK, TreesOK, ResultOK, PhaseOK, Handle
  <2>3. ASSUME NEW n \in NodeId, n = root[u] \/ n = ptr[u] \/ n = right[u]
        PROVE  items'[n] = items[n] /\ depth'[n] = depth[n]
    <3>1. owner[n] # t
      BY <1>2, <2>3, NoOneIsNoThread DEF Owned, Held, Sees
    <3>2. refs[n] > 0
      BY <1>2, <2>3, AliveNow DEF Placed, Handle
    <3>3. refs'[n] > 0
      BY <2>1, <2>3, HandsAlive DEF Handle
    <3> QED  BY <3>1, <3>2, <3>3, Untouched
  <2> QED  BY <2>1, <2>2, <2>3, FirmKept DEF ShapeInv
<1>4. ASSUME NEW p \in Persistents, root'[p] = root[p] PROVE ~Chain(root[p])'
  <2>1. CASE root[p] = Nil
    BY <1>4, <2>1 DEF Chain
  <2>2. CASE root[p] # Nil
    <3>1. root[p] \in NodeId /\ refs[root[p]] > 0 /\ owner[root[p]] # t
      BY <2>2, RootShared, NoOneIsNoThread
    <3>2. refs'[root[p]] > 0
      BY <1>4, <3>1, HandsAlive DEF Handle
    <3>3. items'[root[p]] = items[root[p]] /\ depth'[root[p]] = depth[root[p]]
      BY <3>1, <3>2, Untouched
    <3> QED  BY <1>4, <3>3 DEF ShapeInv, Chain, Collapsible
  <2> QED  BY <2>1, <2>2
<1> QED
  BY <1>1, <1>3, <1>4 DEF ShapeInv

\* A step of t that writes to no node.
LEMMA QuietShape ==
    ASSUME NEW owner, MemInv(owner), MemoryInv', ShapeInv, NEW t \in Transients,
           UNCHANGED <<items, depth>>, \A n \in NodeId : refs'[n] > 0 => refs[n] > 0,
           Waits(t), Firm(t)',
           \A p \in Persistents : root'[p] # root[p] => ~Chain(root[p])'
    PROVE  ShapeInv'
<1>1. Alters(owner, t, {})
  BY DEF Alters
<1> QED
  BY <1>1, ShapeStep

\* A step of t that gives a pointer up and frees the nodes it writes to.
LEMMA ReleaseShape ==
    ASSUME NEW owner, MemInv(owner), MemoryInv', ShapeInv, NEW t \in Transients,
           NEW W, W \subseteq NodeId,
           \A n \in NodeId \ W : items'[n] = items[n] /\ depth'[n] = depth[n],
           \A n \in W : refs'[n] = 0 /\ ~Placed(n),
           \A n \in NodeId : refs'[n] > 0 => refs[n] > 0,
           UNCHANGED <<pc, stack, root, ptr, right>>, Waits(t)
    PROVE  ShapeInv'
<1>1. Alters(owner, t, W)
  BY DEF Alters
<1>2. \A n \in W : ~(refs'[n] > 0)
  OBVIOUS
<1>3. Firm(t)'
  <2>1. root[t] \in Pointer /\ ptr[t] \in Pointer /\ right[t] \in Pointer
        /\ (pc[t] = "split" => root[t] # Nil)
    BY DEF MemInv, Memory, TypeOK, TreesOK, ResultOK, PhaseOK, Handle
  <2>2. ASSUME NEW n \in NodeId, n = root[t] \/ n = ptr[t] \/ n = right[t]
        PROVE  items'[n] = items[n] /\ depth'[n] = depth[n]
    BY <1>2, <2>2, HandsAlive DEF Handle
  <2>3. Firm(t)
    BY DEF ShapeInv
  <2> QED  BY <2>1, <2>2, <2>3, FirmKept
<1> QED
  BY <1>1, <1>2, <1>3, ShapeStep

\* The arrays of node n's new version dst, and of the nodes R made with it.
Rewritten(n, dst, R, K) ==
    /\ R \subseteq FreeNodes /\ dst \in NodeId /\ Rewrites(n, dst, R)
    /\ Makes({dst} \cup R, depth[n])
    /\ \A m \in NodeId \ ({dst} \cup R) : items'[m] = items[m]
    /\ K \subseteq Children(n)
    /\ refs' = IF persistent[n] THEN Counted({dst} \cup R, K) ELSE Counted(R, {})

\* They have what Formed asks for, with children that were there before.
Sized(n, dst, R) ==
    \A m \in {dst} \cup R :
        /\ items'[m] # <<>> /\ Len(items'[m]) <= Capacity(depth[n])
        /\ depth[n] > 1 => \A c \in Children(m)' :
             c \in NodeId /\ refs[c] > 0 /\ items[c] # <<>> /\ c # n

\* The continuation above n is called with them.
Called(t, n, dst, R) ==
    /\ UNCHANGED root /\ Waits(t) /\ ptr'[t] = Changed(n, dst)
    /\ stack'[t] = <<>> => root[t] = n
    /\ stack'[t] # <<>> => depth[n] # depth[root[t]]
    /\ \/ pc'[t] = "replace" /\ right'[t] = Nil
       \/ /\ pc'[t] = "split" /\ right'[t] \in R
          /\ depth[n] = 1 \/ Len(items'[dst]) # 1

\* A level of a call is through with node n: its new version dst, and the right
\* half in R, are not empty, nor are the nodes below them.
LEMMA ClimbShape ==
    ASSUME NEW owner, MemInv(owner), MemoryInv', ShapeInv, NEW t \in Transients,
           NEW n \in NodeId, refs[n] > 0, Sees(owner, t, n),
           root[t] \in NodeId, refs[root[t]] > 0, ~Chain(root[t]),
           NEW R, NEW dst, NEW K, Rewritten(n, dst, R, K), Sized(n, dst, R),
           Called(t, n, dst, R)
    PROVE  ShapeInv'
<1> USE DEF Rewritten, Sized, Called
<1> DEFINE W == {dst} \cup R
<1>1. /\ persistent[n] => dst \in FreeNodes /\ dst # n
      /\ ~persistent[n] => dst = n /\ owner[n] = t
  BY RewriteSplits
<1>2. /\ Memory /\ W \subseteq NodeId
      /\ \A m \in NodeId \ W : items'[m] = items[m] /\ depth'[m] = depth[m]
      /\ \A m \in W : depth'[m] = depth[n]
  BY DEF MemInv, Makes, FreeNodes
<1>3. ASSUME NEW m \in NodeId, m \notin W, refs'[m] > 0 PROVE refs[m] > 0
  <2>1. m \in K => refs[m] > 0
    BY <1>2, AliveNow DEF Placed
  <2> QED  BY <1>3, <2>1 DEF Counted
<1>4. Alters(owner, t, W)
  BY <1>1, <1>2, <1>3 DEF Alters
<1>5. ASSUME NEW m \in W PROVE Formed(m)'
  <2>1. ASSUME NEW c \in Children(m)', depth[n] > 1 PROVE items'[c] # <<>>
    <3>1. c \in NodeId /\ refs[c] > 0 /\ items[c] # <<>> /\ c # n
      BY <1>5, <2>1
    <3>2. c \notin W
      BY <1>1, <3>1 DEF FreeNodes
    <3> QED  BY <1>2, <3>1, <3>2
  <2>2. items'[m] # <<>> /\ Len(items'[m]) <= Capacity(depth[n]) /\ depth'[m] = depth[n]
    BY <1>2
  <2> HIDE DEF W
  <2> QED  BY <2>1, <2>2 DEF Formed
<1>6. Firm(t)'
  <2>1. \A m \in W : items'[m] # <<>>
    OBVIOUS
  <2>2. ptr'[t] = Nil \/ (ptr'[t] = dst /\ persistent[n])
    BY DEF Changed
  <2>3. root[t] = n /\ ptr'[t] = Nil => dst = n
    BY <1>1, <1>2, NodePointer DEF Changed
  <2>4. ASSUME pc'[t] = "split" \/ stack'[t] # <<>> PROVE ~Chain(root[t])'
    <3>1. CASE root[t] \in W
      <4>1. dst = n /\ root[t] = n
        BY <1>1, <3>1 DEF FreeNodes
      <4>2. stack'[t] = <<>>
        BY <4>1
      <4>3. depth[n] = 1 \/ Len(items'[n]) # 1
        BY <2>4, <4>1, <4>2
      <4>4. depth'[n] = depth[n] /\ root'[t] = n
        BY <1>2, <4>1
      <4> QED  BY ONLY <4>3, <4>4 DEF Chain, Collapsible
    <3>2. CASE root[t] \notin W
      BY <1>2, <3>2 DEF Chain, Collapsible
    <3> QED  BY <3>1, <3>2
  <2> QED  BY <2>1, <2>2, <2>3, <2>4 DEF Firm
<1>7. \A p \in Persistents : root'[p] = root[p]
  OBVIOUS
<1> HIDE DEF W
<1> QED
  BY <1>4, <1>5, <1>6, <1>7, ShapeStep

-----------------------------------------------------------------------------
(* The leaf *)

\* A sequence with at least one element is not the empty one.
LEMMA NotEmpty ==
    ASSUME NEW S, NEW s \in Seq(S), NEW c \in Nat, Len(s) \in 1 .. c
    PROVE  s # <<>> /\ Len(s) <= c
  OBVIOUS

\* A leaf has new versions, neither empty nor over capacity.
LEMMA LeafShape ==
    ASSUME NEW owner, MemInv(owner), MemoryInv', ShapeInv, NEW t \in Transients,
           NEW names, AtLeaf(t, names), NEW R, R \subseteq FreeNodes,
           NEW dst \in NodeId, Rewrites(at[t], dst, R), Makes({dst} \cup R, 1),
           \A m \in NodeId \ ({dst} \cup R) : items'[m] = items[m],
           refs' = CountedLeaf(at[t], dst, R),
           \A m \in {dst} \cup R : items'[m] # <<>> /\ Len(items'[m]) <= LeafSize,
           NEW phase, NEW rr, pc' = [pc EXCEPT ![t] = phase],
           ptr' = [ptr EXCEPT ![t] = Changed(at[t], dst)],
           right' = [right EXCEPT ![t] = rr],
           (phase = "replace" /\ rr = Nil) \/ (phase = "split" /\ rr \in R),
           LeavesLeaf(t)
    PROVE  ShapeInv'
<1>0. Memory /\ Results(t) /\ Path(t) /\ Held(owner, t) /\ Firm(t)
  BY DEF MemInv, Threads, Owned, ShapeInv
<1>1. /\ pc[t] = "descend" /\ depth[at[t]] = 1
      /\ at[t] \in NodeId /\ refs[at[t]] > 0 /\ Sees(owner, t, at[t])
  BY <1>0, PathPlaced, AliveNow DEF AtLeaf, Held
<1>2. root[t] \in NodeId /\ refs[root[t]] > 0 /\ ~Chain(root[t])
  <2>1. root[t] # Nil
    BY <1>0, <1>1 DEF Memory, TypeOK, PhaseOK
  <2> QED  BY <1>0, <1>1, <2>1, PathPlaced, AliveNow DEF Firm
<1>3. UNCHANGED <<stack, root>> /\ Waits(t)
      /\ pc'[t] = phase /\ ptr'[t] = Changed(at[t], dst) /\ right'[t] = rr
  BY <1>0 DEF LeavesLeaf, chores, Waits, Memory, TypeOK, ControlOK, ResultOK
<1>4. /\ stack[t] = <<>> => root[t] = at[t]
      /\ stack[t] # <<>> => depth[at[t]] # depth[root[t]]
  <2>1. stack[t] \in Seq(FrameSet) /\ depth[at[t]] = depth[root[t]] - Len(stack[t])
        /\ depth[root[t]] \in Nat
    BY <1>0, <1>1, <1>2 DEF Path, Height, Memory, TypeOK, ControlOK, NodesOK
  <2>2. stack[t] # <<>> => Len(stack[t]) > 0 /\ Len(stack[t]) \in Nat
    BY <2>1
  <2> QED  BY <1>0, <1>1, <2>1, <2>2 DEF Path
<1>5. PICK n \in NodeId : n = at[t]
  BY <1>1
<1>6. Rewritten(n, dst, R, {})
  <2>1. (IF persistent[n] THEN {dst} ELSE {}) \cup R = IF persistent[n] THEN {dst} \cup R ELSE R
    OBVIOUS
  <2>2. refs' = IF persistent[n] THEN Counted({dst} \cup R, {}) ELSE Counted(R, {})
    BY <1>5, <2>1 DEF CountedLeaf
  <2> QED  BY <1>1, <1>5, <2>2 DEF Rewritten
<1>7. Sized(n, dst, R)
  BY <1>1, <1>5 DEF Sized, Capacity
<1>8. Called(t, n, dst, R)
  BY <1>1, <1>3, <1>4, <1>5 DEF Called
<1> QED
  BY <1>1, <1>2, <1>5, <1>6, <1>7, <1>8, ClimbShape

\* A leaf rewritten without a split, whose new length is legal.
LEMMA LeafReplaceShape ==
    ASSUME NEW owner, MemInv(owner), MemoryInv', ShapeInv, NEW t \in Transients,
           NEW names, AtLeaf(t, names), NEW new \in Seq(Values), NEW c,
           NEW dst \in NodeId, Rewrites(at[t], dst, {}),
           items' = [items EXCEPT ![dst] = new], Makes({dst}, 1),
           refs' = CountedLeaf(at[t], dst, {}),
           CallReplace(t, Changed(at[t], dst), c), LeavesLeaf(t),
           Len(new) \in 1 .. LeafSize
    PROVE  ShapeInv'
<1>1. PICK R : R = {}
  OBVIOUS
<1>2. R \subseteq FreeNodes /\ {dst} \cup R = {dst}
  BY <1>1
<1>3. new # <<>> /\ Len(new) <= LeafSize
  BY NotEmpty, NodeSizeAssumption
<1>4. /\ \A m \in NodeId \ {dst} : items'[m] = items[m]
      /\ items'[dst] = new
  BY DEF MemInv, Memory, TypeOK, NodesOK
<1>5. /\ pc' = [pc EXCEPT ![t] = "replace"] /\ right' = [right EXCEPT ![t] = Nil]
      /\ ptr' = [ptr EXCEPT ![t] = Changed(at[t], dst)]
  BY DEF CallReplace
<1>6. Rewrites(at[t], dst, R) /\ Makes({dst} \cup R, 1) /\ refs' = CountedLeaf(at[t], dst, R)
  BY <1>1, <1>2
<1> QED
  BY <1>2, <1>3, <1>4, <1>5, <1>6, LeafShape

\* The leaf a thread is at is alive and within its capacity.
LEMMA LeafSized ==
    ASSUME NEW owner, MemInv(owner), ShapeInv, NEW t \in Transients,
           NEW names, AtLeaf(t, names)
    PROVE  /\ items[at[t]] \in Seq(Values) /\ Len(items[at[t]]) \in 0 .. LeafSize
           /\ LeafSize \in Nat \ {0}
<1>0. Memory /\ Path(t)
  BY DEF MemInv, Threads
<1>1. /\ items[at[t]] \in Seq(Values) /\ Len(items[at[t]]) \in Nat
      /\ at[t] \in NodeId /\ depth[at[t]] = 1 /\ pc[t] = "descend"
  BY <1>0, LeafItems DEF Memory
<1>2. refs[at[t]] > 0
  BY <1>0, <1>1, PathPlaced, AliveNow
<1>3. Len(items[at[t]]) <= LeafSize
  BY <1>1, <1>2 DEF ShapeInv, Shaped, Formed, Capacity
<1> QED
  BY <1>1, <1>3, NodeSizeAssumption

\* Whatever a call does at the leaf it reached, the nodes keep their shape.
LEMMA LeafStepShape ==
    ASSUME NEW owner, MemInv(owner), MemoryInv', ShapeInv, NEW t \in Transients,
           NEW i \in 0 .. LeafSize, NEW v \in Values, LeafStep(t, i, v)
    PROVE  ShapeInv'
<1> DEFINE n == at[t]
<1>1. CASE LeafInsert(t, i, v)
  <2>1. PICK dst \in NodeId :
          /\ Rewrites(n, dst, {})
          /\ items' = [items EXCEPT ![dst] = InsertItem(items[n], i, v)]
          /\ Makes({dst}, 1)
          /\ refs' = CountedLeaf(n, dst, {})
          /\ CallReplace(t, Changed(n, dst), FALSE)
    BY <1>1 DEF LeafInsert
  <2>2. AtLeaf(t, Inserting) /\ LeavesLeaf(t) /\ Len(items[n]) # LeafSize /\ i <= Len(items[n])
    BY <1>1 DEF LeafInsert
  <2>3. items[n] \in Seq(Values) /\ Len(items[n]) \in 0 .. LeafSize /\ LeafSize \in Nat
    BY <2>2, LeafSized
  <2>4. InsertItem(items[n], i, v) \in Seq(Values)
        /\ Len(InsertItem(items[n], i, v)) = Len(items[n]) + 1
    <3>1. i \in 0 .. Len(items[n])
      BY <2>2, <2>3
    <3> HIDE DEF n
    <3>2. items[n] \in Seq(Values) /\ v \in Values
      BY <2>3
    <3> QED  BY ONLY <3>1, <3>2, InsertItemProperties, SMTT(30)
  <2>5. Len(InsertItem(items[n], i, v)) \in 1 .. LeafSize
    BY ONLY <2>2, <2>3, <2>4
  <2> QED  BY <2>1, <2>2, <2>4, <2>5, LeafReplaceShape
<1>2. CASE LeafAssign(t, i, v)
  <2>1. PICK dst \in NodeId :
          /\ Rewrites(n, dst, {})
          /\ items' = [items EXCEPT ![dst] = ReplaceItem(items[n], i, v)]
          /\ Makes({dst}, 1)
          /\ refs' = CountedLeaf(n, dst, {})
          /\ CallReplace(t, Changed(n, dst), FALSE)
    BY <1>2 DEF LeafAssign
  <2>2. AtLeaf(t, Assigning) /\ LeavesLeaf(t) /\ i < Len(items[n])
    BY <1>2 DEF LeafAssign
  <2>3. items[n] \in Seq(Values) /\ Len(items[n]) \in 0 .. LeafSize /\ LeafSize \in Nat
    BY <2>2, LeafSized
  <2>4. ReplaceItem(items[n], i, v) \in Seq(Values)
        /\ Len(ReplaceItem(items[n], i, v)) = Len(items[n])
    <3>1. i \in 0 .. Len(items[n]) - 1
      BY <2>2, <2>3
    <3>2. v \in Values
      OBVIOUS
    <3> QED  BY ONLY <2>3, <3>1, <3>2, ReplaceItemProperties
  <2>5. Len(ReplaceItem(items[n], i, v)) \in 1 .. LeafSize
    BY ONLY <2>2, <2>3, <2>4, i \in 0 .. LeafSize
  <2> QED  BY <2>1, <2>2, <2>4, <2>5, LeafReplaceShape
<1>3. CASE LeafErase(t, i)
  <2> DEFINE c == LeafCarry(i, Len(items[n]) - 1, rightMost[t])
  <2>1. PICK dst \in NodeId :
          /\ Rewrites(n, dst, {})
          /\ items' = [items EXCEPT ![dst] = EraseItem(items[n], i)]
          /\ Makes({dst}, 1)
          /\ refs' = CountedLeaf(n, dst, {})
          /\ CallReplace(t, Changed(n, dst), c)
    BY <1>3 DEF LeafErase
  <2>2. AtLeaf(t, {"erase", "pop_back"}) /\ LeavesLeaf(t)
        /\ Len(items[n]) > 1 /\ i <= Len(items[n])
    <3>1. ErasesAt(t, i) /\ AtLeaf(t, {"erase", "pop_back"}) /\ LeavesLeaf(t) /\ Len(items[n]) > 1
      BY <1>3 DEF LeafErase
    <3>2. Len(items[n]) \in Nat
      BY <3>1, LeafSized
    <3> QED  BY <3>1, <3>2 DEF ErasesAt
  <2>3. items[n] \in Seq(Values) /\ Len(items[n]) \in 0 .. LeafSize /\ LeafSize \in Nat
    BY <2>2, LeafSized
  <2>4. EraseItem(items[n], i) \in Seq(Values)
        /\ Len(EraseItem(items[n], i)) = Len(items[n]) - 1
    <3>1. i \in 0 .. Len(items[n]) /\ Len(items[n]) > 0
      BY <2>2, <2>3
    <3> QED  BY <2>3, <3>1, EraseItemProperties
  <2>5. Len(EraseItem(items[n], i)) \in 1 .. LeafSize
    BY ONLY <2>2, <2>3, <2>4
  <2> QED  BY <2>1, <2>2, <2>4, <2>5, LeafReplaceShape
<1>4. CASE LeafSplit(t, i, v)
  <2> DEFINE sp == LeafSplitPoint(i, rightMost[t])
             all == InsertItem(items[n], i, v)
  <2>1. PICK r \in NodeId, dst \in NodeId :
          /\ Allocates(r, {})
          /\ Rewrites(n, dst, {r})
          /\ items' = [items EXCEPT ![dst] = LeftPart(all, sp), ![r] = RightPart(all, sp)]
          /\ Makes({dst, r}, 1)
          /\ refs' = CountedLeaf(n, dst, {r})
          /\ CallSplit(t, Changed(n, dst), r, i < sp)
    BY <1>4 DEF LeafSplit
  <2>2. AtLeaf(t, Inserting) /\ LeavesLeaf(t) /\ Len(items[n]) = LeafSize
    BY <1>4 DEF LeafSplit
  <2>3. /\ Len(LeftPart(all, sp)) \in 1 .. LeafSize
        /\ Len(RightPart(all, sp)) \in 1 .. LeafSize
        /\ LeftPart(all, sp) \in Seq(Values) /\ RightPart(all, sp) \in Seq(Values)
    <3>1. items[n] \in Seq(Values) /\ rightMost[t] \in BOOLEAN /\ LeafSize \in Nat
      BY <2>2, LeafSized DEF MemInv, Memory, TypeOK, ControlOK
    <3>2. /\ Len(LeftPart(all, sp)) \in 1 .. LeafSize
          /\ Len(RightPart(all, sp)) \in 1 .. LeafSize
      BY <2>2, <3>1, LeafSplitFits
    <3>3. all \in Seq(Values) /\ Len(all) = LeafSize + 1
      BY <2>2, <3>1, InsertItemProperties
    <3>4. sp \in 1 .. LeafSize
      BY <3>1, LeafSplitPointRange
    <3> HIDE DEF all, sp
    <3>5. sp \in 0 .. Len(all)
      BY <3>1, <3>3, <3>4
    <3> QED  BY <3>2, <3>3, <3>5, SplitKeepsItems
  <2> HIDE DEF all, sp
  <2>4. PICK R : R = {r}
    OBVIOUS
  <2>5. R \subseteq FreeNodes /\ {dst} \cup R = {dst, r}
    BY <2>1, <2>4 DEF Allocates
  <2>6. /\ \A m \in NodeId \ ({dst} \cup R) : items'[m] = items[m]
        /\ \A m \in {dst} \cup R : items'[m] \in {LeftPart(all, sp), RightPart(all, sp)}
    BY <2>1, <2>5 DEF MemInv, Memory, TypeOK, NodesOK
  <2>7. \A m \in {dst} \cup R : items'[m] # <<>> /\ Len(items'[m]) <= LeafSize
    BY <2>3, <2>6, NotEmpty, NodeSizeAssumption
  <2>8. /\ pc' = [pc EXCEPT ![t] = "split"] /\ right' = [right EXCEPT ![t] = r]
        /\ ptr' = [ptr EXCEPT ![t] = Changed(n, dst)]
    BY <2>1 DEF CallSplit
  <2>9. Rewrites(n, dst, R) /\ Makes({dst} \cup R, 1) /\ refs' = CountedLeaf(n, dst, R) /\ r \in R
    BY <2>1, <2>4, <2>5
  <2> QED  BY <2>2, <2>5, <2>6, <2>7, <2>8, <2>9, LeafShape
<1>5. CASE LeafEraseOnly(t, i)
  <2>1. /\ UNCHANGED <<items, depth, refs, root, stack, ptr, right>>
        /\ pc' = [pc EXCEPT ![t] = "erase"] /\ Waits(t) /\ pc[t] = "descend"
    BY <1>5 DEF LeafEraseOnly, CallErase, LeavesLeaf, AtLeaf, nodes, chores, Waits, MemInv,
                Memory, TypeOK, ControlOK
  <2>2. Firm(t)'
    <3>1. Firm(t) /\ pc'[t] = "erase" /\ right[t] = Nil
      BY <2>1 DEF ShapeInv, MemInv, Memory, TypeOK, ControlOK, Threads, Results
    <3> QED  BY <2>1, <3>1 DEF Firm, Chain, Collapsible
  <2> QED  BY <2>1, <2>2, QuietShape
<1> QED
  BY <1>1, <1>2, <1>3, <1>4, <1>5 DEF LeafStep

-----------------------------------------------------------------------------
(* The inner nodes *)

\* The arrays that are written have only children that were there, the child's
\* new version and its right half.
Below(t, n, s) ==
    /\ s # <<>> /\ Len(s) <= InternalSize
    /\ \A c \in Content(s) :
         c \in NodeId /\ (c \in Children(n) \/ c = ptr[t] \/ c = right[t])

\* A continuation of an inner node is through.
LEMMA InnerShape ==
    ASSUME NEW owner, MemInv(owner), MemoryInv', ShapeInv, NEW t \in Transients,
           NEW phase \in {"replace", "split", "erase"}, AtNode(t, phase),
           NEW n, n = Frame(t).node, NEW R, NEW dst, NEW K, Rewritten(n, dst, R, K),
           \A m \in {dst} \cup R : Below(t, n, items'[m]),
           Pops(t), UNCHANGED root, Waits(t), ptr'[t] = Changed(n, dst),
           \/ pc'[t] = "replace" /\ right'[t] = Nil
           \/ pc'[t] = "split" /\ right'[t] \in R /\ Len(items'[dst]) # 1
    PROVE  ShapeInv'
<1>0. /\ Memory /\ Results(t) /\ Path(t) /\ pc[t] = phase /\ stack[t] # <<>>
      /\ root[t] \in NodeId /\ n \in NodeId /\ refs[n] > 0 /\ Sees(owner, t, n)
      /\ Frame(t) = stack[t][Len(stack[t])] /\ Len(stack[t]) \in Nat \ {0}
      /\ depth[n] = depth[root[t]] - Len(stack[t]) + 1
  BY FrameHeld
<1>1. /\ \A c \in Children(n) : c \in NodeId /\ refs[c] > 0 /\ depth[n] = depth[c] + 1
      /\ \A c \in NodeId : c = ptr[t] \/ c = right[t] =>
           refs[c] = 1 /\ depth[n] = depth[c] + 1
      /\ phase = "erase" => ptr[t] = Nil
      /\ depth[n] \in Nat /\ depth[n] > 1
  BY InnerHeld
<1>2. Firm(t) /\ Formed(n)
  BY <1>0 DEF ShapeInv, Shaped
<1>3. refs[root[t]] > 0 /\ ~Chain(root[t])
  <2>1. Placed(root[t])
    BY <1>0, PathPlaced, NodePointer
  <2> QED  BY <1>0, <1>2, <2>1, AliveNow DEF Firm
<1>4. Sized(n, dst, R)
  <2>1. Capacity(depth[n]) = InternalSize
    BY <1>1 DEF Capacity
  <2>2. ASSUME NEW m \in {dst} \cup R, NEW c \in Children(m)'
        PROVE  c \in NodeId /\ refs[c] > 0 /\ items[c] # <<>> /\ c # n
    <3>1. c \in Content(items'[m])
      BY <2>2 DEF Children, Content
    <3>2. c \in NodeId /\ (c \in Children(n) \/ c = ptr[t] \/ c = right[t])
      BY <3>1 DEF Below
    <3>3. refs[c] > 0 /\ depth[n] = depth[c] + 1
      BY <1>1, <3>2
    <3>4. depth[c] \in Nat
      BY <1>0, <3>2 DEF Memory, TypeOK, NodesOK
    <3>5. c # n
      BY <1>1, <3>3, <3>4
    <3>6. items[c] # <<>>
      BY <1>0, <1>1, <1>2, <3>2, NodePointer DEF Formed, Firm
    <3> QED  BY <3>2, <3>3, <3>5, <3>6
  <2> QED  BY <2>1, <2>2 DEF Sized, Below
<1>5. Called(t, n, dst, R)
  <2>1. Len(stack'[t]) = Len(stack[t]) - 1
    BY <1>0, PoppedFrames
  <2>2. stack'[t] = <<>> => root[t] = n
    <3>1. stack'[t] = <<>> => Len(stack[t]) = 1
      BY <1>0, <2>1
    <3> QED  BY <1>0, <3>1 DEF Path
  <2>3. stack'[t] # <<>> => Len(stack[t]) # 1
    BY <1>0, PoppedFrames
  <2>4. depth[root[t]] \in Nat
    BY <1>0 DEF Memory, TypeOK, NodesOK
  <2>5. stack'[t] # <<>> => depth[n] # depth[root[t]]
    <3>1. ASSUME NEW d \in Nat, NEW k \in Nat, k # 1 PROVE d - k + 1 # d
      BY <3>1
    <3> QED  BY <1>0, <2>3, <2>4, <3>1
  <2> QED  BY <2>2, <2>5 DEF Called
<1> QED
  BY <1>0, <1>3, <1>4, <1>5, ClimbShape

\* One that does not split.
LEMMA InnerReplaceShape ==
    ASSUME NEW owner, MemInv(owner), MemoryInv', ShapeInv, NEW t \in Transients,
           NEW phase \in {"replace", "split", "erase"}, AtNode(t, phase),
           NEW n, n = Frame(t).node, NEW K, K \subseteq Children(n),
           NEW dst \in NodeId, Rewrites(n, dst, {}), Makes({dst}, depth[n]),
           NEW new, items' = [items EXCEPT ![dst] = new], Below(t, n, new),
           refs' = IF persistent[n] THEN Counted({dst}, K) ELSE Counted({}, {}),
           NEW c, CallReplace(t, Changed(n, dst), c),
           \A u \in Transients \ {t} : at'[u] = at[u],
           NEW p, Drops(t, p), Pops(t), UNCHANGED <<root, rightMost, dying, marking>>
    PROVE  ShapeInv'
<1>1. PICK R : R = {}
  OBVIOUS
<1>2. R \subseteq FreeNodes /\ {dst} \cup R = {dst}
  BY <1>1
<1>3. /\ \A m \in NodeId \ {dst} : items'[m] = items[m]
      /\ items'[dst] = new
  BY DEF MemInv, Memory, TypeOK, NodesOK
<1>4. Rewritten(n, dst, R, K)
  BY <1>1, <1>2, <1>3 DEF Rewritten
<1>5. \A m \in {dst} \cup R : Below(t, n, items'[m])
  BY <1>2, <1>3
<1>6. /\ Waits(t) /\ UNCHANGED root /\ ptr'[t] = Changed(n, dst)
      /\ pc'[t] = "replace" /\ right'[t] = Nil
  BY DEF CallReplace, Drops, Pops, Waits, MemInv, Memory, TypeOK, ControlOK, ResultOK, ChoresOK
<1> QED
  BY <1>4, <1>5, <1>6, InnerShape

\* The inner node a thread is at is alive and within its capacity.
LEMMA InnerSized ==
    ASSUME NEW owner, MemInv(owner), ShapeInv, NEW t \in Transients, NEW phase,
           AtNode(t, phase), NEW n, n = Frame(t).node
    PROVE  Len(items[n]) <= InternalSize /\ InternalSize \in Nat /\ Formed(n)
<1>1. n \in NodeId /\ refs[n] > 0 /\ depth[n] > 1
  BY FrameHeld DEF AtNode
<1>2. Formed(n)
  BY <1>1 DEF ShapeInv, Shaped
<1> QED
  BY <1>1, <1>2, NodeSizeAssumption DEF Formed, Capacity

\* InternalNode::replace.
LEMMA InternalReplaceShape ==
    ASSUME NEW owner, MemInv(owner), MemoryInv', ShapeInv, NEW t \in Transients,
           InternalReplace(t)
    PROVE  ShapeInv'
<1>0. PICK n, i : n = Frame(t).node /\ i = Frame(t).index
  OBVIOUS
<1>1. PICK new : new = IF ptr[t] = Nil THEN items[n] ELSE ReplaceItem(items[n], i, ptr[t])
  OBVIOUS
<1>2. /\ AtNode(t, "replace") /\ Pops(t) /\ Drops(t, Replaced(t, n, i))
      /\ UNCHANGED <<root, rightMost, at, dying, marking>>
  BY <1>0 DEF InternalReplace, trees
<1>3. PICK dst \in NodeId :
          /\ Rewrites(n, dst, {}) /\ items' = [items EXCEPT ![dst] = new]
          /\ Makes({dst}, depth[n])
          /\ refs' = IF ptr[t] = Nil /\ persistent[n]
                       THEN Counted({dst}, Children(n))
                       ELSE CountedCopy(n, dst, i, {})
          /\ \E c : CallReplace(t, Changed(n, dst), c)
  BY <1>0, <1>1 DEF InternalReplace
<1>4. /\ items[n] \in Seq(NodeId) /\ Len(items[n]) \in Nat /\ i \in 0 .. Len(items[n]) - 1
      /\ Children(n) = Content(items[n]) /\ Distinct(items[n])
      /\ Others(items[n], i) = Children(n) \ {FrameItem(t)}
      /\ \A m \in Children(n) : m \in NodeId /\ m # ptr[t]
  BY <1>0, <1>2, FrameItems
<1>5. {dst} \cup {} = {dst}
  OBVIOUS
<1>6. PICK K : K = IF ptr[t] = Nil THEN Children(n) ELSE OtherChildren(n, i)
  OBVIOUS
<1>7. K \subseteq Children(n)
      /\ refs' = IF persistent[n] THEN Counted({dst}, K) ELSE Counted({}, {})
  <2>1. K \subseteq Children(n)
    BY <1>4, <1>6 DEF OtherChildren, Content
  <2> QED  BY <1>3, <1>5, <1>6, <2>1 DEF CountedCopy
<1>8. Below(t, n, new)
  <2>1. /\ Len(items[n]) <= InternalSize /\ InternalSize \in Nat /\ items[n] # <<>>
    BY <1>0, <1>2, InnerSized, FrameHeld DEF Formed, AtNode
  <2>2. CASE ptr[t] = Nil
    BY <1>1, <1>4, <2>1, <2>2 DEF Below
  <2>3. CASE ptr[t] # Nil
    <3>1. ptr[t] \in NodeId
      BY <2>3 DEF MemInv, Memory, TypeOK, ResultOK, Pointer
    <3>2. new \in Seq(NodeId) /\ Len(new) = Len(items[n])
      <4>1. PICK s, e : s = items[n] /\ e = ptr[t]
        OBVIOUS
      <4>2. s \in Seq(NodeId) /\ i \in 0 .. Len(s) - 1 /\ e \in NodeId
        BY <1>4, <3>1, <4>1
      <4>3. ReplaceItem(s, i, e) \in Seq(NodeId)
        BY <4>2, ReplaceItemProperties
      <4>4. Len(ReplaceItem(s, i, e)) = Len(s)
        BY <4>2, ReplaceItemProperties
      <4> QED  BY <1>1, <2>3, <4>1, <4>3, <4>4
    <3>3. Content(new) = Others(items[n], i) \cup {ptr[t]}
      BY <1>1, <1>4, <2>3, <3>1, ReplaceContent
    <3>4. new # <<>>
      BY <1>4, <3>2
    <3> QED  BY <1>4, <2>1, <3>1, <3>2, <3>3, <3>4 DEF Below
  <2> QED  BY <2>2, <2>3
<1>9. "replace" \in {"replace", "split", "erase"} /\ \A u \in Transients \ {t} : at'[u] = at[u]
  BY <1>2
<1> QED
  BY <1>0, <1>2, <1>3, <1>7, <1>8, <1>9, InnerReplaceShape

\* InternalNode::insert with room for the right half.
LEMMA InternalInsertShape ==
    ASSUME NEW owner, MemInv(owner), MemoryInv', ShapeInv, NEW t \in Transients,
           InternalInsert(t)
    PROVE  ShapeInv'
<1>0. PICK n, i, lost, K, all : SplitOf(t, n, i, lost, K, all)
  BY DEF SplitOf
<1>1. /\ n = Frame(t).node /\ i = Frame(t).index
      /\ all = SplitChild(items[n], i, SplitLeft(t, n, i), right[t])
      /\ K \subseteq Children(n)
  BY <1>0 DEF SplitOf
<1>2. /\ AtNode(t, "split") /\ Pops(t) /\ Drops(t, Replaced(t, n, i))
      /\ Len(items[n]) # InternalSize
      /\ UNCHANGED <<root, rightMost, at, dying, marking>>
  BY <1>1 DEF InternalInsert, trees
<1>3. PICK dst \in NodeId :
          /\ Rewrites(n, dst, {}) /\ items' = [items EXCEPT ![dst] = all]
          /\ Makes({dst}, depth[n])
          /\ refs' = CountedCopy(n, dst, i, {})
          /\ CallReplace(t, Changed(n, dst), FALSE)
  BY <1>1 DEF InternalInsert
<1>4. /\ all \in Seq(NodeId) /\ Len(all) = Len(items[n]) + 1
      /\ \A m \in NodeId : m \in Content(all) <=> m \in K \/ m = ptr[t] \/ m = right[t]
      /\ K = OtherChildren(n, i) \/ ~persistent[n]
  BY <1>0, <1>2, SplitHeld
<1>5. refs' = IF persistent[n] THEN Counted({dst}, K) ELSE Counted({}, {})
  <2>1. {dst} \cup {} = {dst}
    OBVIOUS
  <2> QED  BY <1>3, <1>4, <2>1 DEF CountedCopy
<1>6. Below(t, n, all)
  <2>1. Len(items[n]) <= InternalSize /\ InternalSize \in Nat
    BY <1>1, <1>2, InnerSized
  <2>2. Len(items[n]) \in Nat
    BY <1>1, <1>2, FrameItems
  <2>3. all # <<>> /\ Len(all) <= InternalSize
    BY <1>2, <1>4, <2>1, <2>2
  <2>4. \A c \in Content(all) : c \in NodeId
    BY <1>4, ElementOfSeq DEF Content
  <2> QED  BY <1>1, <1>4, <2>3, <2>4 DEF Below
<1>7. "split" \in {"replace", "split", "erase"} /\ \A u \in Transients \ {t} : at'[u] = at[u]
  BY <1>2
<1> QED
  BY <1>1, <1>2, <1>3, <1>5, <1>6, <1>7, InnerReplaceShape

\* InternalNode::erase.
LEMMA InternalEraseShape ==
    ASSUME NEW owner, MemInv(owner), MemoryInv', ShapeInv, NEW t \in Transients,
           InternalErase(t)
    PROVE  ShapeInv'
<1>0. PICK n, i : n = Frame(t).node /\ i = Frame(t).index
  OBVIOUS
<1>1. PICK new : new = EraseItem(items[n], i)
  OBVIOUS
<1>2. /\ AtNode(t, "erase") /\ Pops(t) /\ Drops(t, Overwritten(n, i)) /\ Len(items[n]) > 1
      /\ UNCHANGED <<root, rightMost, dying, marking>>
  BY <1>0 DEF InternalErase, trees
<1>3. PICK dst \in NodeId :
          /\ Rewrites(n, dst, {}) /\ items' = [items EXCEPT ![dst] = new]
          /\ Makes({dst}, depth[n])
          /\ refs' = CountedCopy(n, dst, i, {})
          /\ \E c : CallReplace(t, Changed(n, dst), c)
          /\ \E p : at' = [at EXCEPT ![t] = p]
  BY <1>0, <1>1 DEF InternalErase
<1>4. /\ items[n] \in Seq(NodeId) /\ Len(items[n]) \in Nat /\ i \in 0 .. Len(items[n]) - 1
      /\ Children(n) = Content(items[n]) /\ Distinct(items[n])
      /\ Others(items[n], i) = Children(n) \ {FrameItem(t)}
      /\ \A m \in Children(n) : m \in NodeId
  BY <1>0, <1>2, FrameItems
<1>5. {dst} \cup {} = {dst}
  OBVIOUS
<1>6. PICK K : K = OtherChildren(n, i)
  OBVIOUS
<1>7. K \subseteq Children(n)
      /\ refs' = IF persistent[n] THEN Counted({dst}, K) ELSE Counted({}, {})
  <2>1. K \subseteq Children(n)
    BY <1>4, <1>6 DEF OtherChildren, Content
  <2> QED  BY <1>3, <1>5, <1>6, <2>1 DEF CountedCopy
<1>8. Below(t, n, new)
  <2>1. Len(items[n]) <= InternalSize /\ InternalSize \in Nat
    BY <1>0, <1>2, InnerSized
  <2>2. new \in Seq(NodeId) /\ Len(new) = Len(items[n]) - 1
    <3>1. items[n] \in Seq(NodeId) /\ i \in 0 .. Len(items[n]) /\ Len(items[n]) > 0
      BY ONLY <1>4
    <3> QED  BY ONLY <1>1, <3>1, EraseItemProperties, ZenonT(30)
  <2>3. Content(new) = Others(items[n], i)
    BY <1>1, <1>4, EraseContent
  <2>4. new # <<>> /\ Len(new) <= InternalSize
    BY <1>2, <1>4, <2>1, <2>2
  <2> QED  BY <1>4, <2>3, <2>4 DEF Below
<1>9. "erase" \in {"replace", "split", "erase"} /\ \A u \in Transients \ {t} : at'[u] = at[u]
  BY <1>3 DEF MemInv, Memory, TypeOK, ControlOK
<1> QED
  BY <1>0, <1>2, <1>3, <1>7, <1>8, <1>9, InnerReplaceShape

\* The left part of a full inner node has two children at least.
LEMMA LeftPartLong ==
    ASSUME NEW i \in Nat, NEW edge
    PROVE  InternalSplitPoint(i, edge) > 1
<1>1. InternalSize \in Nat /\ InternalSize >= 4
  BY NodeSizeAssumption
<1>2. (InternalSize + 1) \div 2 > 1
  BY <1>1, SMTT(30)
<1>3. i + 1 = InternalSize => i + 1 > 1
  BY <1>1
<1> QED
  BY <1>2, <1>3 DEF InternalSplitPoint

\* InternalNode::insert in a full node.
LEMMA InternalSplitShape ==
    ASSUME NEW owner, MemInv(owner), MemoryInv', ShapeInv, NEW t \in Transients,
           InternalSplit(t)
    PROVE  ShapeInv'
<1>0. PICK n, i, lost, K, all : SplitOf(t, n, i, lost, K, all)
  BY DEF SplitOf
<1>1. /\ n = Frame(t).node /\ i = Frame(t).index
      /\ all = SplitChild(items[n], i, SplitLeft(t, n, i), right[t])
      /\ K \subseteq Children(n)
  BY <1>0 DEF SplitOf
<1>2. PICK sp : sp = InternalSplitPoint(i, Frame(t).rightMost)
  OBVIOUS
<1>3. /\ AtNode(t, "split") /\ Pops(t) /\ Drops(t, Replaced(t, n, i))
      /\ Len(items[n]) = InternalSize
      /\ UNCHANGED <<root, rightMost, at, dying, marking>>
  BY <1>1 DEF InternalSplit, trees
<1>4. PICK r \in NodeId, dst \in NodeId :
          /\ Allocates(r, {}) /\ Rewrites(n, dst, {r})
          /\ items' = [items EXCEPT ![dst] = LeftPart(all, sp), ![r] = RightPart(all, sp)]
          /\ Makes({dst, r}, depth[n])
          /\ refs' = CountedCopy(n, dst, i, {r})
          /\ \E inLeft : CallSplit(t, Changed(n, dst), r, inLeft)
  BY <1>1, <1>2 DEF InternalSplit
<1>5. PICK R : R = {r}
  OBVIOUS
<1>6. R \subseteq FreeNodes /\ {dst} \cup R = {dst, r}
  BY <1>4, <1>5 DEF Allocates
<1>7. /\ all \in Seq(NodeId) /\ Len(all) = Len(items[n]) + 1 /\ Distinct(all)
      /\ \A m \in NodeId : m \in Content(all) <=> m \in K \/ m = ptr[t] \/ m = right[t]
      /\ K = OtherChildren(n, i) \/ ~persistent[n]
  BY <1>0, <1>3, SplitHeld
<1>8. /\ n \in NodeId /\ i \in 0 .. Len(items[n]) - 1 /\ Len(items[n]) \in Nat
      /\ refs[n] > 0 /\ Sees(owner, t, n)
  <2>1. n \in NodeId /\ i \in 0 .. Len(items[n]) - 1 /\ Len(items[n]) \in Nat
    BY <1>1, <1>3, FrameItems
  <2>2. refs[n] > 0 /\ Sees(owner, t, n)
    BY <1>1, <1>3, FrameHeld
  <2> QED  BY <2>1, <2>2
<1>9. InternalSize \in Nat /\ sp \in 1 .. InternalSize /\ sp > 1
  <2>1. Frame(t).rightMost \in BOOLEAN
    BY <1>3, FrameNode DEF MemInv, Memory
  <2>2. i \in 0 .. InternalSize - 1 /\ i \in Nat
    BY <1>3, <1>8
  <2>3. sp \in 1 .. InternalSize
    BY <1>2, <2>1, <2>2, InternalSplitPointRange
  <2> QED  BY <1>2, <2>2, <2>3, LeftPartLong, NodeSizeAssumption
<1>10. sp \in 0 .. Len(all)
  BY <1>3, <1>7, <1>9
<1>11. /\ Len(LeftPart(all, sp)) = sp /\ Len(RightPart(all, sp)) = Len(all) - sp
       /\ LeftPart(all, sp) \in Seq(NodeId) /\ RightPart(all, sp) \in Seq(NodeId)
  BY <1>7, <1>10, SplitKeepsItems
<1>12. /\ Content(LeftPart(all, sp)) \subseteq Content(all)
       /\ Content(RightPart(all, sp)) \subseteq Content(all)
  BY <1>7, <1>10, PartsContent
<1>13. dst # r
  BY <1>4, <1>8 DEF Allocates, FreeNodes, Rewrites
<1>14. /\ items'[dst] = LeftPart(all, sp) /\ items'[r] = RightPart(all, sp)
       /\ \A m \in NodeId \ ({dst} \cup R) : items'[m] = items[m]
  BY <1>4, <1>6, <1>13 DEF MemInv, Memory, TypeOK, NodesOK
<1>15. \A c \in Content(all) : c \in NodeId /\ (c \in Children(n) \/ c = ptr[t] \/ c = right[t])
  <2>1. \A c \in Content(all) : c \in NodeId
    BY <1>7, ElementOfSeq DEF Content
  <2> QED  BY <1>1, <1>7, <2>1
<1>16. Below(t, n, LeftPart(all, sp))
  <2>1. LeftPart(all, sp) # <<>> /\ Len(LeftPart(all, sp)) <= InternalSize
    BY <1>9, <1>11
  <2> QED  BY <1>12, <1>15, <2>1 DEF Below
<1>17. Below(t, n, RightPart(all, sp))
  <2>1. RightPart(all, sp) # <<>> /\ Len(RightPart(all, sp)) <= InternalSize
    BY <1>3, <1>7, <1>9, <1>11
  <2> QED  BY <1>12, <1>15, <2>1 DEF Below
<1>18. Rewritten(n, dst, R, K)
  <2>1. refs' = IF persistent[n] THEN Counted({dst} \cup R, K) ELSE Counted(R, {})
    BY <1>4, <1>5, <1>7 DEF CountedCopy
  <2> QED  BY <1>1, <1>4, <1>5, <1>6, <1>14, <2>1 DEF Rewritten
<1>19. \A m \in {dst} \cup R : Below(t, n, items'[m])
  BY <1>6, <1>14, <1>16, <1>17
<1>20. /\ Waits(t) /\ UNCHANGED root /\ ptr'[t] = Changed(n, dst)
       /\ pc'[t] = "split" /\ right'[t] \in R
  BY <1>3, <1>4, <1>5 DEF CallSplit, Drops, Pops, Waits, MemInv, Memory, TypeOK, ControlOK,
                          ResultOK, ChoresOK
<1>21. Len(items'[dst]) # 1
  <2>1. sp # 1
    BY <1>9
  <2> QED  BY <1>11, <1>14, <2>1
<1> QED
  BY <1>1, <1>3, <1>18, <1>19, <1>20, <1>21, InnerShape

-----------------------------------------------------------------------------
(* Steps that write to no node, and the tree object *)

\* A thread that goes on with its call, and has no result yet or keeps it.
LEMMA WalkShape ==
    ASSUME NEW owner, MemInv(owner), MemoryInv', ShapeInv, NEW t \in Transients,
           UNCHANGED <<items, depth, refs, root, ptr, right>>, Waits(t),
           pc[t] # "collapse", pc'[t] \notin {"split", "persist"},
           pc[t] = "replace" \/ pc'[t] = "replace" => pc'[t] = pc[t] /\ stack'[t] = stack[t]
    PROVE  ShapeInv'
<1>1. Firm(t)
  BY DEF ShapeInv
<1>2. Chain(root[t])' <=> Chain(root[t])
  BY DEF Chain, Collapsible
<1>3. Firm(t)'
  BY <1>1, <1>2 DEF Firm
<1> QED
  BY <1>3, QuietShape

\* The steps that only walk: no node changes.
LEMMA WalkStepShape ==
    ASSUME NEW owner, MemInv(owner), MemoryInv', ShapeInv, NEW t \in Transients,
           \/ \E name \in Operations : Begin(t, name)
           \/ \E i \in 0 .. InternalSize - 1 : Descend(t, i)
           \/ LeafKeep(t) \/ InternalEraseOnly(t) \/ SeekEnd(t) \/ Return(t)
    PROVE  ShapeInv'
<1>0. /\ pc \in [Transients -> PhaseSet] /\ at \in [Transients -> Pointer]
      /\ rightMost \in [Transients -> BOOLEAN] /\ stack \in [Transients -> Seq(FrameSet)]
  BY DEF MemInv, Memory, TypeOK, ControlOK
<1>1. CASE \E name \in Operations : Begin(t, name)
  <2>1. /\ UNCHANGED <<items, depth, refs, root, ptr, right>> /\ Waits(t)
        /\ pc[t] = "idle" /\ pc'[t] = "descend"
    BY <1>0, <1>1 DEF Begin, Resting, nodes, trees, result, chores, Waits
  <2> QED  BY <2>1, WalkShape
<1>2. CASE \E i \in 0 .. InternalSize - 1 : Descend(t, i)
  <2>1. /\ UNCHANGED <<items, depth, refs, root, ptr, right>> /\ Waits(t)
        /\ pc[t] = "descend" /\ pc'[t] = "descend"
    BY <1>0, <1>2 DEF Descend, nodes, trees, result, chores, Waits
  <2> QED  BY <2>1, WalkShape
<1>3. CASE LeafKeep(t)
  <2>1. /\ UNCHANGED <<items, depth, refs, root, ptr, right>> /\ Waits(t)
        /\ pc[t] = "descend" /\ pc'[t] = "done"
    BY <1>0, <1>3 DEF LeafKeep, AtLeaf, nodes, trees, result, chores, Waits
  <2> QED  BY <2>1, WalkShape
<1>4. CASE InternalEraseOnly(t)
  <2>1. /\ UNCHANGED <<items, depth, refs, root, ptr, right>> /\ Waits(t)
        /\ pc[t] = "erase" /\ pc'[t] = "erase"
    BY <1>0, <1>4 DEF InternalEraseOnly, CallErase, AtNode, Pops, nodes, trees, chores, Waits
  <2> QED  BY <2>1, WalkShape
<1>5. CASE SeekEnd(t)
  <2>1. UNCHANGED <<items, depth, refs, root, ptr, right, pc, stack>> /\ Waits(t)
        /\ pc[t] = "replace"
    BY <1>0, <1>5 DEF SeekEnd, Seeking, nodes, trees, chores, Waits
  <2> QED  BY <2>1, WalkShape
<1>6. CASE Return(t)
  <2>1. /\ UNCHANGED <<items, depth, refs, root, ptr, right>> /\ Waits(t)
        /\ pc[t] = "done" /\ pc'[t] = "idle"
    BY <1>0, <1>6 DEF Return, nodes, trees, chores, Waits
  <2> QED  BY <2>1, WalkShape
<1> QED
  BY <1>1, <1>2, <1>3, <1>4, <1>5, <1>6

\* A thread that holds no result is firm if its root is.
LEMMA FirmAlone ==
    ASSUME NEW t, pc'[t] \notin {"split", "persist"}, ptr'[t] = Nil, right'[t] = Nil,
           Chain(root[t])' => pc'[t] = "collapse"
    PROVE  Firm(t)'
  BY DEF Firm

\* No Persistent has another root when thread t has.
LEMMA PersistentRoots ==
    ASSUME Memory, NEW t \in Transients, NEW r, root' = [root EXCEPT ![t] = r]
    PROVE  /\ root'[t] = r
           /\ \A p \in Persistents : root'[p] = root[p]
           /\ \A u \in Transients \ {t} : root'[u] = root[u]
  BY TreeAssumption DEF Memory, TypeOK, TreesOK, Handle

\* The root becomes the new version, and may have one child left.
LEMMA RootReplaceShape ==
    ASSUME NEW owner, MemInv(owner), MemoryInv', ShapeInv, NEW t \in Transients,
           RootReplace(t)
    PROVE  ShapeInv'
<1>0. PICK new, phase :
        /\ new = IF ptr[t] = Nil THEN root[t] ELSE ptr[t]
        /\ phase = IF Collapsible(new, items[new]) THEN "collapse" ELSE "done"
  OBVIOUS
<1>1. /\ root' = [root EXCEPT ![t] = new] /\ \E p : Drops(t, p)
      /\ Complete(t, phase)
      /\ UNCHANGED <<items, depth, refs, at, rightMost, stack, dying, marking>>
  BY <1>0 DEF RootReplace, nodes
<1>2. Memory
  BY DEF MemInv
<1>3. /\ root'[t] = new /\ \A p \in Persistents : root'[p] = root[p]
      /\ pc'[t] = phase /\ ptr'[t] = Nil /\ right'[t] = Nil /\ Waits(t)
  BY <1>1, <1>2, PersistentRoots DEF Complete, Drops, Waits, Memory, TypeOK, ControlOK,
                                     ResultOK, ChoresOK
<1>4. Firm(t)'
  <2>1. Chain(root[t])' => Collapsible(new, items[new])
    BY <1>1, <1>3 DEF Chain, Collapsible
  <2> QED  BY <1>0, <1>3, <2>1, FirmAlone
<1> QED
  BY <1>1, <1>3, <1>4, QuietShape

\* A root with one child gives way to that child.
LEMMA CollapseShape ==
    ASSUME NEW owner, MemInv(owner), MemoryInv', ShapeInv, NEW t \in Transients,
           Collapse(t)
    PROVE  ShapeInv'
<1>0. PICK new, phase :
        /\ new = items[root[t]][1]
        /\ phase = IF Collapsible(new, items[new]) THEN "collapse" ELSE "done"
  OBVIOUS
<1>1. /\ pc[t] = "collapse" /\ ~Busy(t)
      /\ depth[root[t]] > 1 /\ Len(items[root[t]]) = 1
      /\ root' = [root EXCEPT ![t] = new] /\ \E p : Drops(t, p)
      /\ pc' = [pc EXCEPT ![t] = phase] /\ refs' = Counted({}, {new})
      /\ UNCHANGED <<items, depth, at, rightMost, stack, ptr, right, dying, marking>>
  BY <1>0 DEF Collapse, OnlyChild, Collapsible, result
<1>2. Memory /\ ptr[t] = Nil /\ right[t] = Nil
  BY <1>1, HandsEmpty
<1>3. /\ root'[t] = new /\ \A p \in Persistents : root'[p] = root[p]
      /\ pc'[t] = phase /\ ptr'[t] = Nil /\ right'[t] = Nil /\ Waits(t)
  BY <1>1, <1>2, PersistentRoots DEF Drops, Waits, Memory, TypeOK, ControlOK, ResultOK, ChoresOK
<1>4. Firm(t)'
  <2>1. Chain(root[t])' => Collapsible(new, items[new])
    BY <1>1, <1>3 DEF Chain, Collapsible
  <2> QED  BY <1>0, <1>3, <2>1, FirmAlone
<1>5. new \in NodeId => refs[new] > 0
  <2>1. new \in Children(root[t]) /\ root[t] \in NodeId
    BY <1>0, <1>1, <1>2, RootIsNode DEF Children, Memory
  <2> QED  BY <1>2, <2>1, AliveNow DEF Placed
<1>6. \A n \in NodeId : refs'[n] > 0 => refs[n] > 0
  BY <1>1, <1>5 DEF Counted
<1> QED
  BY <1>1, <1>3, <1>4, <1>6, QuietShape

\* Thread t has a new root r, which is an empty leaf or has two children.
LEMMA NewRootShape ==
    ASSUME NEW owner, MemInv(owner), MemoryInv', ShapeInv, NEW t \in Transients,
           NEW r \in NodeId, NEW new, NEW d, Allocates(r, {}),
           items' = [items EXCEPT ![r] = new], Makes({r}, d), refs' = Counted({r}, {}),
           root' = [root EXCEPT ![t] = r], Waits(t), pc'[t] \in {"done", "idle"},
           ptr'[t] = Nil, right'[t] = Nil,
           \/ d = 1 /\ new = <<>>
           \/ d > 1 /\ Len(new) = 2 /\ \A k \in 1 .. 2 :
                new[k] \in NodeId /\ refs[new[k]] > 0 /\ items[new[k]] # <<>>
    PROVE  ShapeInv'
<1>0. Memory /\ r \in FreeNodes /\ refs[r] = 0 /\ ~Placed(r)
  <2>1. Memory /\ r \in FreeNodes
    BY DEF MemInv, Allocates
  <2> QED  BY <2>1, FreeFacts
<1>1. /\ items'[r] = new /\ depth'[r] = d
      /\ \A n \in NodeId \ {r} : items'[n] = items[n] /\ depth'[n] = depth[n]
  BY <1>0 DEF Makes, Memory, TypeOK, NodesOK
<1>2. root'[t] = r /\ \A p \in Persistents : root'[p] = root[p]
  BY <1>0, PersistentRoots
<1>3. Alters(owner, t, {r})
  BY <1>0, <1>1 DEF Alters, Counted
<1>4. Formed(r)'
  <2>1. CASE d = 1 /\ new = <<>>
    BY <1>1, <2>1, NodeSizeAssumption DEF Formed, Capacity
  <2>2. CASE d > 1 /\ Len(new) = 2 /\ \A k \in 1 .. 2 :
               new[k] \in NodeId /\ refs[new[k]] > 0 /\ items[new[k]] # <<>>
    <3>1. d # 1 /\ Capacity(d) = InternalSize /\ 2 <= InternalSize
      BY <2>2, NodeSizeAssumption DEF Capacity
    <3>2. Children(r)' = {new[k] : k \in 1 .. 2}
      <4>1. Children(r)' = {new[k] : k \in 1 .. Len(new)}
        BY <1>1, <3>1 DEF Children
      <4> QED  BY <2>2, <4>1
    <3>3. \A m \in Children(r)' : items'[m] # <<>>
      <4> SUFFICES ASSUME NEW k \in 1 .. 2 PROVE items'[new[k]] # <<>>
        BY <3>2
      <4>1. new[k] \in NodeId /\ new[k] # r /\ items[new[k]] # <<>>
        BY <1>0, <2>2
      <4> QED  BY <1>1, <4>1
    <3>4. Len(items'[r]) <= Capacity(depth'[r]) /\ items'[r] # <<>>
      <4>1. Len(new) = 2 /\ items'[r] = new /\ depth'[r] = d
        BY <1>1, <2>2
      <4> QED  BY ONLY <3>1, <4>1
    <3> QED  BY <3>3, <3>4 DEF Formed
  <2> QED  BY <2>1, <2>2
<1>5. Firm(t)'
  <2>1. ~Chain(root[t])'
    BY <1>1, <1>2 DEF Chain, Collapsible
  <2> QED  BY <2>1, FirmAlone
<1> QED
  BY <1>2, <1>3, <1>4, <1>5, ShapeStep

\* A new root above the two halves, neither of which is empty.
LEMMA RootSplitShape ==
    ASSUME NEW owner, MemInv(owner), MemoryInv', ShapeInv, NEW t \in Transients,
           RootSplit(t)
    PROVE  ShapeInv'
<1>0. PICK left : left = IF ptr[t] = Nil THEN root[t] ELSE ptr[t]
  OBVIOUS
<1>1. PICK r \in NodeId :
         /\ Allocates(r, {})
         /\ items' = [items EXCEPT ![r] = <<left, right[t]>>]
         /\ Makes({r}, depth[root[t]] + 1)
         /\ refs' = Counted({r}, {})
         /\ root' = [root EXCEPT ![t] = r]
  BY <1>0 DEF RootSplit
<1>2. /\ pc[t] = "split" /\ ~Busy(t) /\ stack[t] = <<>>
      /\ \E p : Drops(t, p) /\ Complete(t, "done")
      /\ UNCHANGED <<at, rightMost, stack, dying, marking>>
  BY DEF RootSplit, AtRoot
<1>3. Memory /\ Firm(t)
  BY DEF MemInv, ShapeInv
<1>4. pc'[t] = "done" /\ ptr'[t] = Nil /\ right'[t] = Nil /\ Waits(t)
  BY <1>1, <1>2, <1>3, PersistentRoots DEF Complete, Drops, Waits, Memory, TypeOK, ControlOK,
                                           ResultOK, ChoresOK
<1>5. root[t] \in NodeId /\ right[t] \in NodeId /\ left \in NodeId /\ t \in Handle
      /\ depth[root[t]] \in Nat \ {0}
  <2>1. root[t] \in NodeId
    BY <1>2, <1>3, RootIsNode DEF Memory
  <2> QED
    BY <1>0, <1>2, <1>3, <2>1 DEF Memory, TypeOK, NodesOK, ResultOK, PhaseOK, Pointer, Handle
<1>6. /\ refs[left] > 0 /\ items[left] # <<>>
      /\ refs[right[t]] > 0 /\ items[right[t]] # <<>>
  <2>1. refs[left] > 0 /\ refs[right[t]] > 0
    BY <1>0, <1>3, <1>5, AliveNow DEF Placed
  <2> QED  BY <1>0, <1>2, <1>3, <1>5, <2>1, NodePointer DEF Firm
<1>7. PICK new, d : new = <<left, right[t]>> /\ d = depth[root[t]] + 1
  OBVIOUS
<1>8. d > 1 /\ Len(new) = 2 /\ \A k \in 1 .. 2 :
        new[k] \in NodeId /\ refs[new[k]] > 0 /\ items[new[k]] # <<>>
  BY <1>5, <1>6, <1>7
<1> QED
  BY <1>1, <1>4, <1>7, <1>8, NewRootShape

\* The last element goes, or the tree is new or cleared: an empty leaf.
LEMMA EmptyRootShape ==
    ASSUME NEW owner, MemInv(owner), MemoryInv', ShapeInv, NEW t \in Transients,
           RootErase(t) \/ (Resting(t) /\ Empties(t))
    PROVE  ShapeInv'
<1>0. Memory
  BY DEF MemInv
<1>1. PICK r \in NodeId :
         /\ Allocates(r, {})
         /\ items' = [items EXCEPT ![r] = <<>>]
         /\ Makes({r}, 1)
         /\ refs' = Counted({r}, {})
         /\ root' = [root EXCEPT ![t] = r]
  BY DEF RootErase, Empties
<1>2. pc'[t] \in {"done", "idle"} /\ ptr'[t] = Nil /\ right'[t] = Nil /\ Waits(t)
  <2>1. CASE RootErase(t)
    BY <1>0, <1>1, <2>1, PersistentRoots DEF RootErase, Complete, Drops, Waits, Memory, TypeOK,
                                             ControlOK, ResultOK, ChoresOK
  <2>2. CASE Resting(t) /\ Empties(t)
    <3>1. ptr[t] = Nil /\ right[t] = Nil /\ pc[t] = "idle"
      BY <2>2, HandsEmpty DEF Resting
    <3> QED
      BY <1>0, <1>1, <2>2, <3>1, PersistentRoots DEF Empties, control, result, Drops, Waits,
         Memory, TypeOK, ControlOK, ResultOK, ChoresOK
  <2> QED  BY <2>1, <2>2
<1>3. PICK new : new = <<>>
  OBVIOUS
<1>4. items' = [items EXCEPT ![r] = new]
  BY <1>1, <1>3
<1> QED
  BY <1>1, <1>2, <1>3, <1>4, NewRootShape

\* A tree at its depth limit drops the halves, and keeps its root.
LEMMA DiscardShape ==
    ASSUME NEW owner, MemInv(owner), MemoryInv', ShapeInv, NEW t \in Transients,
           RootSplitTooDeep(t) \/ DiscardLeft(t)
    PROVE  ShapeInv'
<1>0. Memory /\ Firm(t) /\ Results(t)
  BY DEF MemInv, Threads, ShapeInv
<1>1. /\ UNCHANGED <<items, depth, refs, root>> /\ Waits(t)
      /\ pc[t] \in {"split", "discard"} /\ pc'[t] \in {"discard", "done"} /\ right'[t] = Nil
  <2>1. CASE RootSplitTooDeep(t)
    BY <1>0, <2>1 DEF RootSplitTooDeep, AtRoot, nodes, trees, Drops, Waits, Memory, TypeOK,
                      ControlOK, ResultOK, ChoresOK
  <2>2. CASE DiscardLeft(t)
    BY <1>0, <2>2 DEF DiscardLeft, AtRoot, nodes, trees, Complete, Drops, Waits, Memory, TypeOK,
                      ControlOK, ResultOK, ChoresOK
  <2> QED  BY <2>1, <2>2
<1>2. Firm(t)'
  <2>1. ~Chain(root[t])'
    BY <1>0, <1>1 DEF Firm, Chain, Collapsible
  <2> QED  BY <1>1, <2>1 DEF Firm
<1> QED
  BY <1>1, <1>2, QuietShape

-----------------------------------------------------------------------------
(* The objects *)

\* persistent(): the root that is to be marked is no chain, as the thread was at rest.
LEMMA PersistShape ==
    ASSUME NEW owner, MemInv(owner), MemoryInv', ShapeInv, NEW t \in Transients,
           Persist(t) \/ PersistMove(t)
    PROVE  ShapeInv'
<1> DEFINE r == root[t]
<1>0. /\ pc[t] = "idle" /\ ~Busy(t) /\ r # Nil
      /\ ptr' = [ptr EXCEPT ![t] = r]
      /\ marking' = [marking EXCEPT ![t] = <<r>>]
      /\ pc' = [pc EXCEPT ![t] = "persist"]
      /\ UNCHANGED <<items, depth, persistent, at, rightMost, stack, right, drop, dying>>
  BY DEF Persist, PersistMove, StartsMarking, Resting
<1>1. Memory /\ right[t] = Nil /\ Firm(t)
  BY <1>0, HandsEmpty DEF ShapeInv
<1>2. \/ refs' = Counted({}, {r}) /\ root' = root
      \/ refs' = refs /\ root' = [root EXCEPT ![t] = Nil]
  BY DEF Persist, PersistMove
<1>3. /\ root'[t] \in {r, Nil} /\ \A p \in Persistents : root'[p] = root[p]
      /\ \A u \in Transients \ {t} : root'[u] = root[u]
  BY <1>1, <1>2, PersistentRoots
<1>4. pc'[t] = "persist" /\ ptr'[t] = r /\ right'[t] = Nil /\ Waits(t)
  BY <1>0, <1>1, <1>3 DEF Waits, Memory, TypeOK, ControlOK, ResultOK, ChoresOK
<1>5. \A n \in NodeId : refs'[n] > 0 => refs[n] > 0
  <2>1. r \in NodeId => refs[r] > 0
    BY <1>1, AliveNow DEF Placed, Handle
  <2> QED  BY <1>2, <2>1 DEF Counted
<1>6. Firm(t)'
  <2>1. ~Chain(r)
    BY <1>0, <1>1 DEF Firm
  <2>2. ~Chain(ptr[t])' /\ ~Chain(root[t])'
    BY <1>0, <1>3, <1>4, <2>1 DEF Chain, Collapsible
  <2> QED  BY <1>4, <2>2 DEF Firm
<1> QED
  BY <1>0, <1>3, <1>4, <1>5, <1>6, QuietShape

\* Marking changes no node's items, and the object takes the root that was marked.
LEMMA MakePersistentShape ==
    ASSUME NEW owner, MemInv(owner), MemoryInv', ShapeInv, NEW t \in Transients,
           MakePersistent(t)
    PROVE  ShapeInv'
<1>0. Memory /\ Firm(t) /\ Results(t)
  BY DEF MemInv, Threads, ShapeInv
<1>1. CASE Mark(t)
  <2>1. /\ UNCHANGED <<items, depth, refs, root, pc, stack, ptr, right>> /\ Waits(t)
    BY <1>0, <1>1 DEF Mark, trees, control, result, Waits, Memory, TypeOK, ChoresOK
  <2>2. Firm(t)'
    BY <1>0, <2>1 DEF Firm, Chain, Collapsible
  <2> QED  BY <2>1, <2>2, QuietShape
<1>2. CASE \E p \in Persistents : Publish(t, p)
  <2>1. PICK p \in Persistents : Publish(t, p)
    BY <1>2
  <2>2. /\ pc[t] = "persist" /\ root' = [root EXCEPT ![p] = ptr[t]]
        /\ ptr' = [ptr EXCEPT ![t] = Nil] /\ pc' = [pc EXCEPT ![t] = "idle"]
        /\ drop' = [drop EXCEPT ![t] = root[p]]
        /\ UNCHANGED <<items, depth, refs, at, rightMost, stack, right, dying, marking>>
    BY <2>1 DEF Publish, Drops, nodes
  <2>3. /\ p \in Handle /\ \A u \in Transients : root'[u] = root[u]
        /\ \A q \in Persistents : root'[q] = root[q] \/ root'[q] = ptr[t]
    BY <1>0, <2>2, TreeAssumption DEF Memory, TypeOK, TreesOK, Handle
  <2>4. pc'[t] = "idle" /\ ptr'[t] = Nil /\ right'[t] = Nil /\ Waits(t)
    BY <1>0, <2>2, <2>3 DEF Waits, Memory, TypeOK, ControlOK, ResultOK, ChoresOK, Results
  <2>5. ~Chain(ptr[t]) /\ ~Chain(root[t])
    BY <1>0, <2>2 DEF Firm
  <2>6. Firm(t)'
    <3>1. ~Chain(root[t])'
      BY <2>2, <2>3, <2>5 DEF Chain, Collapsible
    <3> QED  BY <2>4, <3>1, FirmAlone
  <2>7. \A q \in Persistents : root'[q] # root[q] => ~Chain(root[q])'
    BY <2>2, <2>3, <2>5 DEF Chain, Collapsible
  <2> QED  BY <2>2, <2>4, <2>6, <2>7, QuietShape
<1> QED
  BY <1>1, <1>2 DEF MakePersistent

\* An object is given the root of a Persistent, or none.
LEMMA ObjectShape ==
    ASSUME NEW owner, MemInv(owner), MemoryInv', ShapeInv, NEW t \in Transients,
           Resting(t), UNCHANGED <<items, depth, pc, ptr, right>>,
           \A n \in NodeId : refs'[n] > 0 => refs[n] > 0, Waits(t),
           \A h \in {t} \cup Persistents :
               root'[h] = root[h] \/ root'[h] = Nil \/ \E p \in Persistents : root'[h] = root[p]
    PROVE  ShapeInv'
<1>1. pc[t] = "idle" /\ ptr[t] = Nil /\ right[t] = Nil /\ Firm(t)
  BY HandsEmpty DEF Resting, ShapeInv
<1>2. \A h \in {t} \cup Persistents : ~Chain(root[h])
  BY <1>1 DEF ShapeInv, Firm
<1>3. \A h \in {t} \cup Persistents : ~Chain(root[h])'
  <2> SUFFICES ASSUME NEW h \in {t} \cup Persistents PROVE ~Chain(root[h])'
    OBVIOUS
  <2>1. CASE root'[h] = Nil
    BY <2>1 DEF Chain
  <2>2. CASE \E g \in {t} \cup Persistents : root'[h] = root[g]
    BY <1>2, <2>2 DEF Chain, Collapsible
  <2> QED  BY <2>1, <2>2
<1>4. Firm(t)'
  BY <1>1, <1>3, FirmAlone
<1> QED
  BY <1>3, <1>4, QuietShape

\* A call on an object changes which roots there are, and no node.
LEMMA MakeCallShape ==
    ASSUME NEW owner, MemInv(owner), MemoryInv', ShapeInv, NEW t \in Transients, MakeCall(t)
    PROVE  ShapeInv'
<1>0. Memory /\ t \notin Persistents /\ Transients \cap Persistents = {}
  BY TreeAssumption DEF MemInv
<1>1. CASE New(t) \/ Clear(t)
  BY <1>1, EmptyRootShape DEF New, Clear
<1>2. CASE Persist(t) \/ PersistMove(t)
  BY <1>2, PersistShape
<1>3. ASSUME NEW p \in Persistents, NEW h \in {t} \cup Persistents, Resting(t), Copies(t, p, h)
      PROVE  ShapeInv'
  <2>1. /\ root[p] # Nil /\ root' = [root EXCEPT ![h] = root[p]]
        /\ refs' = Counted({}, {root[p]}) /\ drop' = [drop EXCEPT ![t] = root[h]]
        /\ UNCHANGED <<items, depth, pc, at, rightMost, stack, ptr, right, dying, marking>>
    BY <1>3 DEF Copies, Drops, control, result
  <2>2. /\ \A g \in {t} \cup Persistents : root'[g] = root[g] \/ root'[g] = root[p]
        /\ \A u \in Transients \ {t} : root'[u] = root[u]
    BY <1>0, <2>1 DEF Memory, TypeOK, TreesOK, Handle
  <2>3. \A n \in NodeId : refs'[n] > 0 => refs[n] > 0
    BY <2>1, RootShared DEF Counted
  <2>4. Waits(t)
    BY <1>0, <2>1, <2>2 DEF Waits, Memory, TypeOK, ChoresOK
  <2> QED  BY <1>3, <2>1, <2>2, <2>3, <2>4, ObjectShape
<1>4. ASSUME NEW p \in Persistents, ThawMove(t, p) PROVE ShapeInv'
  <2>1. /\ Resting(t) /\ root' = [root EXCEPT ![t] = root[p], ![p] = Nil]
        /\ UNCHANGED <<items, depth, refs, pc, at, rightMost, stack, ptr, right, drop, dying,
                       marking>>
    BY <1>4 DEF ThawMove, nodes, control, result, chores
  <2>2. /\ \A g \in {t} \cup Persistents :
             root'[g] = root[g] \/ root'[g] = Nil \/ root'[g] = root[p]
        /\ \A u \in Transients \ {t} : root'[u] = root[u]
    BY <1>0, <2>1 DEF Memory, TypeOK, TreesOK, Handle
  <2>3. Waits(t)
    BY <2>1, <2>2 DEF Waits
  <2> QED  BY <2>1, <2>2, <2>3, ObjectShape
<1>5. ASSUME NEW h \in {t} \cup Persistents, Drop(t, h) PROVE ShapeInv'
  <2>1. /\ Resting(t) /\ root' = [root EXCEPT ![h] = Nil]
        /\ drop' = [drop EXCEPT ![t] = root[h]]
        /\ UNCHANGED <<items, depth, refs, pc, at, rightMost, stack, ptr, right, dying, marking>>
    BY <1>5 DEF Drop, Drops, nodes, control, result
  <2>2. /\ \A g \in {t} \cup Persistents : root'[g] = root[g] \/ root'[g] = Nil
        /\ \A u \in Transients \ {t} : root'[u] = root[u]
    BY <1>0, <2>1 DEF Memory, TypeOK, TreesOK, Handle
  <2>3. Waits(t)
    BY <1>0, <2>1, <2>2 DEF Waits, Memory, TypeOK, ChoresOK
  <2> QED  BY <2>1, <2>2, <2>3, ObjectShape
<1> QED
  BY <1>1, <1>2, <1>3, <1>4, <1>5 DEF MakeCall, Thaw, Copy

-----------------------------------------------------------------------------
(* Nodes that go *)

\* A dying node, or one whose last pointer is being dropped, is in no tree.
LEMMA DecRefShape ==
    ASSUME NEW owner, MemInv(owner), MemoryInv', ShapeInv, NEW t \in Transients, DecRef(t)
    PROVE  ShapeInv'
<1>0. Memory
  BY DEF MemInv
<1>1. CASE DropReference(t)
  <2>1. /\ drop[t] # Nil /\ refs[drop[t]] > 1
        /\ refs' = [refs EXCEPT ![drop[t]] = @ - 1]
        /\ drop' = [drop EXCEPT ![t] = Nil]
        /\ UNCHANGED <<items, depth, pc, at, rightMost, stack, root, ptr, right, dying, marking>>
    BY <1>1 DEF DropReference, Drops, trees, control, result
  <2>2. Waits(t)
    BY <1>0, <2>1 DEF Waits, Memory, TypeOK, ChoresOK
  <2>3. \A n \in NodeId : refs'[n] > 0 => refs[n] > 0
    BY <1>0, <2>1 DEF Memory, TypeOK, NodesOK
  <2>4. PICK W : W = {}
    OBVIOUS
  <2> QED  BY <2>1, <2>2, <2>3, <2>4, ReleaseShape
<1>2. CASE DeleteNode(t)
  <2>0. PICK d : d = drop[t]
    OBVIOUS
  <2>1. /\ d # Nil /\ refs[d] = 1
        /\ refs' = [refs EXCEPT ![d] = 0]
        /\ drop' = [drop EXCEPT ![t] = Nil]
        /\ \/ items' = [items EXCEPT ![d] = <<>>] /\ Makes({d}, 1) /\ UNCHANGED dying
           \/ UNCHANGED <<items, depth>> /\ dying' = [dying EXCEPT ![t] = Append(@, d)]
        /\ UNCHANGED <<pc, at, rightMost, stack, root, ptr, right, marking>>
    BY <1>2, <2>0 DEF DeleteNode, Frees, Drops, trees, control, result
  <2>2. d \in NodeId /\ ~Placed(d)
    <3>1. d \in NodeId
      BY <1>0, <2>0, <2>1 DEF Memory, TypeOK, ChoresOK, Pointer
    <3> QED  BY <1>0, <2>0, <2>1, <3>1, SoleDrop
  <2>3. refs'[d] = 0 /\ \A n \in NodeId \ {d} : refs'[n] = refs[n]
    BY <1>0, <2>1, <2>2 DEF Memory, TypeOK, NodesOK
  <2>4. \A n \in NodeId \ {d} : items'[n] = items[n] /\ depth'[n] = depth[n]
    BY <1>0, <2>1 DEF Makes, Memory, TypeOK, NodesOK
  <2>5. Waits(t)
    BY <1>0, <2>1 DEF Waits, Memory, TypeOK, ChoresOK
  <2>6. PICK W : W = {d}
    OBVIOUS
  <2>7. /\ W \subseteq NodeId
        /\ \A n \in NodeId \ W : items'[n] = items[n] /\ depth'[n] = depth[n]
        /\ \A n \in W : refs'[n] = 0 /\ ~Placed(n)
        /\ \A n \in NodeId : refs'[n] > 0 => refs[n] > 0
    BY ONLY <2>2, <2>3, <2>4, <2>6
  <2> QED  BY <2>1, <2>5, <2>7, ReleaseShape
<1>3. CASE DestroyChild(t)
  <2>0. PICK n : n = dying[t][Len(dying[t])]
    OBVIOUS
  <2>1. /\ dying[t] # <<>> /\ \E p : drop' = [drop EXCEPT ![t] = p]
        /\ \/ \E s : items' = [items EXCEPT ![n] = s] /\ UNCHANGED <<depth, dying>>
           \/ /\ items' = [items EXCEPT ![n] = <<>>] /\ Makes({n}, 1)
              /\ \E s : dying' = [dying EXCEPT ![t] = s]
        /\ UNCHANGED <<refs, pc, at, rightMost, stack, root, ptr, right, marking>>
    BY <1>3, <2>0 DEF DestroyChild, Frees, Drops, trees, control, result
  <2>2. n \in NodeId /\ refs[n] = 0 /\ ~Placed(n)
    <3>1. dying[t] \in Seq(NodeId) /\ Len(dying[t]) \in 1 .. Len(dying[t])
      <4>1. dying[t] \in Seq(NodeId)
        BY <1>0 DEF Memory, TypeOK, ChoresOK
      <4> QED  BY <2>1, <4>1, EmptySeq, LenProperties
    <3>2. n \in NodeId /\ Dying(n)
      BY <2>0, <3>1, ElementOfSeq DEF Dying
    <3>3. refs[n] = 0
      BY <1>0, <3>2 DEF Memory, RefExact
    <3> QED  BY <1>0, <3>2, <3>3, AliveNow
  <2>3. \A m \in NodeId \ {n} : items'[m] = items[m] /\ depth'[m] = depth[m]
    BY <1>0, <2>1 DEF Makes, Memory, TypeOK, NodesOK
  <2>4. Waits(t)
    BY <1>0, <2>1 DEF Waits, Memory, TypeOK, ChoresOK
  <2>5. PICK W : W = {n}
    OBVIOUS
  <2>6. /\ W \subseteq NodeId
        /\ \A m \in NodeId \ W : items'[m] = items[m] /\ depth'[m] = depth[m]
        /\ \A m \in W : refs'[m] = 0 /\ ~Placed(m)
        /\ \A m \in NodeId : refs'[m] > 0 => refs[m] > 0
    BY ONLY <2>1, <2>2, <2>3, <2>5
  <2> QED  BY <2>1, <2>4, <2>6, ReleaseShape
<1> QED
  BY <1>1, <1>2, <1>3 DEF DecRef

-----------------------------------------------------------------------------
(* Every step *)

\* There is no node at the start.
LEMMA ShapeInit == Init => ShapeInv
<1> SUFFICES ASSUME Init PROVE ShapeInv
  OBVIOUS
<1>1. /\ \A n \in NodeId : refs[n] = 0
      /\ \A h \in Handle : root[h] = Nil
      /\ \A t \in Transients : pc[t] = "idle" /\ ptr[t] = Nil /\ right[t] = Nil
  BY DEF Init
<1>2. Shaped
  BY <1>1 DEF Shaped
<1>3. \A h \in Handle : ~Chain(root[h])
  BY <1>1 DEF Chain
<1> QED
  BY <1>1, <1>2, <1>3 DEF ShapeInv, Firm, Handle

\* A step of a continuation, or of the update of the root: every node it makes is legal.
LEMMA AscendShape ==
    ASSUME NEW owner, MemInv(owner), MemoryInv', ShapeInv, NEW t \in Transients, Ascend(t)
    PROVE  ShapeInv'
  BY InternalReplaceShape, InternalInsertShape, InternalSplitShape, InternalEraseShape,
     WalkStepShape, RootReplaceShape, CollapseShape, RootSplitShape, EmptyRootShape,
     DiscardShape DEF Ascend

\* Every step keeps the shape of the nodes.
LEMMA ShapeNext == MemoryInv /\ MemoryInv' /\ ShapeInv /\ [Next]_vars => ShapeInv'
<1> SUFFICES ASSUME MemoryInv, MemoryInv', ShapeInv, [Next]_vars PROVE ShapeInv'
  OBVIOUS
<1>1. PICK owner \in Owner : MemInv(owner)
  BY DEF MemoryInv
<1>2. CASE Next
  <2>1. PICK t \in Transients :
          (\E name \in Operations : Begin(t, name)) \/ MakeCall(t) \/ Step(t)
    BY <1>2 DEF Next
  <2>2. CASE \E name \in Operations : Begin(t, name)
    BY <1>1, <2>2, WalkStepShape
  <2>3. CASE MakeCall(t)
    BY <1>1, <2>3, MakeCallShape
  <2>4. CASE Step(t)
    <3>1. CASE \E i \in 0 .. InternalSize - 1 : Descend(t, i)
      BY <1>1, <3>1, WalkStepShape
    <3>2. CASE \E i \in 0 .. LeafSize, v \in Values : LeafStep(t, i, v)
      BY <1>1, <3>2, LeafStepShape
    <3>3. CASE Ascend(t)
      BY <1>1, <3>3, AscendShape
    <3>4. CASE MakePersistent(t)
      BY <1>1, <3>4, MakePersistentShape
    <3>5. CASE DecRef(t)
      BY <1>1, <3>5, DecRefShape
    <3> QED  BY <2>4, <3>1, <3>2, <3>3, <3>4, <3>5 DEF Step
  <2> QED  BY <2>1, <2>2, <2>3, <2>4
<1>3. CASE UNCHANGED vars
  <2>1. UNCHANGED <<items, depth, refs, root, pc, stack, ptr, right>>
    BY <1>3 DEF vars, nodes, trees, control, result
  <2>2. \A n : Chain(n)' = Chain(n) /\ Formed(n)' = Formed(n)
    BY <2>1 DEF Chain, Collapsible, Formed, Children
  <2>3. Shaped'
    BY <2>1, <2>2 DEF ShapeInv, Shaped
  <2>4. \A t \in Transients : Firm(t)'
    BY <2>1, <2>2 DEF ShapeInv, Firm
  <2>5. \A p \in Persistents : ~Chain(root[p])'
    BY <2>1, <2>2 DEF ShapeInv
  <2> QED  BY <2>3, <2>4, <2>5 DEF ShapeInv
<1> QED
  BY <1>2, <1>3

\* Every node that is alive is one of a B+ tree, at every step of every thread: it is
\* within its capacity, an inner node has children, one level below, alive and not
\* empty, and the root of an object at rest is no chain of single children.
THEOREM NodesAreShaped == Spec => []NodeShape
<1>1. MemoryInv /\ ShapeInv => NodeShape
  <2> SUFFICES ASSUME NEW owner, MemInv(owner), ShapeInv PROVE NodeShape
    BY DEF MemoryInv
  <2>0. Memory
    BY DEF MemInv
  <2>1. ASSUME NEW n \in NodeId, refs[n] > 0
        PROVE  /\ Len(items[n]) <= Capacity(depth[n])
               /\ depth[n] > 1 =>
                    /\ items[n] # <<>>
                    /\ \A m \in Children(n) :
                         depth[m] = depth[n] - 1 /\ refs[m] > 0 /\ items[m] # <<>>
    <3>1. Formed(n)
      BY <2>1 DEF ShapeInv, Shaped
    <3>2. ASSUME NEW m \in Children(n), depth[n] > 1
          PROVE  depth[m] = depth[n] - 1 /\ refs[m] > 0
      <4>1. m \in NodeId /\ depth[n] = depth[m] + 1 /\ depth[m] \in Nat
        BY <2>0, <3>2 DEF Memory, Levels, TypeOK, NodesOK, Children, Inner
      <4>2. refs[m] > 0
        BY <2>0, <4>1, AliveNow DEF Placed
      <4> QED  BY <4>1, <4>2
    <3> QED  BY <3>1, <3>2 DEF Formed
  <2>2. ASSUME NEW h \in Handle, root[h] # Nil, h \in Transients => pc[h] = "idle"
        PROVE  ~Collapsible(root[h], items[root[h]])
    BY <2>2 DEF ShapeInv, Firm, Chain, Handle
  <2> QED  BY <2>1, <2>2 DEF NodeShape
<1>2. Spec => []ShapeInv
  BY ShapeInit, ShapeNext, MemoryAlways, PTL DEF Spec
<1> QED
  BY <1>1, <1>2, MemoryAlways, PTL

-----------------------------------------------------------------------------
(* The depth of a tree *)

\* Every node is of a level that the iterator word has room for.
Shallow == depth \in [NodeId -> Level]

\* A step makes nodes of one level, or none.
LEMMA ShallowMade ==
    ASSUME Shallow, \/ depth' = depth
                    \/ \E ns, d : Makes(ns, d) /\ d \in Level
    PROVE  Shallow'
  BY DEF Shallow, Makes

LEMMA ShallowLeaf ==
    ASSUME Shallow, NEW t \in Transients, NEW i \in 0 .. LeafSize, NEW v \in Values,
           LeafStep(t, i, v)
    PROVE  Shallow'
<1>0. 1 \in Level
  BY TreeAssumption DEF Level
<1>1. depth' = depth \/ \E ns : Makes(ns, 1)
  BY DEF LeafStep, LeafInsert, LeafSplit, LeafAssign, LeafErase, LeafEraseOnly, nodes
<1> QED
  BY <1>0, <1>1, ShallowMade

LEMMA ShallowAscend ==
    ASSUME NEW owner, MemInv(owner), Shallow, NEW t \in Transients, Ascend(t)
    PROVE  Shallow'
<1>0. 1 \in Level
  BY TreeAssumption DEF Level
<1>1. CASE InternalReplace(t) \/ InternalInsert(t) \/ InternalSplit(t) \/ InternalErase(t)
  <2>1. PICK n : n = Frame(t).node
    OBVIOUS
  <2>2. \E ns : Makes(ns, depth[n])
    BY <1>1, <2>1 DEF InternalReplace, InternalInsert, InternalSplit, InternalErase
  <2>3. \E phase : AtNode(t, phase)
    BY <1>1 DEF InternalReplace, InternalInsert, InternalSplit, InternalErase
  <2>4. n \in NodeId
    BY <2>1, <2>3, FrameHeld
  <2>5. depth[n] \in Level
    BY <2>4 DEF Shallow
  <2> QED  BY <2>2, <2>5, ShallowMade
<1>2. CASE RootErase(t)
  <2>1. \E ns : Makes(ns, 1)
    BY <1>2 DEF RootErase
  <2> QED  BY <1>0, <2>1, ShallowMade
<1>3. CASE RootSplit(t)
  <2>1. PICK d : d = depth[root[t]]
    OBVIOUS
  <2>2. \E ns : Makes(ns, d + 1)
    BY <1>3, <2>1 DEF RootSplit
  <2>3. d < MaxDepth /\ root[t] \in NodeId
    BY <1>3, <2>1, RootIsNode DEF RootSplit, AtRoot, MemInv, Memory
  <2>4. d + 1 \in Level
    BY <2>1, <2>3, TreeAssumption DEF Level, Shallow
  <2> QED  BY <2>2, <2>4, ShallowMade
<1>4. CASE \/ InternalEraseOnly(t) \/ SeekEnd(t) \/ LeafKeep(t) \/ RootReplace(t) \/ Collapse(t)
           \/ RootSplitTooDeep(t) \/ DiscardLeft(t) \/ Return(t)
  <2>1. depth' = depth
    BY <1>4 DEF InternalEraseOnly, SeekEnd, LeafKeep, RootReplace, Collapse, RootSplitTooDeep,
                DiscardLeft, Return, nodes
  <2> QED  BY <2>1 DEF Shallow
<1> QED
  BY <1>1, <1>2, <1>3, <1>4 DEF Ascend

LEMMA ShallowNext == MemoryInv /\ Shallow /\ [Next]_vars => Shallow'
<1> SUFFICES ASSUME MemoryInv, Shallow, [Next]_vars PROVE Shallow'
  OBVIOUS
<1>0. 1 \in Level
  BY TreeAssumption DEF Level
<1>1. PICK owner : MemInv(owner)
  BY DEF MemoryInv
<1>2. CASE UNCHANGED vars
  BY <1>2 DEF vars, nodes, Shallow
<1>3. CASE Next
  <2>1. PICK t \in Transients :
          (\E name \in Operations : Begin(t, name)) \/ MakeCall(t) \/ Step(t)
    BY <1>3 DEF Next
  <2>2. CASE MakeCall(t)
    <3>1. depth' = depth \/ \E ns : Makes(ns, 1)
      BY <2>2 DEF MakeCall, New, Clear, Empties, Persist, PersistMove, StartsMarking, Thaw, Copy,
                  Copies, ThawMove, Drop, nodes
    <3> QED  BY <1>0, <3>1, ShallowMade
  <2>3. CASE DecRef(t)
    <3>1. depth' = depth \/ \E ns : Makes(ns, 1)
      BY <2>3 DEF DecRef, DropReference, DeleteNode, DestroyChild, Frees
    <3> QED  BY <1>0, <3>1, ShallowMade
  <2>4. CASE \/ \E name \in Operations : Begin(t, name)
             \/ \E i \in 0 .. InternalSize - 1 : Descend(t, i)
             \/ MakePersistent(t)
    <3>1. depth' = depth
      BY <2>4 DEF Begin, Descend, MakePersistent, Mark, Publish, nodes
    <3> QED  BY <3>1 DEF Shallow
  <2>5. CASE \E i \in 0 .. LeafSize, v \in Values : LeafStep(t, i, v)
    BY <2>5, ShallowLeaf
  <2>6. CASE Ascend(t)
    BY <1>1, <2>6, ShallowAscend
  <2> QED  BY <2>1, <2>2, <2>3, <2>4, <2>5, <2>6 DEF Step
<1> QED
  BY <1>2, <1>3

\* No tree is deeper than max_depth, at every step of every thread: a level more comes
\* from do_split of the tree object only, which looks before it adds one.
THEOREM NoTreeTooDeep == Spec => []Shallow
<1>1. Init => Shallow
  BY TreeAssumption DEF Init, Shallow, Level
<1> QED
  BY <1>1, ShallowNext, MemoryAlways, PTL DEF Spec

-----------------------------------------------------------------------------
(* Induction over finitely many sets or numbers *)

\* A set of subsets of D that has a set if it has all that are one smaller.
LEMMA SubsetInduction ==
    ASSUME NEW D, IsFiniteSet(D), NEW T, {} \in T,
           \A s \in SUBSET D : s # {} /\ (\A x \in s : s \ {x} \in T) => s \in T
    PROVE  \A s \in SUBSET D : s \in T
<1> DEFINE Bad == {s \in SUBSET D : s \notin T}
<1>1. SUFFICES ASSUME Bad # {} PROVE FALSE
  OBVIOUS
<1>2. \A s \in SUBSET D : IsFiniteSet(s)
  BY FS_Subset
<1>3. Bad \subseteq FiniteSubsetsOf(D)
  BY <1>2 DEF FiniteSubsetsOf
<1>4. IsWellFoundedOn(StrictSubsetOrdering(D), FiniteSubsetsOf(D))
  BY FS_StrictSubsetOrderingWellFounded
<1>5. PICK b \in Bad : \A s \in Bad : <<s, b>> \notin StrictSubsetOrdering(D)
  <2> HIDE DEF Bad
  <2> QED  BY <1>1, <1>3, <1>4, WFMin
<1>6. \A x \in b : b \ {x} \in T
  <2> SUFFICES ASSUME NEW x \in b PROVE b \ {x} \in T
    OBVIOUS
  <2>1. <<b \ {x}, b>> \in StrictSubsetOrdering(D)
    BY DEF StrictSubsetOrdering
  <2> QED  BY <1>5, <2>1
<1> QED
  BY <1>6

\* What holds of zero, and of every number up to N if of the one before, holds of all.
LEMMA UpTo ==
    ASSUME NEW N \in Nat, NEW T, 0 \in T, \A k \in 0 .. N - 1 : k \in T => k + 1 \in T
    PROVE  \A k \in 0 .. N : k \in T
<1> DEFINE U == {s \in SUBSET (1 .. N) : \A k \in 0 .. N : s = 1 .. k => k \in T}
<1>1. IsFiniteSet(1 .. N)
  BY FS_Interval
<1>2. {} \in U
  <2>1. \A k \in 0 .. N : {} = 1 .. k => k = 0
    <3>1. \A k \in 0 .. N : k # 0 => 1 \in 1 .. k
      OBVIOUS
    <3> QED  BY <3>1
  <2> QED  BY <2>1
<1>3. ASSUME NEW s \in SUBSET (1 .. N), s # {}, \A x \in s : s \ {x} \in U PROVE s \in U
  <2> SUFFICES ASSUME NEW k \in 0 .. N, s = 1 .. k PROVE k \in T
    OBVIOUS
  <2>1. k # 0 /\ k \in s /\ k - 1 \in 0 .. N - 1 /\ k - 1 \in 0 .. N /\ (k - 1) + 1 = k
    BY <1>3
  <2>2. s \ {k} = 1 .. k - 1
    BY <2>1
  <2>3. k - 1 \in T
    BY <1>3, <2>1, <2>2
  <2> QED  BY <2>1, <2>3
<1>4. \A s \in SUBSET (1 .. N) : s \in U
  <2> HIDE DEF U
  <2> QED  BY <1>1, <1>2, <1>3, SubsetInduction
<1> SUFFICES ASSUME NEW k \in 0 .. N PROVE k \in T
  OBVIOUS
<1>5. 1 .. k \in SUBSET (1 .. N)
  OBVIOUS
<1> QED
  BY <1>4, <1>5

-----------------------------------------------------------------------------
(* What a running call has to itself *)

\* No node, object or result has a pointer to n.
Loose(n) == ~Placed(n) /\ \A u \in Transients : ptr[u] # n /\ right[u] # n

\* A node with one owner that is a child has no other parent, and is no root.
LEMMA SoleParent ==
    ASSUME Memory, NEW n \in NodeId, refs[n] = 1, NEW p \in NodeId, n \in Children(p)
    PROVE  /\ \A m \in NodeId : n \in Children(m) => m = p
           /\ \A h \in Handle : root[h] # n
<1> DEFINE R == {h \in Handle : root[h] = n}
           C == Parents(n)
<1>1. ASSUME NEW S, IsFiniteSet(S), NEW x \in S
      PROVE  Cardinality(S) \in Nat /\ Cardinality(S) >= 1
             /\ \A y \in S : y # x => Cardinality(S) >= 2
  <2>1. IsFiniteSet(S \ {x}) /\ Cardinality(S \ {x}) = Cardinality(S) - 1
    BY <1>1, FS_RemoveElement
  <2>2. Cardinality(S) \in Nat /\ Cardinality(S \ {x}) \in Nat
    BY <1>1, <2>1, FS_CardinalityType
  <2>3. ASSUME NEW y \in S, y # x PROVE Cardinality(S) >= 2
    <3>1. y \in S \ {x}
      BY <2>3
    <3>2. Cardinality(S \ {x}) # 0
      BY <2>1, <3>1, FS_EmptySet
    <3> QED  BY <2>1, <2>2, <3>2
  <2>4. Cardinality(S) >= 1
    BY <2>1, <2>2
  <2> QED  BY <2>2, <2>3, <2>4
<1>2. PICK r, c, q \in Nat : refs[n] = r + c + q /\ r = Cardinality(R) /\ c = Cardinality(C)
  <2>1. refs[n] = Cardinality(R) + Cardinality(C)
                    + Cardinality({t \in Transients : ptr[t] = n})
                    + Cardinality({t \in Transients : right[t] = n})
                    + Cardinality({t \in Transients : drop[t] = n})
    BY OwnersCount DEF Memory, TypeOK, RefExact
  <2>2. IsFiniteSet(R) /\ IsFiniteSet(C) /\ IsFiniteSet({t \in Transients : ptr[t] = n})
        /\ IsFiniteSet({t \in Transients : right[t] = n})
        /\ IsFiniteSet({t \in Transients : drop[t] = n})
    BY NodesFinite, FS_Subset DEF Parents
  <2> HIDE DEF R, C
  <2>3. /\ Cardinality(R) \in Nat /\ Cardinality(C) \in Nat
        /\ Cardinality({t \in Transients : ptr[t] = n}) \in Nat
        /\ Cardinality({t \in Transients : right[t] = n}) \in Nat
        /\ Cardinality({t \in Transients : drop[t] = n}) \in Nat
    BY <2>2, FS_CardinalityType
  <2>4. PICK a, b, d \in Nat : /\ a = Cardinality({t \in Transients : ptr[t] = n})
                               /\ b = Cardinality({t \in Transients : right[t] = n})
                               /\ d = Cardinality({t \in Transients : drop[t] = n})
    BY <2>3
  <2>5. refs[n] = Cardinality(R) + Cardinality(C) + (a + b + d) /\ a + b + d \in Nat
    BY <2>1, <2>3, <2>4
  <2> QED  BY <2>3, <2>5
<1>3. IsFiniteSet(R) /\ IsFiniteSet(C) /\ p \in C
  BY NodesFinite, FS_Subset DEF Parents
<1>4. ASSUME NEW m \in NodeId, n \in Children(m), m # p PROVE FALSE
  <2>1. m \in C
    BY <1>4 DEF Parents
  <2> HIDE DEF C, R
  <2>2. c >= 2
    BY <1>1, <1>2, <1>3, <1>4, <2>1
  <2> QED  BY <1>2, <2>2
<1>5. ASSUME NEW h \in Handle, root[h] = n PROVE FALSE
  <2>1. h \in R
    BY <1>5
  <2> HIDE DEF C, R
  <2>2. c >= 1 /\ r >= 1
    BY <1>1, <1>2, <1>3, <2>1
  <2> QED  BY <1>2, <2>2
<1> QED
  BY <1>4, <1>5

\* One of the frames s is that of slot k of n.
Passes(s, n, k) == \E j \in 1 .. Len(s) : s[j].node = n /\ s[j].index = k - 1

\* The nodes on the path of thread t that it changes in place.
OwnLine(t) ==
    {n \in NodeId :
       /\ ~persistent[n]
       /\ \/ pc[t] = "descend" /\ n = at[t]
          \/ \E j \in 1 .. Len(stack[t]) : n = stack[t][j].node}

\* The nodes below which a call of thread t may change what there is.
Line(t) == {n \in NodeId : refs[n] = 0} \cup OwnLine(t)

\* Thread t is between the root and a leaf.
Travels(t) == ~Busy(t) /\ pc[t] \in {"descend", "replace", "split", "erase"}

\* They belong to the thread, and have one owner.
LEMMA LineOwned ==
    ASSUME NEW owner, MemInv(owner), NEW t \in Transients, Travels(t), NEW n \in OwnLine(t)
    PROVE  n \in NodeId /\ refs[n] = 1 /\ owner[n] = t /\ ~persistent[n]
<1>1. Memory /\ Path(t) /\ Held(owner, t) /\ Owned(owner)
  BY DEF MemInv, Threads, Owned
<1>2. n \in NodeId /\ ~persistent[n] /\ Placed(n) /\ Sees(owner, t, n)
  <2>1. CASE pc[t] = "descend" /\ n = at[t]
    BY <1>1, <2>1, PathPlaced DEF OwnLine, Held
  <2>2. CASE \E j \in 1 .. Len(stack[t]) : n = stack[t][j].node
    BY <1>1, <2>2, PathPlaced DEF OwnLine, Held
  <2> QED  BY <2>1, <2>2 DEF OwnLine
<1>3. refs[n] > 0
  BY <1>1, <1>2, AliveNow
<1>4. refs[n] = 1
  BY <1>2, <1>3, SoleOwner DEF Travels
<1>5. owner[n] = t
  BY <1>1, <1>2, <1>3 DEF Owned, Sees
<1> QED
  BY <1>2, <1>4, <1>5

\* The slot above one of them is that of a frame, of another of them.
LEMMA LineSlot ==
    ASSUME NEW owner, MemInv(owner), NEW t \in Transients, Travels(t), NEW c \in OwnLine(t),
           NEW m \in NodeId, depth[m] > 1, NEW k \in 1 .. Len(items[m]), items[m][k] = c
    PROVE  /\ m \in OwnLine(t) /\ ~persistent[m]
           /\ Passes(stack[t], m, k)
<1>1. Memory /\ Path(t) /\ Held(owner, t) /\ Owned(owner) /\ pc[t] # "persist"
      /\ stack[t] \in Seq(FrameSet)
  BY DEF MemInv, Threads, Owned, Travels, Memory, TypeOK, ControlOK
<1>2. c \in NodeId /\ refs[c] = 1 /\ ~persistent[c]
  BY LineOwned
<1>3. c \in Children(m)
  BY DEF Children
<1>4. (\A p \in NodeId : c \in Children(p) => p = m) /\ \A h \in Handle : root[h] # c
  BY <1>1, <1>2, <1>3, SoleParent
<1>5. root[t] # c
  BY <1>4 DEF Handle
<1>6. Len(stack[t]) \in Nat
  BY <1>1, LenProperties
<1>7. \E j \in 1 .. Len(stack[t]) : c = items[stack[t][j].node][stack[t][j].index + 1]
  <2>1. CASE pc[t] = "descend" /\ c = at[t]
    <3>1. stack[t] # <<>>
      BY <1>1, <1>5, <2>1 DEF Path
    <3>2. Frame(t) = stack[t][Len(stack[t])] /\ Len(stack[t]) \in 1 .. Len(stack[t])
      BY <1>1, <3>1, PathPlaced
    <3> QED  BY <1>1, <2>1, <3>1, <3>2 DEF Path
  <2>2. CASE \E j \in 1 .. Len(stack[t]) : c = stack[t][j].node
    <3>1. PICK j \in 1 .. Len(stack[t]) : c = stack[t][j].node
      BY <2>2
    <3>2. stack[t] # <<>> /\ j # 1
      BY <1>1, <1>5, <1>6, <3>1, EmptySeq DEF Path
    <3>3. j - 1 \in 1 .. Len(stack[t]) /\ j > 1
      BY <1>6, <3>2
    <3> QED  BY <1>1, <3>1, <3>3 DEF Path
  <2> QED  BY <2>1, <2>2 DEF OwnLine
<1>8. PICK j \in 1 .. Len(stack[t]) : c = items[stack[t][j].node][stack[t][j].index + 1]
  BY <1>7
<1>9. PICK p, i : p = stack[t][j].node /\ i = stack[t][j].index
  OBVIOUS
<1>10. /\ p \in NodeId /\ i \in Nat /\ depth[p] > 1 /\ i < Len(items[p])
       /\ items[p] \in Seq(NodeId)
  <2>1. stack[t][j] \in FrameSet
    BY <1>1, ElementOfSeq
  <2>2. p \in NodeId /\ i \in Nat /\ depth[p] > 1 /\ i < Len(items[p])
    BY <1>1, <1>9, <2>1 DEF FrameSet, Path
  <2> QED  BY <1>1, <2>2 DEF Memory, TypeOK, NodesOK
<1>11. i + 1 \in 1 .. Len(items[p]) /\ Len(items[p]) \in Nat
  BY <1>10, LenProperties
<1>12. c \in Children(p)
  <2>1. items[p][i + 1] = c /\ depth[p] # 1
    BY <1>8, <1>9, <1>10
  <2> QED  BY <1>11, <2>1 DEF Children
<1>13. p = m
  BY <1>4, <1>10, <1>12
<1>14. i + 1 = k
  <2>1. Distinct(items[m])
    BY <1>1 DEF Memory, Siblings, Inner
  <2> QED  BY <1>8, <1>9, <1>11, <1>13, <2>1 DEF Distinct
<1>15. ~persistent[m]
  <2>1. Sees(owner, t, m)
    BY <1>1, <1>9, <1>13 DEF Held
  <2> QED  BY <1>1, <1>2, <1>3, <2>1, SharedChildren
<1>16. stack[t][j].node = m /\ stack[t][j].index = k - 1
  BY <1>9, <1>10, <1>13, <1>14
<1>17. m \in OwnLine(t)
  BY <1>15, <1>16 DEF OwnLine
<1> QED
  BY <1>15, <1>16, <1>17 DEF Passes

\* Thread t goes on up from node n: the leaf it is at, or that of its innermost frame.
Through(t, n) ==
    \/ pc[t] = "descend" /\ n = at[t] /\ stack'[t] = stack[t]
    \/ /\ pc[t] \in {"replace", "split", "erase"} /\ stack[t] # <<>>
       /\ n = Frame(t).node /\ Pops(t)

\* The other frames are still there.
LEMMA ThroughFrames ==
    ASSUME NEW owner, MemInv(owner), NEW t \in Transients, NEW n, Through(t, n),
           NEW m, m # n, NEW k, Passes(stack[t], m, k)
    PROVE  Passes(stack'[t], m, k)
<1> USE DEF Passes
<1>1. PICK j \in 1 .. Len(stack[t]) : stack[t][j].node = m /\ stack[t][j].index = k - 1
  OBVIOUS
<1>2. CASE stack'[t] = stack[t]
  BY <1>1, <1>2
<1>3. CASE stack[t] # <<>> /\ n = Frame(t).node /\ Pops(t)
  <2>1. /\ Len(stack[t]) \in Nat \ {0} /\ Len(stack'[t]) = Len(stack[t]) - 1
        /\ \A i \in 1 .. Len(stack'[t]) : stack'[t][i] = stack[t][i]
    BY <1>3, PoppedFrames DEF MemInv
  <2>2. j # Len(stack[t])
    BY <1>1, <1>3 DEF Frame
  <2>3. j \in 1 .. Len(stack'[t])
    BY <2>1, <2>2
  <2> QED  BY <1>1, <2>1, <2>3
<1> QED
  BY <1>2, <1>3 DEF Through

\* The node it goes on from is on its path.
LEMMA ThroughLine ==
    ASSUME NEW owner, MemInv(owner), NEW t \in Transients, NEW n, Through(t, n), ~Busy(t)
    PROVE  Travels(t) /\ (n \in NodeId /\ ~persistent[n] => n \in OwnLine(t))
<1>1. Travels(t)
  BY DEF Travels, Through
<1>2. stack[t] # <<>> => Len(stack[t]) \in 1 .. Len(stack[t])
  BY PathPlaced DEF MemInv, Threads
<1>3. n \in NodeId /\ ~persistent[n] => n \in OwnLine(t)
  BY <1>2 DEF OwnLine, Through, Frame
<1> QED
  BY <1>1, <1>3

=============================================================================
