-------------------------- MODULE MixinsKeys_proofs --------------------------
(***************************************************************************)
(* The keys that find_key goes by are the last ones below the children.    *)
(*                                                                         *)
(* The last key below a node is found by going down, so a change deep in   *)
(* the tree changes it for every node above, while the slot of each is set *)
(* right only when the call comes to it again.  A call changes last keys   *)
(* only along its own path, and that of its new nodes; what it tells on    *)
(* its way up is the last key below what it leaves, unless it is pop_back, *)
(* which stays on the right edge of the tree.                              *)
(***************************************************************************)
EXTENDS Mixins_proofs

-----------------------------------------------------------------------------
(* Last keys *)

\* The keys of level d, from those of the level below.
KeysOver(its, last, d) ==
    [n \in NodeId |-> IF d = 1 THEN KeyOf(LastItem(its[n])) ELSE last[d - 1][LastItem(its[n])]]

\* The function that LastKeyIn goes down by.
LastOf(its) == CHOOSE last : last = [d \in Level |-> KeysOver(its, last, d)]

\* There is one.
LEMMA LastExists ==
    ASSUME NEW its
    PROVE  LastOf(its) = [d \in Level |-> KeysOver(its, LastOf(its), d)]
<1> DEFINE Good(f, k) == /\ f = [d \in Level |-> f[d]]
                         /\ \A d \in 1 .. k : f[d] = KeysOver(its, f, d)
           T == {k \in 0 .. MaxDepth : \E f : Good(f, k)}
<1>0. MaxDepth \in Nat
  BY TreeAssumption
<1>1. 0 \in T
  <2>1. PICK f : f = [d \in Level |-> 0]
    OBVIOUS
  <2>2. f = [d \in Level |-> f[d]]
    BY <2>1
  <2>3. 1 .. 0 = {} /\ 0 \in 0 .. MaxDepth
    BY <1>0
  <2> QED  BY <2>2, <2>3
<1>2. ASSUME NEW k \in 0 .. MaxDepth - 1, k \in T PROVE k + 1 \in T
  <2>1. PICK f : Good(f, k)
    BY <1>2
  <2>2. PICK g : g = [f EXCEPT ![k + 1] = KeysOver(its, f, k + 1)]
    OBVIOUS
  <2>3. k + 1 \in Level /\ k + 1 \in 0 .. MaxDepth /\ k \in Nat
    BY <1>0 DEF Level
  <2>4. g = [d \in Level |-> g[d]] /\ g[k + 1] = KeysOver(its, f, k + 1)
        /\ \A d \in Level : d # k + 1 => g[d] = f[d]
    BY <2>1, <2>2, <2>3
  <2>5. ASSUME NEW d \in 1 .. k + 1 PROVE KeysOver(its, g, d) = KeysOver(its, f, d)
    <3>1. d # 1 => d - 1 \in Level /\ d - 1 # k + 1
      BY <1>0, <2>3 DEF Level
    <3> QED  BY <2>4, <3>1 DEF KeysOver
  <2>6. \A d \in 1 .. k + 1 : g[d] = KeysOver(its, g, d)
    <3>1. \A d \in 1 .. k + 1 : d = k + 1 \/ (d \in 1 .. k /\ d \in Level /\ d # k + 1)
      BY <1>0, <2>3 DEF Level
    <3> QED  BY <2>1, <2>4, <2>5, <3>1
  <2> QED  BY <2>3, <2>4, <2>6
<1>3. MaxDepth \in T
  <2> HIDE DEF T
  <2>1. \A k \in 0 .. MaxDepth : k \in T
    BY <1>0, <1>1, <1>2, UpTo
  <2> QED  BY <1>0, <2>1
<1>4. PICK f : Good(f, MaxDepth)
  BY <1>3
<1>5. f = [d \in Level |-> KeysOver(its, f, d)]
  BY <1>4 DEF Level
<1> QED
  BY <1>5 DEF LastOf

\* last_key() of a node is that of the last item, one level down.
LEMMA LastKeyDown ==
    ASSUME NEW its, NEW deps, NEW n \in NodeId, deps[n] \in Level
    PROVE  /\ deps[n] = 1 => LastKeyIn(its, deps)[n] = KeyOf(LastItem(its[n]))
           /\ \A c \in NodeId : c = LastItem(its[n]) /\ deps[n] = deps[c] + 1 /\ deps[c] \in Level =>
                LastKeyIn(its, deps)[n] = LastKeyIn(its, deps)[c]
<1>1. LastKeyIn(its, deps) = [m \in NodeId |-> LastOf(its)[deps[m]][m]]
  BY DEF LastKeyIn, LastOf, KeysOver
<1>2. \A d \in Level, m \in NodeId :
        LastOf(its)[d][m] = IF d = 1 THEN KeyOf(LastItem(its[m]))
                            ELSE LastOf(its)[d - 1][LastItem(its[m])]
  BY LastExists DEF KeysOver
<1>3. MaxDepth \in Nat
  BY TreeAssumption
<1>4. ASSUME NEW c \in NodeId, c = LastItem(its[n]), deps[n] = deps[c] + 1, deps[c] \in Level
      PROVE  LastKeyIn(its, deps)[n] = LastKeyIn(its, deps)[c]
  <2>1. deps[n] # 1 /\ deps[n] - 1 = deps[c]
    BY <1>3, <1>4 DEF Level
  <2> QED  BY <1>1, <1>2, <1>4, <2>1
<1> QED
  BY <1>1, <1>2, <1>4

\* It is what it was if it is below nodes that are as they were.
LEMMA LastKeySame ==
    ASSUME NEW its, NEW deps, NEW its2, NEW deps2, NEW S \in SUBSET NodeId,
           \A n \in S : /\ deps[n] \in Level /\ its2[n] = its[n] /\ deps2[n] = deps[n]
                        /\ deps[n] # 1 => /\ LastItem(its[n]) \in S
                                          /\ deps[n] = deps[LastItem(its[n])] + 1
    PROVE  \A n \in S : LastKeyIn(its2, deps2)[n] = LastKeyIn(its, deps)[n]
<1> DEFINE Same(n) == LastKeyIn(its2, deps2)[n] = LastKeyIn(its, deps)[n]
           T == {k \in 0 .. MaxDepth : \A n \in S : deps[n] = k => Same(n)}
<1>0. MaxDepth \in Nat
  BY TreeAssumption
<1>1. 0 \in T
  BY <1>0 DEF Level
<1>2. ASSUME NEW k \in 0 .. MaxDepth - 1, k \in T PROVE k + 1 \in T
  <2> SUFFICES ASSUME NEW n \in S, deps[n] = k + 1 PROVE Same(n)
    BY <1>0
  <2>1. CASE deps[n] = 1
    BY <2>1, LastKeyDown
  <2>2. CASE deps[n] # 1
    <3>1. PICK c \in S : c = LastItem(its[n]) /\ deps[n] = deps[c] + 1
      BY <2>2
    <3>2. deps[c] = k /\ deps[c] \in Level
      BY <1>0, <3>1 DEF Level
    <3>3. Same(c)
      BY <1>2, <3>2
    <3>4. LastKeyIn(its, deps)[n] = LastKeyIn(its, deps)[c]
      BY <3>1, <3>2, LastKeyDown
    <3>5. LastKeyIn(its2, deps2)[n] = LastKeyIn(its2, deps2)[c]
      BY <3>1, <3>2, LastKeyDown
    <3> QED  BY <3>3, <3>4, <3>5
  <2> QED  BY <2>1, <2>2
<1> HIDE DEF T
<1>3. \A k \in 0 .. MaxDepth : k \in T
  BY <1>0, <1>1, <1>2, UpTo
<1> QED
  BY <1>0, <1>3 DEF T, Level

-----------------------------------------------------------------------------
(* The keys *)

\* Thread t has gone through slot k of n, and has yet to call the continuation.
OnWay(t, n, k) == pc[t] \in {"replace", "split", "erase"} /\ Passes(stack[t], n, k)

\* Slot k of n has the last key below the child there.
Guided(n, k) == meta[n][k].key = LastKey(items[n][k])

\* Every slot but the last has, or belongs to a call that will set it right.
Guides ==
    \A n \in NodeId : refs[n] > 0 /\ depth[n] > 1 =>
        \A k \in 1 .. Len(items[n]) - 1 :
            Guided(n, k) \/ (~persistent[n] /\ \E t \in Transients : OnWay(t, n, k))

\* pop_back, which tells of a key that goes, has only gone through last slots.
Edge(t) ==
    op[t] = "pop_back" /\ stack[t] # <<>> =>
        Frame(t).rightMost /\ Frame(t).index = Len(items[Frame(t).node]) - 1

\* What thread t is told is right: the last key below what has changed, or below
\* both halves.
KeyTold(t) ==
    /\ pc[t] = "replace" /\ stack[t] # <<>> /\ op[t] # "pop_back" =>
         delta[t].key = LastKey(Tip(t))
    /\ pc[t] = "split" =>
         delta[t].key = LastKey(Tip(t)) /\ rightInfo[t].key = LastKey(right[t])

KeyInv == Guides /\ \A t \in Transients : Edge(t) /\ KeyTold(t)

-----------------------------------------------------------------------------
(* The last key below a node that is not written *)

\* last_key() of a node that is alive.
LEMMA LastKeyHere ==
    ASSUME Memory, ShapeInv, Shallow, NEW n \in NodeId, refs[n] > 0
    PROVE  /\ depth[n] \in Level
           /\ depth[n] = 1 => LastKey(n) = KeyOf(LastItem(items[n]))
           /\ depth[n] # 1 => \E c \in Children(n) :
                /\ c = LastItem(items[n]) /\ c \in NodeId /\ refs[c] > 0
                /\ depth[n] = depth[c] + 1 /\ LastKey(n) = LastKey(c)
<1>1. depth[n] \in Level
  BY DEF Shallow
<1>2. ASSUME depth[n] # 1
      PROVE  \E c \in Children(n) :
               /\ c = LastItem(items[n]) /\ c \in NodeId /\ refs[c] > 0
               /\ depth[n] = depth[c] + 1 /\ depth[c] \in Level
  <2>1. depth[n] > 1 /\ items[n] \in Seq(NodeId)
    BY <1>1, <1>2, TreeAssumption DEF Level, Memory, TypeOK, NodesOK
  <2>2. items[n] # <<>>
    BY <2>1 DEF ShapeInv, Shaped, Formed
  <2>3. Len(items[n]) \in 1 .. Len(items[n])
    BY <2>1, <2>2, EmptySeq, LenProperties
  <2>4. PICK c : c = items[n][Len(items[n])]
    OBVIOUS
  <2>5. c \in Children(n) /\ c \in NodeId /\ c = LastItem(items[n])
    BY <1>2, <2>1, <2>3, <2>4, ElementOfSeq DEF Children, LastItem
  <2>6. refs[c] > 0
    BY <2>5, AliveNow DEF Placed
  <2>7. depth[n] = depth[c] + 1
    BY <2>1, <2>5 DEF Memory, Levels, Inner
  <2>8. depth[c] \in Level
    BY <2>5 DEF Shallow
  <2> QED  BY <2>5, <2>6, <2>7, <2>8
<1>3. /\ depth[n] = 1 => LastKeyIn(items, depth)[n] = KeyOf(LastItem(items[n]))
      /\ \A c \in NodeId : c = LastItem(items[n]) /\ depth[n] = depth[c] + 1 /\ depth[c] \in Level =>
           LastKeyIn(items, depth)[n] = LastKeyIn(items, depth)[c]
  BY <1>1, LastKeyDown
<1> QED
  BY <1>1, <1>2, <1>3 DEF LastKey

\* It stays if no node on the way is written.
LEMMA KeysKept ==
    ASSUME Memory, ShapeInv, Shallow, NEW V,
           \A n \in NodeId \ V :
             /\ refs[n] > 0 /\ items'[n] = items[n] /\ depth'[n] = depth[n]
             /\ depth[n] # 1 => LastItem(items[n]) \notin V
    PROVE  \A n \in NodeId \ V : LastKey(n)' = LastKey(n)
<1>1. PICK its, deps, its2, deps2 : its = items /\ deps = depth /\ its2 = items' /\ deps2 = depth'
  OBVIOUS
<1>2. PICK S \in SUBSET NodeId : S = NodeId \ V
  OBVIOUS
<1>4. ASSUME NEW n \in S
      PROVE  /\ deps[n] \in Level /\ its2[n] = its[n] /\ deps2[n] = deps[n]
             /\ deps[n] # 1 => /\ LastItem(its[n]) \in S
                               /\ deps[n] = deps[LastItem(its[n])] + 1
  <2>1. n \in NodeId /\ refs[n] > 0
    BY <1>2
  <2>2. depth[n] \in Level /\ (depth[n] # 1 => \E c \in Children(n) :
           /\ c = LastItem(items[n]) /\ c \in NodeId /\ depth[n] = depth[c] + 1)
    BY <2>1, LastKeyHere
  <2> QED  BY <1>1, <1>2, <2>2
<1>3. \A n \in S : /\ deps[n] \in Level /\ its2[n] = its[n] /\ deps2[n] = deps[n]
                   /\ deps[n] # 1 => /\ LastItem(its[n]) \in S
                                     /\ deps[n] = deps[LastItem(its[n])] + 1
  BY <1>4
<1>5. \A n \in S : LastKeyIn(its2, deps2)[n] = LastKeyIn(its, deps)[n]
  BY ONLY <1>3, LastKeySame
<1>6. \A n \in NodeId : LastKey(n) = LastKeyIn(its, deps)[n] /\ LastKey(n)' = LastKeyIn(its2, deps2)[n]
  BY <1>1 DEF LastKey
<1> QED
  BY <1>2, <1>5, <1>6

-----------------------------------------------------------------------------
(* What a step leaves as it is *)

\* The slots whose keys may no longer be right, below nodes V, are due to be set right.
SettlesKeys(t, W, V) ==
    \A n \in NodeId \ W : refs[n] > 0 /\ depth[n] > 1 =>
        \A k \in 1 .. Len(items[n]) - 1 :
            (OnWay(t, n, k) /\ ~persistent[n]) \/ items[n][k] \in V =>
               Guided(n, k)' \/ (OnWay(t, n, k)' /\ ~persistent'[n])

\* The arrays it writes are right.
FillsKeys(W) ==
    \A n \in W : refs'[n] > 0 /\ depth'[n] > 1 =>
        \A k \in 1 .. Len(items'[n]) - 1 : Guided(n, k)'

\* The last keys may be others below nodes V, which are its own, or no one's.
Spares(owner, t, W, V) ==
    /\ Changes(owner, t, W) /\ Changes(owner, t, V) /\ W \subseteq V
    /\ \A n \in NodeId \ V : LastKey(n)' = LastKey(n)

\* What thread u was told stays right if nothing below what it tells of is written.
LEMMA KeyToldSame ==
    ASSUME Memory, NEW V, NEW u \in Transients, Edge(u), KeyTold(u),
           UNCHANGED <<pc[u], op[u], stack[u], root[u], ptr[u], right[u], delta[u], rightInfo[u]>>,
           \A n \in NodeId : n = root[u] \/ n = ptr[u] \/ n = right[u] => n \notin V,
           stack[u] # <<>> => Frame(u).node \in NodeId \ V /\ FrameItem(u) \in NodeId \ V,
           \A n \in NodeId \ V : items'[n] = items[n] /\ LastKey(n)' = LastKey(n)
    PROVE  Edge(u)' /\ KeyTold(u)'
<1>1. /\ root[u] \in Pointer /\ ptr[u] \in Pointer /\ right[u] \in Pointer
      /\ (pc[u] \in {"replace", "split"} => root[u] # Nil) /\ (pc[u] = "split" => right[u] # Nil)
  BY DEF Memory, TypeOK, TreesOK, ResultOK, PhaseOK, Handle
<1>2. Frame(u)' = Frame(u)
  BY DEF Frame
<1>3. stack[u] # <<>> =>
        /\ FrameItem(u)' = FrameItem(u) /\ items'[Frame(u).node] = items[Frame(u).node]
  BY <1>2 DEF FrameItem
<1>4. Tip(u)' = Tip(u)
  BY <1>3 DEF Tip
<1>5. pc[u] \in {"replace", "split"} => Tip(u) \in NodeId \ V
  BY <1>1 DEF Tip, Pointer
<1>6. ASSUME pc[u] \in {"replace", "split"} PROVE LastKey(Tip(u))' = LastKey(Tip(u))
  <2>1. PICK n \in NodeId \ V : n = Tip(u)
    BY <1>5, <1>6
  <2>2. LastKey(Tip(u))' = LastKey(n)'
    BY <1>4, <2>1 DEF LastKey
  <2> QED  BY <2>1, <2>2
<1>7. ASSUME pc[u] = "split" PROVE LastKey(right[u])' = LastKey(right[u])
  <2>1. PICK n \in NodeId \ V : n = right[u]
    BY <1>1, <1>7 DEF Pointer
  <2>2. LastKey(right[u])' = LastKey(n)'
    BY <2>1 DEF LastKey
  <2> QED  BY <2>1, <2>2
<1>8. KeyTold(u)'
  BY <1>4, <1>6, <1>7 DEF KeyTold
<1>9. Edge(u)'
  BY <1>2, <1>3 DEF Edge
<1> QED
  BY <1>8, <1>9

\* What the others were told stays right.
LEMMA KeyToldKept ==
    ASSUME NEW owner, MemInv(owner), KeyInv, NEW t \in Transients,
           NEW W, NEW V, Spares(owner, t, W, V), Waits(t), Listens(t),
           NEW u \in Transients \ {t}, op'[u] = op[u]
    PROVE  Edge(u)' /\ KeyTold(u)'
<1>1. Memory /\ KeyTold(u) /\ Edge(u)
  BY DEF MemInv, KeyInv
<1>2. UNCHANGED <<pc[u], op[u], stack[u], root[u], ptr[u], right[u], delta[u], rightInfo[u]>>
  BY DEF Waits, Listens
<1>3. Changes(owner, t, V)
  BY DEF Spares
<1>4. \A n \in NodeId : n = root[u] \/ n = ptr[u] \/ n = right[u] => n \notin V
  BY <1>3, OthersSpared
<1>5. stack[u] # <<>> => Frame(u).node \in NodeId \ V /\ FrameItem(u) \in NodeId \ V
  BY <1>3, OthersSpared
<1>6. \A n \in NodeId \ V : items'[n] = items[n] /\ LastKey(n)' = LastKey(n)
  BY DEF Spares, Changes
<1> QED
  BY <1>1, <1>2, <1>4, <1>5, <1>6, KeyToldSame

\* A step that writes to nodes W, once its thread is done.
LEMMA KeyStep ==
    ASSUME NEW owner, MemInv(owner), KeyInv, NEW t \in Transients,
           NEW W, NEW V, Spares(owner, t, W, V), SettlesKeys(t, W, V), FillsKeys(W),
           Waits(t), Listens(t), \A u \in Transients \ {t} : op'[u] = op[u],
           Edge(t)', KeyTold(t)'
    PROVE  KeyInv'
<1>1. \A u \in Transients : Edge(u)' /\ KeyTold(u)'
  BY KeyToldKept
<1>2. ASSUME NEW n \in NodeId, n \notin W, refs'[n] > 0, depth'[n] > 1,
             NEW k \in 1 .. Len(items'[n]) - 1
      PROVE  Guided(n, k)' \/ (~persistent'[n] /\ \E u \in Transients : OnWay(u, n, k)')
  <2>1. /\ items'[n] = items[n] /\ meta'[n] = meta[n] /\ depth[n] > 1 /\ refs[n] > 0
        /\ (persistent'[n] => persistent[n] \/ owner[n] = t)
    BY <1>2 DEF Spares, Changes
  <2>2. Guided(n, k) \/ (~persistent[n] /\ \E u \in Transients : OnWay(u, n, k))
    BY <1>2, <2>1 DEF KeyInv, Guides
  <2>3. CASE (OnWay(t, n, k) /\ ~persistent[n]) \/ items[n][k] \in V
    BY <1>2, <2>1, <2>3 DEF SettlesKeys
  <2>4. CASE ~persistent[n] /\ \E u \in Transients \ {t} : OnWay(u, n, k)
    <3>1. PICK u \in Transients \ {t} : OnWay(u, n, k)
      BY <2>4
    <3>2. Sees(owner, u, n)
      BY <3>1 DEF OnWay, Passes, MemInv, Owned, Held
    <3>3. owner[n] # t
      BY <3>2, NoOneIsNoThread DEF Sees
    <3>4. OnWay(u, n, k)'
      BY <3>1 DEF OnWay, Waits
    <3> QED  BY <2>1, <2>4, <3>3, <3>4
  <2>5. CASE Guided(n, k) /\ items[n][k] \notin V
    <3>1. items[n][k] \in NodeId \ V
      <4>1. items[n] \in Seq(NodeId)
        BY <2>1 DEF MemInv, Memory, TypeOK, NodesOK
      <4>2. k \in 1 .. Len(items[n])
        BY <1>2, <2>1, <4>1, LenProperties
      <4> QED  BY <2>5, <4>1, <4>2, ElementOfSeq
    <3>2. PICK c \in NodeId \ V : c = items[n][k]
      BY <3>1
    <3>3. LastKey(c)' = LastKey(c)
      BY DEF Spares
    <3>4. Guided(n, k)' <=> meta'[n][k].key = LastKey(c)'
      BY <2>1, <3>2 DEF Guided, LastKey
    <3> QED  BY <2>1, <2>5, <3>2, <3>3, <3>4 DEF Guided
  <2> QED  BY <2>2, <2>3, <2>4, <2>5
<1>3. ASSUME NEW n \in W, refs'[n] > 0, depth'[n] > 1, NEW k \in 1 .. Len(items'[n]) - 1
      PROVE  Guided(n, k)'
  BY <1>3 DEF FillsKeys
<1>4. Guides'
  BY <1>2, <1>3 DEF Guides
<1> QED
  BY <1>1, <1>4 DEF KeyInv

-----------------------------------------------------------------------------
(* The nodes on a thread's path *)

\* A step that writes to them, and to nodes it makes, leaves all other last keys.
LEMMA LineKeys ==
    ASSUME NEW owner, MemInv(owner), ShapeInv, Shallow, NEW t \in Transients, Travels(t),
           NEW W, Changes(owner, t, W), W \subseteq Line(t),
           NEW V, V = Line(t)
    PROVE  Spares(owner, t, W, V)
<1>1. Memory
  BY DEF MemInv
<1>2. ASSUME NEW n \in NodeId \ V
      PROVE  /\ refs[n] > 0 /\ items'[n] = items[n] /\ depth'[n] = depth[n]
             /\ depth[n] # 1 => LastItem(items[n]) \notin V
  <2>1. refs[n] > 0
    BY <1>1, RefsNat DEF Line
  <2>2. items'[n] = items[n] /\ depth'[n] = depth[n]
    BY DEF Changes
  <2>3. ASSUME depth[n] # 1 PROVE LastItem(items[n]) \notin V
    <3>1. PICK c \in Children(n) : c = LastItem(items[n]) /\ refs[c] > 0
      BY <1>1, <2>1, <2>3, LastKeyHere
    <3>2. ASSUME c \in OwnLine(t) PROVE FALSE
      <4>1. PICK k \in 1 .. Len(items[n]) : items[n][k] = c
        BY <2>3 DEF Children
      <4>2. depth[n] > 1
        BY <1>1, <2>3 DEF Memory, TypeOK, NodesOK
      <4>3. n \in OwnLine(t)
        BY <3>2, <4>1, <4>2, LineSlot
      <4> QED  BY <4>3 DEF Line
    <3> QED  BY <3>1, <3>2 DEF Line
  <2> QED  BY <2>1, <2>2, <2>3
<1>3. \A n \in NodeId \ V : LastKey(n)' = LastKey(n)
  BY <1>1, <1>2, KeysKept
<1>4. Changes(owner, t, V)
  <2>1. ASSUME NEW n \in V PROVE owner[n] = t \/ Loose(n)
    <3>1. n \in NodeId /\ refs[n] = 0 => Loose(n)
      BY <1>1, AliveNow DEF Loose
    <3> QED  BY <3>1, LineOwned DEF Line
  <2>2. V \subseteq NodeId
    BY DEF Line, OwnLine
  <2> QED  BY <2>1, <2>2 DEF Changes
<1> QED
  BY <1>3, <1>4 DEF Spares

-----------------------------------------------------------------------------
(* A level that is through *)

\* The frame above one on the right edge of the tree is on it too.
LEMMA EdgePopped ==
    ASSUME NEW owner, MemInv(owner), NEW t \in Transients, Edge(t), op[t] = "pop_back",
           stack[t] # <<>>, Pops(t), stack'[t] # <<>>
    PROVE  Frame(t)'.rightMost /\ Frame(t)'.index = Len(items[Frame(t)'.node]) - 1
<1>1. Memory /\ Path(t)
  BY DEF MemInv, Threads
<1>2. /\ Len(stack[t]) \in Nat \ {0} /\ Len(stack'[t]) = Len(stack[t]) - 1
      /\ \A k \in 1 .. Len(stack'[t]) : k \in 1 .. Len(stack[t]) /\ stack'[t][k] = stack[t][k]
  BY <1>1, PoppedFrames
<1>3. PICK x : x = Len(stack[t])
  OBVIOUS
<1>4. stack[t] \in Seq(FrameSet) /\ stack'[t] = SubSeq(stack[t], 1, x - 1) /\ x \in Nat \ {0}
  BY <1>1, <1>2, <1>3, PoppedFrames DEF Memory, TypeOK, ControlOK
<1>5. x - 1 \in 1 .. x /\ x - 1 \in 1 .. x - 1 /\ x \in 1 .. x
  <2>1. stack'[t] \in Seq(FrameSet)
    <3>1. 1 \in 1 .. x + 1 /\ x - 1 \in 1 - 1 .. x
      BY <1>4
    <3>2. PICK s \in Seq(FrameSet) : s = stack[t] /\ x = Len(s)
      BY <1>3, <1>4
    <3>3. SubSeq(s, 1, x - 1) \in Seq(FrameSet)
      BY ONLY <3>1, <3>2, <1>4, SubSeqProperties
    <3> QED  BY <1>4, <3>2, <3>3
  <2>2. Len(stack'[t]) # 0
    BY <2>1, EmptySeq
  <2> QED  BY <1>2, <1>3, <2>2
<1>6. Frame(t) = stack[t][x] /\ Frame(t)' = stack'[t][x - 1] /\ Frame(t)' = stack[t][x - 1]
  BY <1>2, <1>3, <1>5 DEF Frame
<1>7. stack[t][x].rightMost /\ stack[t][x].rightMost = OnEdgeTo(t, x - 1)
  BY <1>1, <1>3, <1>5, <1>6 DEF Edge, Path
<1>8. OnEdgeTo(t, x - 1)
  BY <1>7
<1>9. OnEdgeTo(t, x - 1 - 1)
  BY <1>4, <1>8 DEF OnEdgeTo
<1>10. stack[t][x - 1].rightMost = OnEdgeTo(t, x - 1 - 1)
  BY <1>1, <1>3, <1>5 DEF Path
<1>11. stack[t][x - 1].index = Len(items[stack[t][x - 1].node]) - 1
  BY <1>5, <1>8 DEF OnEdgeTo
<1> QED
  BY <1>6, <1>9, <1>10, <1>11

\* The continuation above is told the last keys below the new version, or both halves.
KeyTidings(t, dst) ==
    /\ pc'[t] \in {"replace", "split"}
    /\ pc'[t] = "replace" /\ op[t] # "pop_back" => delta'[t].key = LastKey(dst)'
    /\ pc'[t] = "split" =>
         delta'[t].key = LastKey(dst)' /\ rightInfo'[t].key = LastKey(right[t])'

\* A level of a call is through with node n, and its arrays are right.
LEMMA KeyClimb ==
    ASSUME NEW owner, MemInv(owner), ShapeInv, Shallow, KeyInv, NEW t \in Transients,
           NEW n, Stands(owner, t, n), Through(t, n),
           NEW dst, NEW R, NEW K, Climbed(t, n, dst, R, K),
           NEW W, W = {dst} \cup R, FillsKeys(W), KeyTidings(t, dst)
    PROVE  KeyInv'
<1>1. /\ Changes(owner, t, W)
      /\ ~persistent[n] => dst = n
      /\ \A m \in W : (m = n /\ ~persistent[n]) \/ (m \in FreeNodes /\ Loose(m))
      /\ \A m \in NodeId \ W : persistent'[m] <=> persistent[m]
      /\ \A p, k : Above(owner, t, n, p, k) =>
           /\ p \in NodeId \ W /\ items'[p] = items[p]
  BY ClimbWrites
<1>2. Memory /\ n \in NodeId /\ ~Busy(t) /\ (stack'[t] # <<>> => \E p, k : Above(owner, t, n, p, k))
  BY DEF MemInv, Stands
<1>3. Waits(t) /\ Listens(t) /\ op' = op
  BY DEF Climbed
<1>4. Travels(t) /\ (~persistent[n] => n \in OwnLine(t))
  BY <1>2, ThroughLine
<1>5. PICK V : V = Line(t)
  OBVIOUS
<1>6. W \subseteq Line(t)
  <2>1. \A m \in FreeNodes : m \in Line(t)
    BY DEF FreeNodes, Line
  <2> QED  BY <1>1, <1>4, <2>1 DEF Line
<1>7. Spares(owner, t, W, V)
  BY <1>1, <1>4, <1>5, <1>6, LineKeys
<1>8. SettlesKeys(t, W, V)
  <2> SUFFICES ASSUME NEW m \in NodeId \ W, refs[m] > 0, depth[m] > 1,
                      NEW k \in 1 .. Len(items[m]) - 1,
                      (OnWay(t, m, k) /\ ~persistent[m]) \/ items[m][k] \in V
               PROVE  OnWay(t, m, k)' /\ ~persistent'[m]
    BY DEF SettlesKeys
  <2>1. /\ ~persistent[m]
        /\ Passes(stack[t], m, k)
    <3>1. CASE OnWay(t, m, k) /\ ~persistent[m]
      BY <3>1 DEF OnWay
    <3>2. CASE items[m][k] \in V
      <4>1. PICK c : c = items[m][k]
        OBVIOUS
      <4>2. items[m] \in Seq(NodeId)
        BY <1>2 DEF Memory, TypeOK, NodesOK
      <4>3. k \in 1 .. Len(items[m])
        BY <4>2, LenProperties
      <4>4. c \in Children(m)
        <5>1. depth[m] # 1
          OBVIOUS
        <5> QED  BY <4>1, <4>3, <5>1 DEF Children
      <4>5. c \in NodeId /\ refs[c] > 0
        BY <1>2, <4>1, <4>2, <4>3, <4>4, ElementOfSeq, AliveNow DEF Placed
      <4>6. c \in OwnLine(t)
        BY <1>5, <3>2, <4>1, <4>5 DEF Line
      <4> QED  BY <1>4, <4>1, <4>3, <4>6, LineSlot
    <3> QED  BY <3>1, <3>2
  <2>2. m # n
    BY <1>1, <2>1
  <2>3. Passes(stack'[t], m, k)
    BY <2>1, <2>2, ThroughFrames
  <2>4. ~persistent'[m]
    BY <1>1, <2>1
  <2> QED  BY <2>3, <2>4 DEF OnWay, KeyTidings
<1>9. KeyTold(t)'
  <2>1. Tip(t)' = dst
    BY TipAfter
  <2>2. LastKey(Tip(t))' = LastKey(dst)'
    BY <2>1 DEF LastKey
  <2> QED  BY <1>3, <2>2 DEF KeyTold, KeyTidings
<1>10. Edge(t)'
  <2> SUFFICES ASSUME op[t] = "pop_back", stack'[t] # <<>>
               PROVE  Frame(t)'.rightMost
                      /\ Frame(t)'.index = Len(items'[Frame(t)'.node]) - 1
    BY <1>3 DEF Edge
  <2>1. PICK p, k : Above(owner, t, n, p, k)
    BY <1>2
  <2>2. Frame(t)'.node = p /\ items'[p] = items[p]
    BY <1>1, <2>1 DEF Above
  <2>3. Frame(t)'.rightMost /\ Frame(t)'.index = Len(items[Frame(t)'.node]) - 1
    <3>0. Edge(t)
      BY DEF KeyInv
    <3>1. CASE stack'[t] = stack[t]
      <4>1. Frame(t)' = Frame(t)
        BY <3>1 DEF Frame
      <4> QED  BY <3>0, <3>1, <4>1 DEF Edge
    <3>2. CASE stack[t] # <<>> /\ Pops(t)
      BY <3>0, <3>2, EdgePopped
    <3> QED  BY <3>1, <3>2 DEF Through
  <2> QED  BY <2>2, <2>3
<1> QED
  BY <1>3, <1>7, <1>8, <1>9, <1>10, KeyStep

-----------------------------------------------------------------------------
(* The keys in the arrays of an inner node *)

\* The keys in q are the last ones below the children s, which are of C; but for
\* number x, and for the last.
Keyed(C, s, q, x) ==
    /\ s \in Seq(C) /\ (\E S : q \in Seq(S)) /\ Len(q) = Len(s)
    /\ \A k \in 1 .. Len(s) - 1 : k # x => q[k].key = LastKey(s[k])

\* The child and the key of number x are replaced.
LEMMA KeyedReplace ==
    ASSUME NEW C, NEW s, NEW q, NEW i, i \in 0 .. Len(s) - 1, Keyed(C, s, q, i + 1),
           NEW c \in C, NEW e, i # Len(s) - 1 => e.key = LastKey(c)
    PROVE  /\ Keyed(C, ReplaceItem(s, i, c), ReplaceItem(q, i, e), 0)
           /\ LastItem(ReplaceItem(s, i, c)) = IF i = Len(s) - 1 THEN c ELSE LastItem(s)
           /\ ReplaceItem(s, i, c) # <<>>
<1>1. PICK S : q \in Seq(S)
  BY DEF Keyed
<1>2. PICK T : T = S \cup {e}
  OBVIOUS
<1>3. /\ q \in Seq(T) /\ e \in T /\ Len(q) = Len(s) /\ Len(s) \in Nat
      /\ i \in 0 .. Len(q) - 1 /\ s \in Seq(C)
  BY <1>1, <1>2, SeqGrows, LenProperties DEF Keyed
<1>4. PICK a, b : a = ReplaceItem(s, i, c) /\ b = ReplaceItem(q, i, e)
  OBVIOUS
<1>5. /\ b \in Seq(T) /\ Len(b) = Len(q)
      /\ \A k \in 1 .. Len(q) : b[k] = IF k = i + 1 THEN e ELSE q[k]
  <2>1. q \in Seq(T) /\ i \in 0 .. Len(q) - 1 /\ e \in T
    BY <1>3
  <2>2. ReplaceItem(q, i, e) \in Seq(T) /\ Len(ReplaceItem(q, i, e)) = Len(q)
    BY ONLY <2>1, ReplaceItemProperties, SMTT(30)
  <2>3. \A k \in 1 .. Len(q) : ReplaceItem(q, i, e)[k] = IF k = i + 1 THEN e ELSE q[k]
    BY ONLY <2>1, ReplaceItemProperties, SMTT(30)
  <2> QED  BY <1>4, <2>2, <2>3
<1>6. /\ a \in Seq(C) /\ Len(a) = Len(s)
      /\ \A k \in 1 .. Len(s) : a[k] = IF k = i + 1 THEN c ELSE s[k]
  <2>1. PICK d \in C : d = c
    OBVIOUS
  <2>2. PICK z \in Seq(C) : z = s
    BY <1>3
  <2>3. i \in 0 .. Len(z) - 1
    BY <2>2
  <2>4. /\ ReplaceItem(z, i, d) \in Seq(C) /\ Len(ReplaceItem(z, i, d)) = Len(z)
        /\ \A k \in 1 .. Len(z) : ReplaceItem(z, i, d)[k] = IF k = i + 1 THEN d ELSE z[k]
    BY ONLY <2>3, ReplaceItemProperties
  <2> QED  BY <1>4, <2>1, <2>2, <2>4
<1>7. \A k \in 1 .. Len(a) - 1 : b[k].key = LastKey(a[k])
  BY <1>3, <1>5, <1>6 DEF Keyed
<1>8. Keyed(C, a, b, 0)
  BY <1>3, <1>5, <1>6, <1>7 DEF Keyed
<1>9. a # <<>> /\ LastItem(a) = IF i = Len(s) - 1 THEN c ELSE LastItem(s)
  <2>1. Len(a) # 0 /\ Len(a) \in 1 .. Len(s) /\ (i = Len(s) - 1 <=> Len(a) = i + 1)
    BY <1>3, <1>6
  <2> QED  BY <1>6, <2>1, EmptySeq DEF LastItem
<1> QED
  BY <1>4, <1>8, <1>9

\* Two children and their keys take the place of one.
LEMMA KeyedSplit ==
    ASSUME NEW C, NEW s, NEW q, NEW i, i \in 0 .. Len(s) - 1, Keyed(C, s, q, i + 1),
           NEW l \in C, NEW e, e.key = LastKey(l),
           NEW r \in C, NEW f, i # Len(s) - 1 => f.key = LastKey(r)
    PROVE  /\ Keyed(C, SplitChild(s, i, l, r), SplitChild(q, i, e, f), 0)
           /\ LastItem(SplitChild(s, i, l, r)) = IF i = Len(s) - 1 THEN r ELSE LastItem(s)
           /\ SplitChild(s, i, l, r) # <<>>
<1>1. PICK S : q \in Seq(S)
  BY DEF Keyed
<1>2. PICK T : T = S \cup {e, f}
  OBVIOUS
<1>3. /\ q \in Seq(T) /\ e \in T /\ f \in T /\ Len(q) = Len(s) /\ Len(s) \in Nat
      /\ i \in 0 .. Len(q) - 1 /\ s \in Seq(C)
  BY <1>1, <1>2, SeqGrows, LenProperties DEF Keyed
<1>4. PICK a, b : a = SplitChild(s, i, l, r) /\ b = SplitChild(q, i, e, f)
  OBVIOUS
<1>5. /\ b \in Seq(T) /\ Len(b) = Len(q) + 1
      /\ \A k \in 1 .. Len(q) + 1 :
           b[k] = IF k = i + 1 THEN e ELSE IF k = i + 2 THEN f
                  ELSE IF k < i + 1 THEN q[k] ELSE q[k - 1]
  <2>1. q \in Seq(T) /\ i \in 0 .. Len(q) - 1 /\ e \in T /\ f \in T
    BY <1>3
  <2>2. SplitChild(q, i, e, f) \in Seq(T) /\ Len(SplitChild(q, i, e, f)) = Len(q) + 1
    BY ONLY <2>1, SplitChildProperties, SMTT(30)
  <2>3. \A k \in 1 .. Len(q) + 1 :
          SplitChild(q, i, e, f)[k] =
            IF k = i + 1 THEN e ELSE IF k = i + 2 THEN f
            ELSE IF k < i + 1 THEN q[k] ELSE q[k - 1]
    BY ONLY <2>1, SplitChildItems, SMTT(30)
  <2> QED  BY <1>4, <2>2, <2>3
<1>6. /\ a \in Seq(C) /\ Len(a) = Len(s) + 1
      /\ \A k \in 1 .. Len(s) + 1 :
           a[k] = IF k = i + 1 THEN l ELSE IF k = i + 2 THEN r
                  ELSE IF k < i + 1 THEN s[k] ELSE s[k - 1]
  <2>1. s \in Seq(C) /\ i \in 0 .. Len(s) - 1 /\ l \in C /\ r \in C
    BY <1>3
  <2>2. SplitChild(s, i, l, r) \in Seq(C) /\ Len(SplitChild(s, i, l, r)) = Len(s) + 1
    BY ONLY <2>1, SplitChildProperties, SMTT(30)
  <2>3. \A k \in 1 .. Len(s) + 1 :
          SplitChild(s, i, l, r)[k] =
            IF k = i + 1 THEN l ELSE IF k = i + 2 THEN r
            ELSE IF k < i + 1 THEN s[k] ELSE s[k - 1]
    BY ONLY <2>1, SplitChildItems, SMTT(30)
  <2> QED  BY <1>4, <2>2, <2>3
<1>7. ASSUME NEW k \in 1 .. Len(a) - 1 PROVE b[k].key = LastKey(a[k])
  <2>1. k \in 1 .. Len(s) + 1 /\ k \in 1 .. Len(q) + 1
    BY <1>3, <1>6
  <2>2. CASE k = i + 1
    BY <1>5, <1>6, <2>1, <2>2
  <2>3. CASE k = i + 2
    <3>1. i # Len(s) - 1 /\ k # i + 1
      BY <1>3, <1>6, <2>3
    <3> QED  BY <1>5, <1>6, <2>1, <2>3, <3>1
  <2>4. CASE k < i + 1
    <3>1. k \in 1 .. Len(s) - 1 /\ k # i + 1 /\ k # i + 2
      BY <1>3, <2>4
    <3>2. b[k] = q[k] /\ a[k] = s[k]
      BY <1>5, <1>6, <2>1, <2>4, <3>1
    <3> QED  BY <3>1, <3>2 DEF Keyed
  <2>5. CASE k > i + 2
    <3>1. k - 1 \in 1 .. Len(s) - 1 /\ k - 1 # i + 1 /\ k # i + 1 /\ k # i + 2 /\ ~(k < i + 1)
      BY <1>3, <1>6, <2>5
    <3>2. b[k] = q[k - 1] /\ a[k] = s[k - 1]
      BY <1>5, <1>6, <2>1, <3>1
    <3> QED  BY <3>1, <3>2 DEF Keyed
  <2> QED  BY <1>3, <2>2, <2>3, <2>4, <2>5
<1>8. Keyed(C, a, b, 0)
  BY <1>3, <1>5, <1>6, <1>7 DEF Keyed
<1>9. a # <<>> /\ LastItem(a) = IF i = Len(s) - 1 THEN r ELSE LastItem(s)
  <2>1. PICK x : x = Len(s) + 1
    OBVIOUS
  <2>2. /\ x # 0 /\ x \in 1 .. Len(s) + 1 /\ Len(a) = x /\ x - 1 = Len(s)
        /\ (i = Len(s) - 1 <=> x = i + 2) /\ x # i + 1 /\ ~(x < i + 1)
    BY <1>3, <1>6, <2>1
  <2>3. a[x] = IF x = i + 2 THEN r ELSE s[x - 1]
    BY <1>6, <2>2
  <2> QED  BY <1>6, <2>2, <2>3, EmptySeq DEF LastItem
<1> QED
  BY <1>4, <1>8, <1>9

\* A child goes with its key, and others are left.
LEMMA KeyedErase ==
    ASSUME NEW C, NEW s, NEW q, NEW i, i \in 0 .. Len(s) - 1, Keyed(C, s, q, i + 1), Len(s) > 1
    PROVE  /\ Keyed(C, EraseItem(s, i), EraseItem(q, i), 0)
           /\ LastItem(EraseItem(s, i)) = IF i = Len(s) - 1 THEN s[i] ELSE LastItem(s)
           /\ i = Len(s) - 1 => s[i] \in C /\ q[i].key = LastKey(s[i])
           /\ EraseItem(s, i) # <<>>
<1>1. PICK S : q \in Seq(S)
  BY DEF Keyed
<1>3. /\ Len(q) = Len(s) /\ Len(s) \in Nat /\ i \in 0 .. Len(q) /\ i \in 0 .. Len(s)
      /\ Len(s) > 0 /\ Len(q) > 0 /\ s \in Seq(C)
  BY <1>1, LenProperties DEF Keyed
<1>4. PICK a, b : a = EraseItem(s, i) /\ b = EraseItem(q, i)
  OBVIOUS
<1>5. /\ b \in Seq(S) /\ Len(b) = Len(q) - 1
      /\ \A k \in 1 .. Len(q) - 1 : b[k] = IF k <= i THEN q[k] ELSE q[k + 1]
  BY ONLY <1>1, <1>3, <1>4, EraseItemProperties
<1>6. /\ a \in Seq(C) /\ Len(a) = Len(s) - 1
      /\ \A k \in 1 .. Len(s) - 1 : a[k] = IF k <= i THEN s[k] ELSE s[k + 1]
  BY ONLY <1>3, <1>4, EraseItemProperties
<1>7. ASSUME NEW k \in 1 .. Len(a) - 1 PROVE b[k].key = LastKey(a[k])
  <2>0. k \in 1 .. Len(s) - 1 /\ k \in 1 .. Len(q) - 1
    BY <1>3, <1>6
  <2>1. CASE k <= i
    <3>1. k # i + 1
      BY <1>3, <2>1
    <3>2. b[k] = q[k] /\ a[k] = s[k]
      BY <1>5, <1>6, <2>0, <2>1
    <3> QED  BY <2>0, <3>1, <3>2 DEF Keyed
  <2>2. CASE ~(k <= i)
    <3>1. k + 1 \in 1 .. Len(s) - 1 /\ k + 1 # i + 1
      BY <1>3, <1>6, <2>2
    <3>2. b[k] = q[k + 1] /\ a[k] = s[k + 1]
      BY <1>5, <1>6, <2>0, <2>2
    <3> QED  BY <3>1, <3>2 DEF Keyed
  <2> QED  BY <2>1, <2>2
<1>8. Keyed(C, a, b, 0)
  BY <1>3, <1>5, <1>6, <1>7 DEF Keyed
<1>9. a # <<>> /\ LastItem(a) = IF i = Len(s) - 1 THEN s[i] ELSE LastItem(s)
  <2>1. PICK x : x = Len(s) - 1
    OBVIOUS
  <2>2. /\ x # 0 /\ x \in 1 .. Len(s) - 1 /\ Len(a) = x /\ x + 1 = Len(s)
        /\ (x <= i <=> x = i)
    BY <1>3, <1>6, <2>1
  <2>3. a[x] = IF x <= i THEN s[x] ELSE s[x + 1]
    BY <1>6, <2>2
  <2> QED  BY <1>6, <2>1, <2>2, <2>3, EmptySeq DEF LastItem
<1>10. i = Len(s) - 1 => s[i] \in C /\ q[i].key = LastKey(s[i])
  <2>1. i = Len(s) - 1 => i \in 1 .. Len(s) - 1 /\ i \in 1 .. Len(s) /\ i # i + 1
    BY <1>3
  <2> QED  BY <1>3, <2>1, ElementOfSeq DEF Keyed
<1> QED
  BY <1>4, <1>8, <1>9, <1>10

\* Both halves of a node that splits.
LEMMA KeyedParts ==
    ASSUME NEW C, NEW s, NEW q, Keyed(C, s, q, 0), NEW sp \in 1 .. Len(s) - 1
    PROVE  /\ Keyed(C, LeftPart(s, sp), LeftPart(q, sp), 0) /\ LeftPart(s, sp) # <<>>
           /\ Keyed(C, RightPart(s, sp), RightPart(q, sp), 0) /\ RightPart(s, sp) # <<>>
<1>1. PICK S : q \in Seq(S)
  BY DEF Keyed
<1>2. /\ Len(q) = Len(s) /\ Len(s) \in Nat /\ s \in Seq(C) /\ sp \in 0 .. Len(q)
  BY <1>1, LenProperties DEF Keyed
<1>3. ASSUME NEW D, NEW z \in Seq(D), Len(z) = Len(s)
      PROVE  /\ LeftPart(z, sp) \in Seq(D) /\ Len(LeftPart(z, sp)) = sp
             /\ RightPart(z, sp) \in Seq(D) /\ Len(RightPart(z, sp)) = Len(s) - sp
             /\ \A k \in 1 .. sp : LeftPart(z, sp)[k] = z[k]
             /\ \A k \in 1 .. Len(s) - sp : RightPart(z, sp)[k] = z[k + sp]
  <2>1. sp \in 0 .. Len(z)
    BY <1>2, <1>3
  <2>2. /\ LeftPart(z, sp) \in Seq(D) /\ Len(LeftPart(z, sp)) = sp
        /\ RightPart(z, sp) \in Seq(D) /\ Len(RightPart(z, sp)) = Len(s) - sp
    BY <1>3, <2>1, SplitKeepsItems
  <2>3. \A k \in 1 .. sp : LeftPart(z, sp)[k] = z[k]
    BY <1>2, <1>3, SubSeqProperties, ElementOfSeq DEF LeftPart
  <2>4. \A k \in 1 .. Len(s) - sp : RightPart(z, sp)[k] = z[k + sp]
    BY <1>2, <1>3, SubSeqProperties, ElementOfSeq DEF RightPart
  <2> QED  BY <2>2, <2>3, <2>4
<1>4. ASSUME NEW a, NEW b, NEW o \in Nat, a \in Seq(C), b \in Seq(S), Len(a) = Len(b),
             o + Len(a) <= Len(s), Len(a) > 0,
             \A k \in 1 .. Len(a) : a[k] = s[k + o] /\ b[k] = q[k + o]
      PROVE  Keyed(C, a, b, 0) /\ a # <<>>
  <2>1. Len(a) \in Nat
    BY <1>4, LenProperties
  <2>2. ASSUME NEW k \in 1 .. Len(a) - 1 PROVE b[k].key = LastKey(a[k])
    <3>1. k + o \in 1 .. Len(s) - 1 /\ k + o # 0 /\ k \in 1 .. Len(a)
      BY <1>2, <1>4, <2>1
    <3> QED  BY <1>2, <1>4, <3>1 DEF Keyed
  <2>3. a # <<>>
    BY <1>4, <2>1, EmptySeq
  <2> QED  BY <1>4, <2>2, <2>3 DEF Keyed
<1>5. Keyed(C, LeftPart(s, sp), LeftPart(q, sp), 0) /\ LeftPart(s, sp) # <<>>
  <2>1. PICK a, b : a = LeftPart(s, sp) /\ b = LeftPart(q, sp)
    OBVIOUS
  <2>2. /\ a \in Seq(C) /\ Len(a) = sp /\ \A k \in 1 .. sp : a[k] = s[k]
        /\ b \in Seq(S) /\ Len(b) = sp /\ \A k \in 1 .. sp : b[k] = q[k]
    BY <1>1, <1>2, <1>3, <2>1
  <2>3. 0 \in Nat /\ 0 + Len(a) <= Len(s) /\ Len(a) > 0
        /\ \A k \in 1 .. Len(a) : a[k] = s[k + 0] /\ b[k] = q[k + 0]
    BY <1>2, <2>2
  <2>4. Keyed(C, a, b, 0) /\ a # <<>>
    BY <1>4, <2>2, <2>3
  <2> QED  BY <2>1, <2>4
<1>6. Keyed(C, RightPart(s, sp), RightPart(q, sp), 0) /\ RightPart(s, sp) # <<>>
  <2>1. PICK a, b : a = RightPart(s, sp) /\ b = RightPart(q, sp)
    OBVIOUS
  <2>2. /\ a \in Seq(C) /\ Len(a) = Len(s) - sp
        /\ b \in Seq(S) /\ Len(b) = Len(s) - sp
        /\ \A k \in 1 .. Len(s) - sp : a[k] = s[k + sp] /\ b[k] = q[k + sp]
    BY <1>1, <1>2, <1>3, <2>1
  <2>3. sp \in Nat /\ sp + Len(a) <= Len(s) /\ Len(a) = Len(b) /\ Len(a) > 0
        /\ \A k \in 1 .. Len(a) : a[k] = s[k + sp] /\ b[k] = q[k + sp]
    BY <1>2, <2>2
  <2>4. Keyed(C, a, b, 0) /\ a # <<>>
    BY <1>4, <2>2, <2>3
  <2> QED  BY <2>1, <2>4
<1> QED
  BY <1>5, <1>6

-----------------------------------------------------------------------------
(* The levels above the leaf *)

\* A slot of a node that thread t may write to is right, if t is not to set it right.
LEMMA GuidedHere ==
    ASSUME NEW owner, MemInv(owner), KeyInv, NEW t \in Transients,
           NEW n \in NodeId, refs[n] > 0, depth[n] > 1, Sees(owner, t, n),
           NEW k \in 1 .. Len(items[n]) - 1, ~OnWay(t, n, k)
    PROVE  Guided(n, k)
<1> SUFFICES ASSUME ~persistent[n], NEW u \in Transients, OnWay(u, n, k) PROVE FALSE
  BY DEF KeyInv, Guides
<1>1. Held(owner, u) /\ Owned(owner)
  BY DEF MemInv, Owned
<1>2. Sees(owner, u, n)
  BY <1>1 DEF Held, OnWay, Passes
<1>3. owner[n] # NoOne
  BY <1>1 DEF Owned
<1>4. u = t
  BY <1>2, <1>3 DEF Sees
<1> QED
  BY <1>4

\* What a node knows of the keys of its children when its continuation is called: all
\* but that of the child the call has gone through.
LEMMA FrameKeyed ==
    ASSUME NEW owner, MemInv(owner), CountInv, KeyInv, NEW t \in Transients,
           NEW phase \in {"replace", "split", "erase"}, AtNode(t, phase),
           NEW n, n = Frame(t).node, NEW i, i = Frame(t).index
    PROVE  Keyed(Kin(t, n), items[n], meta[n], i + 1) /\ i \in 0 .. Len(items[n]) - 1
<1>1. /\ Tallies(Kin(t, n), items[n], meta[n], i + 1) /\ i \in 0 .. Len(items[n]) - 1
  BY FrameTallies
<1>2. /\ refs[n] > 0 /\ Sees(owner, t, n) /\ n \in NodeId
      /\ Frame(t) = stack[t][Len(stack[t])] /\ Len(stack[t]) \in Nat \ {0}
      /\ \A j \in 1 .. Len(stack[t]) - 1 : depth[stack[t][j].node] # depth[n]
  BY FrameHeld
<1>3. depth[n] > 1
  BY InnerHeld
<1>4. ASSUME NEW k \in 1 .. Len(items[n]) - 1, k # i + 1 PROVE Guided(n, k)
  <2>1. ASSUME OnWay(t, n, k) PROVE FALSE
    <3>1. PICK j \in 1 .. Len(stack[t]) : stack[t][j].node = n /\ stack[t][j].index = k - 1
      BY <2>1 DEF OnWay, Passes
    <3>2. j = Len(stack[t])
      <4>1. j \in 1 .. Len(stack[t]) - 1 \/ j = Len(stack[t])
        BY <1>2
      <4> QED  BY <1>2, <3>1, <4>1
    <3>3. i = k - 1
      BY <1>2, <3>1, <3>2
    <3> QED  BY <1>4, <3>3
  <2> QED  BY <1>2, <1>3, <2>1, GuidedHere
<1>5. Keyed(Kin(t, n), items[n], meta[n], i + 1)
  BY <1>1, <1>4 DEF Tallies, Entries, Keyed, Guided
<1> QED
  BY <1>1, <1>5

\* The children of the new versions of n are as they were, and all below them is.
KinStays(t, n) ==
    \A c \in Kin(t, n) :
          /\ c \in NodeId /\ depth[n] = depth[c] + 1 /\ depth[c] \in Level
          /\ depth'[c] = depth[c] /\ LastKey(c)' = LastKey(c)

\* Below the children a node may have then, all is as it was.
LEMMA KinKept ==
    ASSUME NEW owner, MemInv(owner), ShapeInv, Shallow, NEW t \in Transients,
           NEW phase \in {"replace", "split", "erase"}, AtNode(t, phase),
           NEW n, n = Frame(t).node, Stands(owner, t, n),
           NEW dst, NEW R, NEW K, Climbed(t, n, dst, R, K)
    PROVE  KinStays(t, n)
<1> SUFFICES ASSUME NEW c \in Kin(t, n)
             PROVE  /\ c \in NodeId /\ depth[n] = depth[c] + 1 /\ depth[c] \in Level
                    /\ depth'[c] = depth[c] /\ LastKey(c)' = LastKey(c)
  BY DEF KinStays
<1>1. PICK W : W = {dst} \cup R
  OBVIOUS
<1>2. PICK V : V = Line(t)
  OBVIOUS
<1>3. /\ Changes(owner, t, W)
      /\ \A m \in W : (m = n /\ ~persistent[n]) \/ (m \in FreeNodes /\ Loose(m))
  BY <1>1, ClimbWrites
<1>4. /\ Memory /\ Path(t) /\ pc[t] = phase /\ ~Busy(t) /\ n \in NodeId
      /\ Frame(t) = stack[t][Len(stack[t])] /\ Len(stack[t]) \in Nat \ {0}
      /\ depth[n] = depth[root[t]] - Len(stack[t]) + 1 /\ root[t] \in NodeId
  BY FrameHeld
<1>5. c \in NodeId /\ refs[c] > 0 /\ depth[n] = depth[c] + 1
  <2>1. /\ \A m \in Children(n) : m \in NodeId /\ refs[m] > 0 /\ depth[n] = depth[m] + 1
        /\ \A m \in NodeId : m = ptr[t] \/ m = right[t] =>
             refs[m] = 1 /\ depth[n] = depth[m] + 1
        /\ ptr[t] \in Pointer /\ right[t] \in Pointer
    BY InnerHeld
  <2> QED  BY <2>1 DEF Kin, Pointer
<1>6. depth[c] \in Level /\ depth[c] \in Nat
  BY <1>5, TreeAssumption DEF Shallow, Level
<1>7. Travels(t)
  BY <1>4 DEF Travels
<1>8. W \subseteq Line(t)
  <2>1. \A m \in FreeNodes : m \in Line(t)
    BY DEF FreeNodes, Line
  <2>2. ~persistent[n] => n \in OwnLine(t)
    BY <1>4 DEF OwnLine
  <2> QED  BY <1>3, <2>1, <2>2 DEF Line
<1>9. Spares(owner, t, W, V)
  BY <1>2, <1>3, <1>7, <1>8, LineKeys
<1>10. c \notin V
  <2>1. ASSUME NEW j \in 1 .. Len(stack[t]) PROVE c # stack[t][j].node
    <3>1. depth[stack[t][j].node] = depth[root[t]] - j + 1
      BY <1>4 DEF Path
    <3>2. depth[root[t]] \in Nat
      BY <1>4 DEF Memory, TypeOK, NodesOK
    <3>3. PICK h \in Nat, e \in Nat, l \in Nat :
            h = depth[root[t]] /\ e = depth[c] /\ l = Len(stack[t])
      BY <1>4, <1>6, <3>2
    <3>4. depth[stack[t][j].node] = h - j + 1 /\ e + 1 = h - l + 1 /\ j \in 1 .. l
      BY <1>4, <1>5, <3>1, <3>3
    <3>5. h - j + 1 # e
      BY ONLY <3>4, h \in Nat, e \in Nat, l \in Nat
    <3> QED  BY <3>3, <3>4, <3>5
  <2>2. c \notin OwnLine(t)
    BY <1>4, <2>1 DEF OwnLine
  <2> QED  BY <1>2, <1>5, <2>2 DEF Line
<1>11. LastKey(c)' = LastKey(c) /\ depth'[c] = depth[c]
  BY <1>5, <1>9, <1>10 DEF Spares, Changes
<1> QED
  BY <1>5, <1>6, <1>11

\* Arrays that node n may have then, s and q, are right.
Rekeyed(t, n, s, q) == Keyed(Kin(t, n), s, q, 0) /\ s # <<>>

\* The arrays of a new version, or of a right half.
LEMMA KinKeys ==
    ASSUME NEW owner, MemInv(owner), ShapeInv, Shallow, NEW t \in Transients,
           NEW phase \in {"replace", "split", "erase"}, AtNode(t, phase),
           NEW n, n = Frame(t).node, Stands(owner, t, n),
           NEW dst, NEW R, NEW K, Climbed(t, n, dst, R, K),
           NEW m \in NodeId, depth'[m] = depth[n],
           Rekeyed(t, n, items'[m], meta'[m])
    PROVE  /\ \A k \in 1 .. Len(items'[m]) - 1 : Guided(m, k)'
           /\ LastKeyIn(items', depth')[m] = LastKey(LastItem(items'[m]))
           /\ LastItem(items'[m]) \in Kin(t, n)
<1>0. KinStays(t, n)
  BY KinKept
<1>1. \A c \in Kin(t, n) :
        /\ c \in NodeId /\ depth[n] = depth[c] + 1 /\ depth[c] \in Level
        /\ depth'[c] = depth[c] /\ LastKey(c)' = LastKey(c)
  BY <1>0 DEF KinStays
<1> USE DEF Rekeyed
<1>2. items'[m] \in Seq(Kin(t, n)) /\ Len(items'[m]) \in Nat
  BY LenProperties DEF Keyed
<1>3. ASSUME NEW k \in 1 .. Len(items'[m]) - 1 PROVE Guided(m, k)'
  <2>1. PICK c : c = items'[m][k]
    OBVIOUS
  <2>2. k \in 1 .. Len(items'[m]) /\ k # 0
    BY <1>2
  <2>3. c \in Kin(t, n)
    BY <1>2, <2>1, <2>2, ElementOfSeq
  <2>4. meta'[m][k].key = LastKey(c)
    BY <2>1, <2>2 DEF Keyed
  <2>5. LastKey(items[m][k])' = LastKey(c)'
    BY <2>1 DEF LastKey
  <2> QED  BY <1>1, <2>3, <2>4, <2>5 DEF Guided
<1>4. PICK c : c = LastItem(items'[m])
  OBVIOUS
<1>5. c \in Kin(t, n)
  <2>1. Len(items'[m]) \in 1 .. Len(items'[m])
    BY <1>2, EmptySeq
  <2> QED  BY <1>2, <1>4, <2>1, ElementOfSeq DEF LastItem
<1>6. LastKeyIn(items', depth')[m] = LastKeyIn(items', depth')[c]
  <2>1. PICK its, deps : its = items' /\ deps = depth'
    OBVIOUS
  <2>2. /\ deps[m] \in Level /\ c = LastItem(its[m]) /\ deps[m] = deps[c] + 1
        /\ deps[c] \in Level /\ c \in NodeId
    <3>1. m \in NodeId /\ n \in NodeId /\ depth[n] \in Level
      BY FrameHeld DEF Shallow
    <3> QED  BY <1>1, <1>4, <1>5, <2>1, <3>1
  <2>3. LastKeyIn(its, deps)[m] = LastKeyIn(its, deps)[c]
    BY <2>2, LastKeyDown
  <2> QED  BY <2>1, <2>3
<1>7. LastKeyIn(items', depth')[c] = LastKey(c)
  BY <1>1, <1>5 DEF LastKey
<1> QED
  BY <1>3, <1>4, <1>5, <1>6, <1>7

-----------------------------------------------------------------------------
(* A continuation of an inner node *)

\* It goes on up.
LEMMA InnerThrough ==
    ASSUME NEW t \in Transients, NEW phase \in {"replace", "split", "erase"}, AtNode(t, phase),
           NEW n, n = Frame(t).node, Pops(t)
    PROVE  Through(t, n)
BY DEF AtNode, Through

\* The last key below the node it is called for is that below its last child.
LEMMA FrameLastKey ==
    ASSUME NEW owner, MemInv(owner), ShapeInv, Shallow, NEW t \in Transients,
           NEW phase \in {"replace", "split", "erase"}, AtNode(t, phase),
           NEW n, n = Frame(t).node
    PROVE  LastKey(n) = LastKey(LastItem(items[n]))
<1>1. Memory /\ n \in NodeId /\ refs[n] > 0
  BY FrameHeld
<1>2. depth[n] # 1
  BY <1>1, InnerHeld DEF Memory, TypeOK, NodesOK
<1> QED
  BY <1>1, <1>2, LastKeyHere

\* Its arrays are right, and so is the last key it tells.
LEMMA InnerReplaceKeys ==
    ASSUME NEW owner, MemInv(owner), ShapeInv, Shallow, KeyInv, NEW t \in Transients,
           NEW phase \in {"replace", "split", "erase"}, AtNode(t, phase),
           NEW n, n = Frame(t).node, Stands(owner, t, n),
           NEW dst, NEW K, NEW new, NEW ms, NEW d, InnerReplaced(t, n, dst, K, new, ms, d),
           Rekeyed(t, n, new, ms),
           op[t] # "pop_back" => d.key = LastKey(LastItem(new))
    PROVE  KeyInv'
<1>1. /\ Climbed(t, n, dst, {}, K) /\ Pops(t) /\ dst \in NodeId
      /\ items'[dst] = new /\ meta'[dst] = ms /\ depth'[dst] = depth[n]
      /\ pc'[t] = "replace" /\ delta'[t] = d
  BY DEF InnerReplaced, Climbed, Rewritten
<1>2. PICK R, W : R = {} /\ W = {dst}
  OBVIOUS
<1>3. Climbed(t, n, dst, R, K) /\ W = {dst} \cup R
  BY <1>1, <1>2
<1>4. Rekeyed(t, n, items'[dst], meta'[dst])
  BY <1>1
<1>5. /\ \A k \in 1 .. Len(items'[dst]) - 1 : Guided(dst, k)'
      /\ LastKeyIn(items', depth')[dst] = LastKey(LastItem(items'[dst]))
  BY <1>1, <1>3, <1>4, KinKeys
<1>6. FillsKeys(W)
  BY <1>2, <1>5 DEF FillsKeys
<1>7. KeyTidings(t, dst)
  <2>1. LastKey(dst)' = LastKey(LastItem(new))
    BY <1>1, <1>5 DEF LastKey
  <2> QED  BY <1>1, <2>1 DEF KeyTidings
<1>8. Through(t, n)
  BY <1>1, InnerThrough
<1> QED
  BY <1>3, <1>6, <1>7, <1>8, KeyClimb

\* InternalNode::replace: the key of the child is the one the call tells of, unless it
\* is that of the last child.
LEMMA InternalReplaceKeys ==
    ASSUME NEW owner, MemInv(owner), ShapeInv, Shallow, MetaOK, CountInv, KeyInv,
           NEW t \in Transients,
           NEW n, n = Frame(t).node, NEW i, i = Frame(t).index, NEW u, u = delta[t],
           InternalReplace(t),
           Keeps(t, n, ReplaceItem(meta[n], i, Added(meta[n][i + 1], u)),
                 ReplaceDelta(n, i, u))
    PROVE  KeyInv'
<1>1. PICK phase : phase = "replace" /\ phase \in {"replace", "split", "erase"}
  OBVIOUS
<1>2. /\ AtNode(t, phase) /\ Stands(owner, t, n) /\ Tip(t) \in Kin(t, n)
      /\ \E dst, K :
           InnerReplaced(t, n, dst, K, ReplaceItem(items[n], i, Tip(t)),
                         ReplaceItem(meta[n], i, Added(meta[n][i + 1], u)),
                         ReplaceDelta(n, i, u))
  BY <1>1, InternalReplaceClimbs
<1>3. PICK c, e, d : c = Tip(t) /\ e = Added(meta[n][i + 1], u) /\ d = ReplaceDelta(n, i, u)
  OBVIOUS
<1>4. PICK dst, K : InnerReplaced(t, n, dst, K, ReplaceItem(items[n], i, c),
                                  ReplaceItem(meta[n], i, e), d)
  BY <1>2, <1>3
<1>5. Keyed(Kin(t, n), items[n], meta[n], i + 1) /\ i \in 0 .. Len(items[n]) - 1
  BY <1>1, <1>2, FrameKeyed
<1>6. op[t] # "pop_back" => u.key = LastKey(c)
  BY <1>1, <1>2, <1>3 DEF KeyInv, KeyTold, AtNode
<1>7. op[t] = "pop_back" => i = Len(items[n]) - 1
  BY <1>1, <1>2 DEF KeyInv, Edge, AtNode
<1>8. e.key = u.key
  BY <1>3 DEF Added, Info
<1>9. /\ Keyed(Kin(t, n), ReplaceItem(items[n], i, c), ReplaceItem(meta[n], i, e), 0)
      /\ LastItem(ReplaceItem(items[n], i, c))
           = IF i = Len(items[n]) - 1 THEN c ELSE LastItem(items[n])
      /\ ReplaceItem(items[n], i, c) # <<>>
  <2>1. c \in Kin(t, n) /\ (i # Len(items[n]) - 1 => e.key = LastKey(c))
    BY <1>2, <1>3, <1>6, <1>7, <1>8
  <2> QED  BY <1>5, <2>1, KeyedReplace
<1>10. LastKey(n) = LastKey(LastItem(items[n]))
  BY <1>1, <1>2, FrameLastKey
<1>11. op[t] # "pop_back" => d.key = LastKey(LastItem(ReplaceItem(items[n], i, c)))
  BY <1>3, <1>6, <1>9, <1>10 DEF ReplaceDelta, Info
<1>12. Rekeyed(t, n, ReplaceItem(items[n], i, c), ReplaceItem(meta[n], i, e))
  BY <1>9 DEF Rekeyed
<1> QED
  BY <1>1, <1>2, <1>4, <1>11, <1>12, InnerReplaceKeys

\* Both halves of a child that has split are children the node may have.
LEMMA SplitKin ==
    ASSUME NEW owner, MemInv(owner), CountInv, KeyInv, NEW t \in Transients, AtNode(t, "split"),
           NEW n, n = Frame(t).node, NEW i, i = Frame(t).index
    PROVE  SplitLeft(t, n, i) \in Kin(t, n) /\ right[t] \in Kin(t, n)
<1>1. PICK phase : phase = "split" /\ phase \in {"replace", "split", "erase"}
  OBVIOUS
<1>2. AtNode(t, phase) /\ pc[t] = "split"
  BY <1>1 DEF AtNode
<1>3. Keyed(Kin(t, n), items[n], meta[n], i + 1) /\ i \in 0 .. Len(items[n]) - 1
  BY <1>1, <1>2, FrameKeyed
<1>4. Memory /\ right[t] # Nil
  BY <1>2 DEF MemInv, Memory, TypeOK, PhaseOK
<1>5. depth[n] # 1
  BY <1>2, InnerHeld, FrameHeld DEF Memory, TypeOK, NodesOK
<1>6. ptr[t] = Nil => SplitLeft(t, n, i) \in Children(n)
  <2>1. i + 1 \in 1 .. Len(items[n])
    BY <1>3, LenProperties DEF Keyed
  <2> QED  BY <1>5, <2>1 DEF SplitLeft, Children
<1> QED
  BY <1>4, <1>6 DEF Kin, SplitLeft

\* What both halves of a split child leave of the arrays.
LEMMA SplitKeys ==
    ASSUME NEW owner, MemInv(owner), CountInv, KeyInv, NEW t \in Transients, AtNode(t, "split"),
           NEW n, n = Frame(t).node, NEW i, i = Frame(t).index
    PROVE  /\ Keyed(Kin(t, n), SplitChild(items[n], i, SplitLeft(t, n, i), right[t]),
                    Halves(t), 0)
           /\ LastItem(SplitChild(items[n], i, SplitLeft(t, n, i), right[t]))
                = IF i = Len(items[n]) - 1 THEN right[t] ELSE LastItem(items[n])
           /\ SplitChild(items[n], i, SplitLeft(t, n, i), right[t]) # <<>>
           /\ rightInfo[t].key = LastKey(right[t]) /\ i \in 0 .. Len(items[n]) - 1
<1>1. PICK phase : phase = "split" /\ phase \in {"replace", "split", "erase"}
  OBVIOUS
<1>2. AtNode(t, phase) /\ stack[t] # <<>> /\ pc[t] = "split"
  BY <1>1 DEF AtNode
<1>3. Keyed(Kin(t, n), items[n], meta[n], i + 1) /\ i \in 0 .. Len(items[n]) - 1
  BY <1>1, <1>2, FrameKeyed
<1>4. PICK l, r, e, f : /\ l = SplitLeft(t, n, i) /\ r = right[t]
                        /\ e = delta[t] /\ f = rightInfo[t]
  OBVIOUS
<1>5. l = Tip(t)
  BY <1>2, <1>4 DEF SplitLeft, Tip, FrameItem
<1>6. e.key = LastKey(l) /\ f.key = LastKey(r)
  BY <1>2, <1>4, <1>5 DEF KeyInv, KeyTold
<1>7. l \in Kin(t, n) /\ r \in Kin(t, n)
  BY <1>4, SplitKin
<1>8. Halves(t) = SplitChild(meta[n], i, e, f)
  BY <1>4 DEF Halves
<1> QED
  BY <1>3, <1>4, <1>6, <1>7, <1>8, KeyedSplit

\* InternalNode::insert with room for the right half: both halves are told of.
LEMMA InternalInsertKeys ==
    ASSUME NEW owner, MemInv(owner), ShapeInv, Shallow, MetaOK, CountInv, KeyInv,
           NEW t \in Transients,
           NEW n, n = Frame(t).node, NEW i, i = Frame(t).index,
           InternalInsert(t),
           Keeps(t, n, Halves(t), SplitDelta(n, i, delta[t], rightInfo[t]))
    PROVE  KeyInv'
<1>1. PICK phase : phase = "split" /\ phase \in {"replace", "split", "erase"}
  OBVIOUS
<1>2. PICK new, d : /\ new = SplitChild(items[n], i, SplitLeft(t, n, i), right[t])
                    /\ d = SplitDelta(n, i, delta[t], rightInfo[t])
  OBVIOUS
<1>3. /\ AtNode(t, "split") /\ Stands(owner, t, n)
      /\ \E dst, K :
           InnerReplaced(t, n, dst, K, SplitChild(items[n], i, SplitLeft(t, n, i), right[t]),
                         Halves(t), SplitDelta(n, i, delta[t], rightInfo[t]))
  BY InternalInsertClimbs
<1>4. PICK dst, K : InnerReplaced(t, n, dst, K, new, Halves(t), d)
  BY <1>2, <1>3
<1>5. AtNode(t, phase)
  BY <1>1, <1>3
<1>6. /\ Keyed(Kin(t, n), new, Halves(t), 0) /\ new # <<>>
      /\ LastItem(new) = IF i = Len(items[n]) - 1 THEN right[t] ELSE LastItem(items[n])
      /\ rightInfo[t].key = LastKey(right[t])
  BY <1>2, <1>3, SplitKeys
<1>7. LastKey(n) = LastKey(LastItem(items[n]))
  BY <1>1, <1>5, FrameLastKey
<1>8. op[t] # "pop_back" => d.key = LastKey(LastItem(new))
  BY <1>2, <1>6, <1>7 DEF SplitDelta, Info
<1>9. Rekeyed(t, n, new, Halves(t))
  BY <1>6 DEF Rekeyed
<1> QED
  BY <1>1, <1>3, <1>4, <1>5, <1>8, <1>9, InnerReplaceKeys

\* InternalNode::erase: if the last child goes, the key of the one before it is known.
LEMMA InternalEraseKeys ==
    ASSUME NEW owner, MemInv(owner), ShapeInv, Shallow, MetaOK, CountInv, KeyInv,
           NEW t \in Transients,
           NEW n, n = Frame(t).node, NEW i, i = Frame(t).index,
           InternalErase(t),
           Keeps(t, n, EraseItem(meta[n], i), EraseInnerDelta(n, i))
    PROVE  KeyInv'
<1>1. PICK phase : phase = "erase" /\ phase \in {"replace", "split", "erase"}
  OBVIOUS
<1>2. PICK new, ms, d : /\ new = EraseItem(items[n], i) /\ ms = EraseItem(meta[n], i)
                        /\ d = EraseInnerDelta(n, i)
  OBVIOUS
<1>3. /\ AtNode(t, "erase") /\ Stands(owner, t, n) /\ Len(items[n]) > 1
      /\ \E dst, K :
           InnerReplaced(t, n, dst, K, EraseItem(items[n], i), EraseItem(meta[n], i),
                         EraseInnerDelta(n, i))
  BY InternalEraseClimbs
<1>4. PICK dst, K : InnerReplaced(t, n, dst, K, new, ms, d)
  BY <1>2, <1>3
<1>5. AtNode(t, phase)
  BY <1>1, <1>3
<1>6. Keyed(Kin(t, n), items[n], meta[n], i + 1) /\ i \in 0 .. Len(items[n]) - 1
  BY <1>1, <1>5, FrameKeyed
<1>7. /\ Keyed(Kin(t, n), new, ms, 0) /\ new # <<>>
      /\ LastItem(new) = IF i = Len(items[n]) - 1 THEN items[n][i] ELSE LastItem(items[n])
      /\ i = Len(items[n]) - 1 => meta[n][i].key = LastKey(items[n][i])
  BY <1>2, <1>3, <1>6, KeyedErase
<1>8. LastKey(n) = LastKey(LastItem(items[n]))
  BY <1>1, <1>5, FrameLastKey
<1>9. op[t] # "pop_back" => d.key = LastKey(LastItem(new))
  BY <1>2, <1>7, <1>8 DEF EraseInnerDelta, Info
<1>10. Rekeyed(t, n, new, ms)
  BY <1>7 DEF Rekeyed
<1> QED
  BY <1>1, <1>3, <1>4, <1>5, <1>9, <1>10, InnerReplaceKeys

\* last_key() of a half, as NodeInfo finds it.
LEMMA SummaryKey ==
    ASSUME NEW n, NEW its, NEW deps, NEW ms, deps[n] # 1
    PROVE  Summary(n, its, deps, ms).key = LastKeyIn(its, deps)[n]
BY DEF Summary, InnerSummary, Info

\* InternalNode::insert in a full node: the last keys of both halves are looked up.
LEMMA InternalSplitKeys ==
    ASSUME NEW owner, MemInv(owner), ShapeInv, Shallow, MetaOK, CountInv, KeyInv,
           NEW t \in Transients,
           NEW n, n = Frame(t).node, NEW i, i = Frame(t).index,
           InternalSplit(t),
           LET sp == InternalSplitPoint(i, Frame(t).rightMost)
           IN  meta' = [meta EXCEPT ![NewVersion(t, n)] = LeftPart(Halves(t), sp),
                                    ![right'[t]] = RightPart(Halves(t), sp)],
           TellsHalves(t, n)
    PROVE  KeyInv'
<1>1. PICK phase : phase = "split" /\ phase \in {"replace", "split", "erase"}
  OBVIOUS
<1>2. PICK all, ams : /\ all = SplitChild(items[n], i, SplitLeft(t, n, i), right[t])
                      /\ ams = Halves(t)
  OBVIOUS
<1>3. /\ AtNode(t, "split") /\ Stands(owner, t, n)
      /\ \E dst, r, K, sp :
           /\ sp \in 1 .. Len(items[n])
           /\ InnerHalved(t, n, dst, r, K,
                          SplitChild(items[n], i, SplitLeft(t, n, i), right[t]),
                          Halves(t), sp)
  BY InternalSplitClimbs
<1>4. PICK dst, r, K, sp : /\ sp \in 1 .. Len(items[n])
                           /\ InnerHalved(t, n, dst, r, K, all, ams, sp)
  BY <1>2, <1>3
<1>5. AtNode(t, phase)
  BY <1>1, <1>3
<1>6. Keyed(Kin(t, n), all, ams, 0) /\ i \in 0 .. Len(items[n]) - 1
  BY <1>2, <1>3, SplitKeys
<1>7. sp \in 1 .. Len(all) - 1
  <2>1. items[n] \in Seq(Kin(t, n))
    BY <1>1, <1>5, FrameKeyed DEF Keyed
  <2>2. PICK l \in Kin(t, n), q \in Kin(t, n) : l = SplitLeft(t, n, i) /\ q = right[t]
    BY <1>2, <1>3, SplitKin
  <2>3. Len(all) = Len(items[n]) + 1
    <3>1. PICK z \in Seq(Kin(t, n)) : z = items[n]
      BY <2>1
    <3>2. i \in 0 .. Len(z) - 1
      BY <1>6, <3>1
    <3>3. Len(SplitChild(z, i, l, q)) = Len(z) + 1
      BY ONLY <3>2, SplitChildProperties
    <3> QED  BY <1>2, <2>2, <3>1, <3>3
  <2>4. Len(items[n]) \in Nat
    BY <2>1, LenProperties
  <2> QED  BY <1>4, <2>3, <2>4
<1>8. /\ Keyed(Kin(t, n), LeftPart(all, sp), LeftPart(ams, sp), 0) /\ LeftPart(all, sp) # <<>>
      /\ Keyed(Kin(t, n), RightPart(all, sp), RightPart(ams, sp), 0) /\ RightPart(all, sp) # <<>>
  BY <1>6, <1>7, KeyedParts
<1>9. /\ Climbed(t, n, dst, {r}, K) /\ Pops(t) /\ dst \in NodeId /\ r \in NodeId
      /\ items'[dst] = LeftPart(all, sp) /\ items'[r] = RightPart(all, sp)
      /\ meta'[dst] = LeftPart(ams, sp) /\ meta'[r] = RightPart(ams, sp)
      /\ depth'[dst] = depth[n] /\ depth'[r] = depth[n]
      /\ pc'[t] = "split" /\ right'[t] = r
      /\ delta'[t] = Summary(dst, items', depth', meta')
      /\ rightInfo'[t] = Summary(r, items', depth', meta')
  BY <1>4 DEF InnerHalved, Climbed, Rewritten
<1>10. PICK R, W : R = {r} /\ W = {dst, r}
  OBVIOUS
<1>11. Climbed(t, n, dst, R, K) /\ W = {dst} \cup R
  BY <1>9, <1>10
<1>12. Rekeyed(t, n, items'[dst], meta'[dst]) /\ Rekeyed(t, n, items'[r], meta'[r])
  BY <1>8, <1>9 DEF Rekeyed
<1>13. ASSUME NEW m \in W PROVE \A k \in 1 .. Len(items'[m]) - 1 : Guided(m, k)'
  <2>1. m \in NodeId /\ depth'[m] = depth[n] /\ Rekeyed(t, n, items'[m], meta'[m])
    BY <1>9, <1>10, <1>12
  <2> QED  BY <1>1, <1>3, <1>5, <1>11, <2>1, KinKeys
<1>14. FillsKeys(W)
  BY <1>13 DEF FillsKeys
<1>15. KeyTidings(t, dst)
  <2>1. depth'[dst] # 1 /\ depth'[r] # 1
    BY <1>1, <1>5, <1>9, InnerHeld, FrameHeld DEF Memory, TypeOK, NodesOK
  <2>2. delta'[t].key = LastKey(dst)'
    BY <1>9, <2>1, SummaryKey DEF LastKey
  <2>3. rightInfo'[t].key = LastKey(right[t])'
    BY <1>9, <2>1, SummaryKey DEF LastKey
  <2> QED  BY <1>9, <2>2, <2>3 DEF KeyTidings
<1>16. Through(t, n)
  BY <1>1, <1>5, <1>9, InnerThrough
<1> QED
  BY <1>3, <1>11, <1>14, <1>15, <1>16, KeyClimb

-----------------------------------------------------------------------------
(* The leaf *)

\* The last key below a new leaf is that of its last value.
LEMMA LeafLastKey ==
    ASSUME NEW n \in NodeId, depth'[n] = 1
    PROVE  LastKey(n)' = KeyOf(LastItem(items'[n]))
<1>1. PICK its, deps : its = items' /\ deps = depth'
  OBVIOUS
<1>2. deps[n] = 1 /\ deps[n] \in Level
  BY <1>1, TreeAssumption DEF Level
<1>3. LastKeyIn(its, deps)[n] = KeyOf(LastItem(its[n]))
  BY <1>2, LastKeyDown
<1> QED
  BY <1>1, <1>3 DEF LastKey

\* A leaf has new versions, and the key it tells is right.
LEMMA LeafKeys ==
    ASSUME NEW owner, MemInv(owner), ShapeInv, Shallow, KeyInv, NEW t \in Transients,
           NEW names, AtLeaf(t, names), NEW n, n = at[t], Stands(owner, t, n), stack' = stack,
           NEW dst, NEW R, Climbed(t, n, dst, R, {}),
           \A m \in {dst} \cup R : depth'[m] = 1, KeyTidings(t, dst)
    PROVE  KeyInv'
<1>1. PICK W, K : W = {dst} \cup R /\ K = {}
  OBVIOUS
<1>2. Climbed(t, n, dst, R, K)
  BY <1>1
<1>3. FillsKeys(W)
  BY <1>1 DEF FillsKeys
<1>4. Through(t, n)
  BY DEF Through, AtLeaf
<1> QED
  BY <1>1, <1>2, <1>3, <1>4, KeyClimb

LEMMA LeafReplaceKeys ==
    ASSUME NEW owner, MemInv(owner), ShapeInv, Shallow, KeyInv, NEW t \in Transients,
           NEW names, AtLeaf(t, names), NEW n, n = at[t], Stands(owner, t, n),
           NEW dst, NEW new, NEW d, LeafReplaced(t, n, dst, new, d),
           op[t] # "pop_back" => d.key = KeyOf(LastItem(new))
    PROVE  KeyInv'
<1>1. /\ Climbed(t, n, dst, {}, {}) /\ stack' = stack /\ dst \in NodeId
      /\ items'[dst] = new /\ depth'[dst] = 1 /\ pc'[t] = "replace" /\ delta'[t] = d
  BY DEF LeafReplaced, Climbed, Rewritten
<1>2. LastKey(dst)' = KeyOf(LastItem(new))
  BY <1>1, LeafLastKey
<1>3. KeyTidings(t, dst)
  BY <1>1, <1>2 DEF KeyTidings
<1>4. PICK R : R = {}
  OBVIOUS
<1>5. Climbed(t, n, dst, R, {}) /\ \A m \in {dst} \cup R : depth'[m] = 1
  BY <1>1, <1>4
<1> QED
  BY <1>1, <1>3, <1>5, LeafKeys

\* An insertion that needs no split.
LEMMA LeafInsertKeys ==
    ASSUME NEW owner, MemInv(owner), ShapeInv, Shallow, MetaOK, CountInv, KeyInv,
           NEW t \in Transients,
           NEW n, n = at[t],
           NEW i \in 0 .. LeafSize, NEW v \in Values, LeafInsert(t, i, v),
           Tells(t, InsertDelta(n, i, v)), UNCHANGED <<meta, rightInfo>>
    PROVE  KeyInv'
<1>1. /\ Stands(owner, t, n)
      /\ items[n] \in Seq(Values) /\ Len(items[n]) \in Nat /\ i \in 0 .. Len(items[n])
      /\ \E dst : LeafReplaced(t, n, dst, InsertItem(items[n], i, v), InsertDelta(n, i, v))
  BY LeafInsertClimbs
<1>2. PICK s, new, d : /\ s = items[n] /\ new = InsertItem(s, i, v)
                       /\ d = InsertDelta(n, i, v)
  OBVIOUS
<1>3. PICK dst : LeafReplaced(t, n, dst, new, d)
  BY <1>1, <1>2
<1>4. AtLeaf(t, Inserting)
  BY DEF LeafInsert
<1>5. /\ Len(new) = Len(s) + 1
      /\ \A k \in 1 .. Len(s) + 1 :
           new[k] = IF k <= i THEN s[k] ELSE IF k = i + 1 THEN v ELSE s[k - 1]
  BY <1>1, <1>2, InsertItemProperties
<1>6. LastItem(new) = IF i = Len(s) THEN v ELSE LastItem(s)
  <2>1. PICK x \in Nat : x = Len(s)
    BY <1>1, <1>2
  <2>2. x + 1 \in 1 .. x + 1 /\ ~(x + 1 <= i) /\ (x + 1 = i + 1 <=> i = x) /\ x + 1 - 1 = x
    BY <1>1, <1>2, <2>1
  <2>3. new[x + 1] = IF i = x THEN v ELSE s[x]
    BY <1>5, <2>1, <2>2
  <2> QED  BY <1>5, <2>1, <2>3 DEF LastItem
<1>7. op[t] # "pop_back" => d.key = KeyOf(LastItem(new))
  BY <1>2, <1>6 DEF InsertDelta, Info
<1> QED
  BY <1>1, <1>3, <1>4, <1>7, LeafReplaceKeys

\* An element is replaced.
LEMMA LeafAssignKeys ==
    ASSUME NEW owner, MemInv(owner), ShapeInv, Shallow, MetaOK, CountInv, KeyInv,
           NEW t \in Transients,
           NEW n, n = at[t],
           NEW i \in 0 .. LeafSize, NEW v \in Values, LeafAssign(t, i, v),
           Tells(t, SetDelta(n, i, v)), UNCHANGED <<meta, rightInfo>>
    PROVE  KeyInv'
<1>1. /\ Stands(owner, t, n)
      /\ items[n] \in Seq(Values) /\ Len(items[n]) \in Nat /\ i \in 0 .. Len(items[n]) - 1
      /\ \E dst : LeafReplaced(t, n, dst, ReplaceItem(items[n], i, v), SetDelta(n, i, v))
  BY LeafAssignClimbs
<1>2. PICK s, new, d : /\ s = items[n] /\ new = ReplaceItem(s, i, v)
                       /\ d = SetDelta(n, i, v)
  OBVIOUS
<1>3. PICK dst : LeafReplaced(t, n, dst, new, d)
  BY <1>1, <1>2
<1>4. AtLeaf(t, Assigning)
  BY DEF LeafAssign
<1>5. /\ Len(new) = Len(s)
      /\ \A k \in 1 .. Len(s) : new[k] = IF k = i + 1 THEN v ELSE s[k]
  <2>1. s \in Seq(Values) /\ i \in 0 .. Len(s) - 1 /\ v \in Values
    BY <1>1, <1>2
  <2>2. /\ Len(ReplaceItem(s, i, v)) = Len(s)
        /\ \A k \in 1 .. Len(s) : ReplaceItem(s, i, v)[k] = IF k = i + 1 THEN v ELSE s[k]
    BY ONLY <2>1, ReplaceItemProperties
  <2> QED  BY <1>2, <2>2
<1>6. LastItem(new) = IF i = Len(s) - 1 THEN v ELSE LastItem(s)
  <2>1. PICK x \in Nat : x = Len(s)
    BY <1>1, <1>2
  <2>2. x \in 1 .. x /\ (x = i + 1 <=> i = x - 1)
    BY <1>1, <1>2, <2>1
  <2>3. new[x] = IF i = x - 1 THEN v ELSE s[x]
    BY <1>5, <2>1, <2>2
  <2> QED  BY <1>5, <2>1, <2>3 DEF LastItem
<1>7. op[t] # "pop_back" => d.key = KeyOf(LastItem(new))
  BY <1>2, <1>6 DEF SetDelta, Info
<1> QED
  BY <1>1, <1>3, <1>4, <1>7, LeafReplaceKeys

\* An element goes: if it was the last, the one before it is the last, unless pop_back
\* erases it at the index behind it.
LEMMA LeafEraseKeys ==
    ASSUME NEW owner, MemInv(owner), ShapeInv, Shallow, MetaOK, CountInv, KeyInv,
           NEW t \in Transients,
           NEW n, n = at[t],
           NEW i \in 0 .. LeafSize, LeafErase(t, i), NEW junk,
           Tells(t, EraseDelta(n, i, junk)), UNCHANGED <<meta, rightInfo>>
    PROVE  KeyInv'
<1>1. /\ Stands(owner, t, n)
      /\ items[n] \in Seq(Values) /\ Len(items[n]) \in Nat /\ Len(items[n]) > 1
      /\ i \in 0 .. Len(items[n]) /\ (op[t] # "pop_back" => i < Len(items[n]))
      /\ \E dst : LeafReplaced(t, n, dst, EraseItem(items[n], i), EraseDelta(n, i, junk))
  BY LeafEraseClimbs
<1>2. PICK s, new, d : /\ s = items[n] /\ new = EraseItem(s, i)
                       /\ d = EraseDelta(n, i, junk)
  OBVIOUS
<1>3. PICK dst : LeafReplaced(t, n, dst, new, d)
  BY <1>1, <1>2
<1>4. AtLeaf(t, {"erase", "pop_back"})
  BY DEF LeafErase
<1>5. /\ Len(new) = Len(s) - 1
      /\ \A k \in 1 .. Len(s) - 1 : new[k] = IF k <= i THEN s[k] ELSE s[k + 1]
  <2>1. s \in Seq(Values) /\ i \in 0 .. Len(s) /\ Len(s) > 0
    BY <1>1, <1>2
  <2>2. /\ Len(EraseItem(s, i)) = Len(s) - 1
        /\ \A k \in 1 .. Len(s) - 1 : EraseItem(s, i)[k] = IF k <= i THEN s[k] ELSE s[k + 1]
    BY ONLY <2>1, EraseItemProperties
  <2> QED  BY <1>2, <2>2
<1>6. i < Len(s) => LastItem(new) = IF i = Len(s) - 1 THEN s[Len(s) - 1] ELSE LastItem(s)
  <2>1. PICK x \in Nat : x = Len(s) /\ x > 1
    BY <1>1, <1>2
  <2>2. x - 1 \in 1 .. x - 1 /\ (i < x => (x - 1 <= i <=> i = x - 1)) /\ x - 1 + 1 = x
    BY <1>1, <1>2, <2>1
  <2>3. i < x => new[x - 1] = IF i = x - 1 THEN s[x - 1] ELSE s[x]
    BY <1>5, <2>1, <2>2
  <2> QED  BY <1>5, <2>1, <2>3 DEF LastItem
<1>7. op[t] # "pop_back" => d.key = KeyOf(LastItem(new))
  BY <1>1, <1>2, <1>6 DEF EraseDelta, Info
<1> QED
  BY <1>1, <1>3, <1>4, <1>7, LeafReplaceKeys

\* A full leaf: the last values of both halves are looked up.
LEMMA LeafSplitKeys ==
    ASSUME NEW owner, MemInv(owner), ShapeInv, Shallow, MetaOK, CountInv, KeyInv,
           NEW t \in Transients,
           NEW n, n = at[t],
           NEW i \in 0 .. LeafSize, NEW v \in Values, LeafSplit(t, i, v),
           UNCHANGED meta, TellsHalves(t, n)
    PROVE  KeyInv'
<1>1. /\ Stands(owner, t, n)
      /\ \E dst, r, all, sp : LeafHalved(t, n, dst, r, all, sp)
  BY LeafSplitClimbs
<1>2. PICK dst, r, all, sp : LeafHalved(t, n, dst, r, all, sp)
  BY <1>1
<1>3. /\ Climbed(t, n, dst, {r}, {}) /\ stack' = stack /\ dst \in NodeId /\ r \in NodeId
      /\ depth'[dst] = 1 /\ depth'[r] = 1 /\ pc'[t] = "split" /\ right'[t] = r
      /\ delta'[t] = Summary(dst, items', depth', meta')
      /\ rightInfo'[t] = Summary(r, items', depth', meta')
  BY <1>2 DEF LeafHalved, Climbed, Rewritten
<1>4. AtLeaf(t, Inserting)
  BY DEF LeafSplit
<1>5. KeyTidings(t, dst)
  <2>1. delta'[t].key = KeyOf(LastItem(items'[dst]))
    BY <1>3 DEF Summary, LeafSummary, Info
  <2>2. rightInfo'[t].key = KeyOf(LastItem(items'[r]))
    BY <1>3 DEF Summary, LeafSummary, Info
  <2>3. /\ LastKey(dst)' = KeyOf(LastItem(items'[dst]))
        /\ LastKey(r)' = KeyOf(LastItem(items'[r]))
    BY <1>3, LeafLastKey
  <2>4. LastKey(right[t])' = LastKey(r)'
    BY <1>3 DEF LastKey
  <2> QED  BY <1>3, <2>1, <2>2, <2>3, <2>4 DEF KeyTidings
<1>6. PICK R : R = {r}
  OBVIOUS
<1>7. Climbed(t, n, dst, R, {}) /\ \A m \in {dst} \cup R : depth'[m] = 1
  BY <1>3, <1>6
<1> QED
  BY <1>1, <1>3, <1>4, <1>5, <1>7, LeafKeys

-----------------------------------------------------------------------------
(* Steps that give a node up, or write to none *)

\* A step that writes only to nodes that nothing points to leaves all last keys.
LEMMA LooseKeys ==
    ASSUME NEW owner, MemInv(owner), ShapeInv, Shallow, NEW t \in Transients,
           NEW W, Changes(owner, t, W), \A n \in W : Loose(n),
           NEW V, V = {n \in NodeId : Loose(n)}
    PROVE  Spares(owner, t, W, V)
<1>1. Memory /\ W \subseteq V
  BY DEF MemInv, Changes
<1>2. ASSUME NEW n \in NodeId \ V
      PROVE  /\ refs[n] > 0 /\ items'[n] = items[n] /\ depth'[n] = depth[n]
             /\ depth[n] # 1 => LastItem(items[n]) \notin V
  <2>1. refs[n] > 0
    BY <1>1, AliveNow DEF Loose
  <2>2. items'[n] = items[n] /\ depth'[n] = depth[n]
    BY <1>1 DEF Changes
  <2>3. ASSUME depth[n] # 1 PROVE LastItem(items[n]) \notin V
    <3>1. PICK c \in Children(n) : c = LastItem(items[n])
      BY <1>1, <2>1, <2>3, LastKeyHere
    <3> QED  BY <3>1 DEF Loose, Placed
  <2> QED  BY <2>1, <2>2, <2>3
<1>3. \A n \in NodeId \ V : LastKey(n)' = LastKey(n)
  BY <1>1, <1>2, KeysKept
<1>4. Changes(owner, t, V)
  BY <1>1 DEF Changes
<1> QED
  BY <1>1, <1>3, <1>4 DEF Spares

\* The slots that thread t is to set right are still to be set right by it.
StillOnWay(t, W) ==
    \A n \in NodeId \ W : refs[n] > 0 /\ depth[n] > 1 =>
        \A k \in 1 .. Len(items[n]) - 1 :
            OnWay(t, n, k) /\ ~persistent[n] => OnWay(t, n, k)' /\ ~persistent'[n]

\* Such a step, once its thread is done.
LEMMA LooseStep ==
    ASSUME NEW owner, MemInv(owner), ShapeInv, Shallow, KeyInv, NEW t \in Transients,
           NEW W, Changes(owner, t, W), \A n \in W : Loose(n),
           FillsKeys(W), StillOnWay(t, W),
           Waits(t), Listens(t), \A u \in Transients \ {t} : op'[u] = op[u],
           Edge(t)', KeyTold(t)'
    PROVE  KeyInv'
<1>1. PICK V : V = {n \in NodeId : Loose(n)}
  OBVIOUS
<1>2. Spares(owner, t, W, V)
  BY <1>1, LooseKeys
<1>3. SettlesKeys(t, W, V)
  <2> SUFFICES ASSUME NEW n \in NodeId \ W, refs[n] > 0, depth[n] > 1,
                      NEW k \in 1 .. Len(items[n]) - 1,
                      (OnWay(t, n, k) /\ ~persistent[n]) \/ items[n][k] \in V
               PROVE  OnWay(t, n, k)' /\ ~persistent'[n]
    BY DEF SettlesKeys
  <2>1. items[n][k] \notin V
    <3>1. k \in 1 .. Len(items[n])
      <4>1. items[n] \in Seq(NodeId)
        BY DEF MemInv, Memory, TypeOK, NodesOK
      <4> QED  BY <4>1, LenProperties
    <3>2. items[n][k] \in Children(n)
      BY <3>1 DEF Children
    <3> QED  BY <1>1, <3>2 DEF Loose, Placed
  <2> QED  BY <2>1 DEF StillOnWay
<1> QED
  BY <1>2, <1>3, KeyStep

\* Nodes are given up.
LEMMA ReleaseKeys ==
    ASSUME NEW owner, MemInv(owner), ShapeInv, Shallow, KeyInv, NEW t \in Transients,
           NEW W, Releases(t, W), UNCHANGED <<meta, delta, rightInfo>>
    PROVE  KeyInv'
<1> USE DEF Releases
<1>1. Memory /\ Path(t) /\ KeyTold(t) /\ Edge(t)
  BY DEF MemInv, Threads, KeyInv
<1>2. Changes(owner, t, W) /\ Listens(t)
  BY DEF Changes, Listens
<1>3. FillsKeys(W)
  <2>1. \A n \in W : ~(refs'[n] > 0)
    OBVIOUS
  <2> QED  BY <2>1 DEF FillsKeys
<1>4. StillOnWay(t, W)
  BY DEF StillOnWay, OnWay, Passes
<1>5. PICK V : V = {n \in NodeId : Loose(n)}
  OBVIOUS
<1>6. Spares(owner, t, W, V)
  BY <1>2, <1>5, LooseKeys
<1>7. \A n \in NodeId : n = root[t] \/ n = ptr[t] \/ n = right[t] => n \notin V
  BY <1>5 DEF Loose, Placed, Handle
<1>8. stack[t] # <<>> => Frame(t).node \in NodeId \ V /\ FrameItem(t) \in NodeId \ V
  BY <1>1, <1>5, PathPlaced DEF Loose
<1>9. \A n \in NodeId \ V : items'[n] = items[n] /\ LastKey(n)' = LastKey(n)
  BY <1>6 DEF Spares, Changes
<1>10. Edge(t)' /\ KeyTold(t)'
  BY <1>1, <1>7, <1>8, <1>9, KeyToldSame
<1> QED
  BY <1>2, <1>3, <1>4, <1>10, LooseStep

\* A thread that has no result for a node, and gets none.
LEMMA QuietKeys ==
    ASSUME NEW owner, MemInv(owner), ShapeInv, Shallow, KeyInv, NEW t \in Transients,
           Rests(owner, t), UNCHANGED meta, Listens(t), StillOnWay(t, {}), Edge(t)'
    PROVE  KeyInv'
<1> USE DEF Rests
<1>1. PICK W : W = {}
  OBVIOUS
<1>2. Changes(owner, t, W)
  BY <1>1 DEF Changes
<1>3. FillsKeys(W) /\ \A n \in W : Loose(n)
  BY <1>1 DEF FillsKeys
<1>4. KeyTold(t)'
  BY DEF KeyTold
<1>5. StillOnWay(t, W)
  BY <1>1
<1> QED
  BY <1>2, <1>3, <1>4, <1>5, LooseStep

\* One that is at no node of its tree.
LEMMA IdleKeys ==
    ASSUME NEW owner, MemInv(owner), ShapeInv, Shallow, KeyInv, MetaOK, NEW t \in Transients,
           Rests(owner, t), stack[t] = <<>>, stack'[t] = <<>>, UNCHANGED meta,
           \/ UNCHANGED <<delta, rightInfo>>
           \/ Tells(t, NoInfo) /\ rightInfo' = [rightInfo EXCEPT ![t] = NoInfo]
    PROVE  KeyInv'
<1>1. Listens(t)
  BY DEF Tells, MetaOK, Listens
<1>2. Edge(t)'
  BY DEF Edge
<1>3. StillOnWay(t, {})
  BY DEF StillOnWay, OnWay, Passes
<1> QED
  BY <1>1, <1>2, <1>3, QuietKeys

\* What a thread does at the root, or once its call is over.
LEMMA TurnKeys ==
    ASSUME NEW owner, MemInv(owner), ShapeInv, Shallow, KeyInv, MetaOK, NEW t \in Transients,
           (\E name \in Operations : Begin(t, name)) \/ LeafKeep(t) \/ Return(t),
           UNCHANGED mixinVars
    PROVE  KeyInv'
<1>1. Rests(owner, t)
  BY WalkStepRests
<1>2. ~Busy(t) /\ UNCHANGED <<meta, delta, rightInfo>>
  BY DEF Begin, Resting, Return, LeafKeep, AtLeaf, mixinVars, Busy
<1>3. CASE LeafKeep(t)
  <2>1. stack'[t] = <<>> /\ pc[t] = "descend" /\ Listens(t)
    BY <1>2, <1>3 DEF LeafKeep, AtLeaf, MemInv, Memory, TypeOK, ControlOK, Listens
  <2>2. Edge(t)' /\ StillOnWay(t, {})
    BY <2>1 DEF Edge, StillOnWay, OnWay
  <2> QED  BY <1>1, <1>2, <2>1, <2>2, QuietKeys
<1>4. CASE (\E name \in Operations : Begin(t, name)) \/ Return(t)
  <2>1. pc[t] \in {"idle", "done"} /\ stack' = stack
    BY <1>4 DEF Begin, Resting, Return
  <2>2. stack[t] = <<>>
    BY <1>2, <2>1, HandsEmpty
  <2> QED  BY <1>1, <1>2, <2>1, <2>2, IdleKeys
<1> QED
  BY <1>3, <1>4

\* On the way down, pop_back takes the last child of a node on the right edge.
LEMMA DescendKeys ==
    ASSUME NEW owner, MemInv(owner), ShapeInv, Shallow, KeyInv, NEW t \in Transients,
           NEW i \in 0 .. InternalSize - 1, Descend(t, i), UNCHANGED mixinVars
    PROVE  KeyInv'
<1>1. Rests(owner, t)
  BY WalkStepRests
<1>2. Memory /\ Path(t) /\ Edge(t) /\ stack[t] \in Seq(FrameSet)
  BY DEF MemInv, Threads, KeyInv, Memory, TypeOK, ControlOK, Descend
<1>3. PICK n, f : n = at[t] /\ f = [node |-> n, index |-> i, rightMost |-> rightMost[t]]
  OBVIOUS
<1>4. /\ pc[t] = "descend" /\ stack'[t] = Append(stack[t], f) /\ op' = op /\ items' = items
      /\ (op[t] = "pop_back" => i = Len(items[n]) - 1)
  BY <1>2, <1>3 DEF Descend, MemInv, Memory, TypeOK, ControlOK, nodes
<1>5. Frame(t)' = f
  <2>1. PICK s \in Seq(FrameSet) : s = stack[t]
    BY <1>2
  <2>2. PICK S : S = FrameSet \cup {f}
    OBVIOUS
  <2>3. s \in Seq(S) /\ f \in S
    BY <2>2, SeqGrows
  <2>4. PICK q : q = Append(s, f)
    OBVIOUS
  <2>5. Len(q) = Len(s) + 1 /\ q[Len(s) + 1] = f
    BY <2>3, <2>4, AppendProperties
  <2> QED  BY <1>4, <2>1, <2>4, <2>5 DEF Frame
<1>6. ASSUME op[t] = "pop_back" PROVE rightMost[t]
  <2>1. rightMost[t] = OnEdgeTo(t, Len(stack[t]))
    BY <1>2, <1>4 DEF Path
  <2>2. CASE stack[t] = <<>>
    BY <2>1, <2>2 DEF OnEdgeTo
  <2>3. CASE stack[t] # <<>>
    <3>1. PICK x \in Nat : x = Len(stack[t])
      BY <1>2, LenProperties
    <3>2. x \in 1 .. x /\ Frame(t) = stack[t][x]
      BY <1>2, <2>3, <3>1, EmptySeq DEF Frame
    <3>3. stack[t][x].rightMost = OnEdgeTo(t, x - 1)
      BY <1>2, <3>1, <3>2 DEF Path
    <3>4. /\ OnEdgeTo(t, x - 1)
          /\ stack[t][x].index = Len(items[stack[t][x].node]) - 1
      BY <1>2, <1>6, <2>3, <3>2, <3>3 DEF Edge
    <3>5. \A j \in 1 .. x : j \in 1 .. x - 1 \/ j = x
      OBVIOUS
    <3>6. OnEdgeTo(t, x)
      BY <3>4, <3>5 DEF OnEdgeTo
    <3> QED  BY <2>1, <3>1, <3>6
  <2> QED  BY <2>2, <2>3
<1>7. Edge(t)'
  BY <1>3, <1>4, <1>5, <1>6 DEF Edge
<1>8. StillOnWay(t, {})
  BY <1>4 DEF StillOnWay, OnWay
<1>9. UNCHANGED meta /\ Listens(t)
  BY DEF mixinVars, Listens
<1> QED
  BY <1>1, <1>7, <1>8, <1>9, QuietKeys

\* A leaf with one value, or an inner node with one child, is to go.
LEMMA OnlyKeys ==
    ASSUME NEW owner, MemInv(owner), ShapeInv, Shallow, KeyInv, NEW t \in Transients,
           (\E i \in 0 .. LeafSize : LeafEraseOnly(t, i)) \/ InternalEraseOnly(t),
           UNCHANGED mixinVars
    PROVE  KeyInv'
<1>1. Rests(owner, t) /\ UNCHANGED meta /\ Listens(t) /\ op' = op /\ items' = items
      /\ persistent' = persistent
  BY WalkStepRests DEF mixinVars, Listens, LeafEraseOnly, LeavesLeaf, InternalEraseOnly, nodes
<1>2. Edge(t)
  BY DEF KeyInv
<1>3. CASE \E i \in 0 .. LeafSize : LeafEraseOnly(t, i)
  <2>1. pc[t] = "descend" /\ stack' = stack
    BY <1>3 DEF LeafEraseOnly, AtLeaf, LeavesLeaf
  <2>2. StillOnWay(t, {})
    BY <2>1 DEF StillOnWay, OnWay
  <2>3. Edge(t)'
    BY <1>1, <1>2, <2>1 DEF Edge, Frame
  <2> QED  BY <1>1, <2>2, <2>3, QuietKeys
<1>4. CASE InternalEraseOnly(t)
  <2>1. PICK n : n = Frame(t).node
    OBVIOUS
  <2>2. /\ pc[t] = "erase" /\ pc'[t] = "erase" /\ stack[t] # <<>> /\ Pops(t) /\ Len(items[n]) = 1
    BY <1>4, <2>1 DEF InternalEraseOnly, AtNode, CallErase, MemInv, Memory, TypeOK, ControlOK
  <2>3. Through(t, n)
    BY <2>1, <2>2 DEF Through
  <2>4. StillOnWay(t, {})
    <3> SUFFICES ASSUME NEW m \in NodeId, NEW k \in 1 .. Len(items[m]) - 1, OnWay(t, m, k)
                 PROVE  OnWay(t, m, k)'
      BY <1>1 DEF StillOnWay
    <3>1. m # n
      <4> SUFFICES ASSUME m = n PROVE FALSE
        OBVIOUS
      <4>1. k \in 1 .. 1 - 1
        BY <2>2
      <4> QED  BY <4>1
    <3>2. Passes(stack[t], m, k)
      BY DEF OnWay
    <3>3. Passes(stack'[t], m, k)
      BY <2>3, <3>1, <3>2, ThroughFrames
    <3> QED  BY <2>2, <3>3 DEF OnWay
  <2>5. Edge(t)'
    <3> SUFFICES ASSUME op[t] = "pop_back", stack'[t] # <<>>
                 PROVE  Frame(t)'.rightMost
                        /\ Frame(t)'.index = Len(items[Frame(t)'.node]) - 1
      BY <1>1 DEF Edge
    <3> QED  BY <1>2, <2>2, EdgePopped
  <2> QED  BY <1>1, <2>4, <2>5, QuietKeys
<1> QED
  BY <1>3, <1>4

\* The tree object takes a new version, or an only child, as its root.
LEMMA RootTakesKeys ==
    ASSUME NEW owner, MemInv(owner), ShapeInv, Shallow, KeyInv, MetaOK, NEW t \in Transients,
           \/ /\ RootReplace(t) \/ DiscardLeft(t)
              /\ Tells(t, NoInfo) /\ rightInfo' = [rightInfo EXCEPT ![t] = NoInfo]
              /\ UNCHANGED meta
           \/ Collapse(t) /\ UNCHANGED mixinVars
           \/ RootSplitTooDeep(t) /\ UNCHANGED mixinVars
    PROVE  KeyInv'
<1>1. Rests(owner, t) /\ stack[t] = <<>> /\ stack'[t] = <<>>
  BY RootTakesRests
<1> QED
  BY <1>1, IdleKeys DEF mixinVars

\* Thread t has a new root r, whose first slot is right.
LEMMA NewRootKeys ==
    ASSUME NEW owner, MemInv(owner), ShapeInv, Shallow, KeyInv, NEW t \in Transients,
           NEW r, NEW new, NEW d, Roots(t, r, new, d),
           Listens(t), \A n \in NodeId \ {r} : meta'[n] = meta[n],
           d > 1 => \A k \in 1 .. Len(items'[r]) - 1 : Guided(r, k)'
    PROVE  KeyInv'
<1> USE DEF Roots
<1>1. Memory /\ r \in FreeNodes /\ Loose(r)
  <2>1. Memory /\ r \in FreeNodes
    BY DEF MemInv, Allocates
  <2> QED  BY <2>1, FreeFacts DEF Loose
<1>2. PICK W : W = {r}
  OBVIOUS
<1>3. /\ depth'[r] = d /\ \A n \in NodeId \ {r} :
           /\ items'[n] = items[n] /\ depth'[n] = depth[n] /\ refs'[n] = refs[n]
           /\ (persistent'[n] => persistent[n])
  BY <1>1 DEF Makes, Counted, Memory, TypeOK, NodesOK
<1>4. Changes(owner, t, W) /\ \A n \in W : Loose(n)
  BY <1>1, <1>2, <1>3 DEF Changes
<1>5. FillsKeys(W)
  BY <1>2, <1>3 DEF FillsKeys
<1>6. StillOnWay(t, W)
  BY DEF StillOnWay, OnWay, Passes
<1>7. Edge(t)' /\ KeyTold(t)'
  BY DEF Edge, KeyTold
<1> QED
  BY <1>4, <1>5, <1>6, <1>7, LooseStep

\* An empty leaf has no array.
LEMMA EmptyRootKeys ==
    ASSUME NEW owner, MemInv(owner), ShapeInv, Shallow, KeyInv, MetaOK, NEW t \in Transients,
           \/ /\ RootErase(t)
              /\ Tells(t, NoInfo) /\ rightInfo' = [rightInfo EXCEPT ![t] = NoInfo]
              /\ UNCHANGED meta
           \/ Resting(t) /\ Empties(t) /\ UNCHANGED mixinVars
    PROVE  KeyInv'
<1>1. PICK r : Roots(t, r, <<>>, 1)
  BY EmptyRootRoots
<1>2. Listens(t) /\ UNCHANGED meta
  BY DEF Tells, MetaOK, Listens, mixinVars
<1>3. PICK new, d : new = <<>> /\ d = 1
  OBVIOUS
<1>4. Roots(t, r, new, d) /\ ~(d > 1)
  BY <1>1, <1>3
<1> QED
  BY <1>2, <1>4, NewRootKeys

\* A new root above two halves takes over the key it was told of the left one.
LEMMA RootSplitKeys ==
    ASSUME NEW owner, MemInv(owner), ShapeInv, Shallow, KeyInv, MetaOK, NEW t \in Transients,
           RootSplit(t), meta' = [meta EXCEPT ![root'[t]] = <<delta[t], rightInfo[t]>>],
           Tells(t, NoInfo), rightInfo' = [rightInfo EXCEPT ![t] = NoInfo]
    PROVE  KeyInv'
<1>1. PICK r, left, new, d :
         /\ Roots(t, r, new, d) /\ root'[t] = r
         /\ new = <<left, right[t]>> /\ d = depth[root[t]] + 1
         /\ left \in NodeId \ {r} /\ right[t] \in NodeId \ {r}
         /\ pc[t] = "split" /\ Tip(t) = left /\ depth[root[t]] < MaxDepth
  BY RootSplitRoots
<1>2. Memory /\ KeyTold(t)
  BY DEF MemInv, KeyInv
<1>3. r \in NodeId /\ items'[r] = <<left, right[t]>> /\ meta'[r] = <<delta[t], rightInfo[t]>>
  BY <1>1, <1>2 DEF Roots, Memory, TypeOK, NodesOK, MetaOK
<1>4. LastKey(left)' = LastKey(left)
  <2>1. PICK W, V : W = {r} /\ V = {n \in NodeId : Loose(n)}
    OBVIOUS
  <2>2. r \in FreeNodes /\ Loose(r)
    BY <1>1, <1>2, FreeFacts DEF Roots, Allocates, Loose
  <2>3. \A n \in NodeId \ {r} :
          /\ items'[n] = items[n] /\ depth'[n] = depth[n] /\ meta'[n] = meta[n]
          /\ refs'[n] = refs[n] /\ (persistent'[n] => persistent[n])
    BY <1>1, <1>2, <2>2 DEF Roots, Makes, Counted, Memory, TypeOK, NodesOK, MetaOK
  <2>4. Changes(owner, t, W) /\ \A n \in W : Loose(n)
    BY <1>3, <2>1, <2>2, <2>3 DEF Changes
  <2>5. Spares(owner, t, W, V)
    BY <2>1, <2>4, LooseKeys
  <2>6. left \notin V
    <3>1. stack[t] = <<>>
      BY <1>1 DEF Roots
    <3> QED  BY <1>1, <2>1, <3>1 DEF Tip, Loose, Placed, Handle
  <2> QED  BY <1>1, <2>5, <2>6 DEF Spares
<1>5. delta[t].key = LastKey(left)
  BY <1>1, <1>2 DEF KeyTold
<1>6. \A k \in 1 .. Len(items'[r]) - 1 : Guided(r, k)'
  <2>1. PICK its, ms, c, e, f : /\ its = items'[r] /\ ms = meta'[r] /\ c = right[t]
                                /\ e = delta[t] /\ f = rightInfo[t]
    OBVIOUS
  <2>2. Len(its) = 2 /\ its[1] = left /\ ms[1] = e
    BY <1>3, <2>1
  <2>3. LastKey(items[r][1])' = LastKey(left)'
    BY <2>1, <2>2 DEF LastKey
  <2>4. Guided(r, 1)'
    BY <1>4, <1>5, <2>1, <2>2, <2>3 DEF Guided
  <2> QED  BY <2>1, <2>2, <2>4
<1>7. \A n \in NodeId \ {r} : meta'[n] = meta[n]
  BY <1>1 DEF MetaOK
<1>8. Listens(t)
  BY DEF Tells, MetaOK, Listens
<1> QED
  BY <1>1, <1>6, <1>7, <1>8, NewRootKeys

\* A call on an object changes which roots there are, and no array.
LEMMA MakeCallKeys ==
    ASSUME NEW owner, MemInv(owner), ShapeInv, Shallow, KeyInv, MetaOK, NEW t \in Transients,
           MakeCall(t), UNCHANGED mixinVars
    PROVE  KeyInv'
<1>1. \/ Rests(owner, t) /\ stack[t] = <<>> /\ stack'[t] = <<>>
      \/ Resting(t) /\ Empties(t)
  BY MakeCallRests
<1> QED
  BY <1>1, EmptyRootKeys, IdleKeys DEF mixinVars

\* make_persistent writes no key.
LEMMA MakePersistentKeys ==
    ASSUME NEW owner, MemInv(owner), ShapeInv, Shallow, KeyInv, MetaOK, NEW t \in Transients,
           MakePersistent(t), UNCHANGED mixinVars
    PROVE  KeyInv'
<1>1. Rests(owner, t) /\ stack[t] = <<>> /\ stack'[t] = <<>>
  BY MakePersistentRests
<1> QED
  BY <1>1, IdleKeys DEF mixinVars

-----------------------------------------------------------------------------
(* Every step *)

\* There is no node at the start, and nothing to tell.
LEMMA KeyInit == MInit => KeyInv
<1> SUFFICES ASSUME MInit PROVE KeyInv
  OBVIOUS
<1>1. /\ \A n \in NodeId : refs[n] = 0
      /\ \A t \in Transients : pc[t] = "idle" /\ stack[t] = <<>>
  BY DEF MInit, Init
<1>2. Guides
  BY <1>1 DEF Guides
<1>3. \A t \in Transients : Edge(t) /\ KeyTold(t)
  BY <1>1 DEF Edge, KeyTold
<1> QED
  BY <1>2, <1>3 DEF KeyInv

\* The leaf tells of its last key.
LEMMA LeafStepKeys ==
    ASSUME NEW owner, MemInv(owner), ShapeInv, Shallow, MetaOK, CountInv, KeyInv,
           NEW t \in Transients, NEW i \in 0 .. LeafSize, NEW v \in Values,
           MLeafInsert(t, i, v) \/ MLeafAssign(t, i, v)
    PROVE  KeyInv'
<1>1. CASE MLeafInsert(t, i, v)
  BY <1>1, LeafInsertKeys, LeafSplitKeys DEF MLeafInsert
<1>2. CASE MLeafAssign(t, i, v)
  BY <1>2, LeafAssignKeys DEF MLeafAssign
<1> QED
  BY <1>1, <1>2

\* The leaf loses a value, or is to go with its only one.
LEMMA LeafGoesKeys ==
    ASSUME NEW owner, MemInv(owner), ShapeInv, Shallow, MetaOK, CountInv, KeyInv,
           NEW t \in Transients, NEW i \in 0 .. LeafSize, MLeafErase(t, i)
    PROVE  KeyInv'
<1>1. CASE LeafEraseOnly(t, i) /\ UNCHANGED mixinVars
  BY <1>1, OnlyKeys
<1>2. CASE /\ LeafErase(t, i) /\ UNCHANGED <<meta, rightInfo>>
           /\ \E junk : Tells(t, EraseDelta(at[t], i, junk))
  BY <1>2, LeafEraseKeys
<1> QED
  BY <1>1, <1>2 DEF MLeafErase

\* A continuation brings the keys of its node up to date.
LEMMA AscendKeys ==
    ASSUME NEW owner, MemInv(owner), ShapeInv, Shallow, MetaOK, CountInv, KeyInv,
           NEW t \in Transients, MAscend(t)
    PROVE  KeyInv'
<1>0. PICK n, i, u : n = Frame(t).node /\ i = Frame(t).index /\ u = delta[t]
  OBVIOUS
<1>1. CASE /\ InternalReplace(t)
           /\ Keeps(t, n, ReplaceItem(meta[n], i, Added(meta[n][i + 1], u)), ReplaceDelta(n, i, u))
  BY <1>0, <1>1, InternalReplaceKeys
<1>2. CASE /\ InternalInsert(t)
           /\ Keeps(t, n, Halves(t), SplitDelta(n, i, delta[t], rightInfo[t]))
  BY <1>0, <1>2, InternalInsertKeys
<1>3. CASE /\ InternalSplit(t)
           /\ LET sp == InternalSplitPoint(i, Frame(t).rightMost)
              IN  meta' = [meta EXCEPT ![NewVersion(t, n)] = LeftPart(Halves(t), sp),
                                       ![right'[t]] = RightPart(Halves(t), sp)]
           /\ TellsHalves(t, n)
  BY <1>0, <1>3, InternalSplitKeys
<1>4. CASE /\ InternalErase(t)
           /\ Keeps(t, n, EraseItem(meta[n], i), EraseInnerDelta(n, i))
  BY <1>0, <1>4, InternalEraseKeys
<1>5. CASE InternalEraseOnly(t) /\ UNCHANGED mixinVars
  BY <1>5, OnlyKeys
<1> QED
  BY <1>0, <1>1, <1>2, <1>3, <1>4, <1>5 DEF MAscend

\* So does the tree object.
LEMMA AtObjectKeys ==
    ASSUME NEW owner, MemInv(owner), ShapeInv, Shallow, MetaOK, KeyInv,
           NEW t \in Transients, MAtObject(t)
    PROVE  KeyInv'
<1>1. CASE SeekEnd(t) /\ UNCHANGED mixinVars
  <2>1. PICK W : Releases(t, W)
    BY <1>1, SeekEndReleases
  <2> QED  BY <1>1, <2>1, ReleaseKeys DEF mixinVars
<1> QED
  BY <1>1, RootSplitKeys, EmptyRootKeys, RootTakesKeys DEF MAtObject

\* A node that is deleted has no slot.
LEMMA DecRefKeys ==
    ASSUME NEW owner, MemInv(owner), ShapeInv, Shallow, KeyInv, NEW t \in Transients,
           DecRef(t), UNCHANGED mixinVars
    PROVE  KeyInv'
<1>1. PICK W : Releases(t, W)
  BY DecRefReleases
<1> QED
  BY <1>1, ReleaseKeys DEF mixinVars

\* Every step leaves every key right, or due to be set right.
LEMMA KeyNext ==
    ASSUME MemoryInv, ShapeInv, Shallow, MetaOK, CountInv, KeyInv,
           [MNext]_<<vars, mixinVars>>
    PROVE  KeyInv'
<1>1. PICK owner : MemInv(owner)
  BY DEF MemoryInv
<1>2. CASE MNext
  <2>1. PICK t \in Transients :
        \/ \E i \in 0 .. LeafSize :
              \/ \E v \in Values : MLeafInsert(t, i, v) \/ MLeafAssign(t, i, v)
              \/ MLeafErase(t, i)
        \/ MAscend(t)
        \/ MAtObject(t)
        \/ /\ \/ \E name \in Operations : Begin(t, name)
              \/ \E i \in 0 .. InternalSize - 1 : Descend(t, i)
              \/ LeafKeep(t)
              \/ Return(t)
              \/ MakeCall(t)
              \/ MakePersistent(t)
              \/ DecRef(t)
           /\ UNCHANGED mixinVars
    BY <1>2 DEF MNext
  <2>2. CASE \E i \in 0 .. LeafSize :
                \/ \E v \in Values : MLeafInsert(t, i, v) \/ MLeafAssign(t, i, v)
                \/ MLeafErase(t, i)
    BY <1>1, <2>2, LeafStepKeys, LeafGoesKeys
  <2>3. CASE MAscend(t)
    BY <1>1, <2>3, AscendKeys
  <2>4. CASE MAtObject(t)
    BY <1>1, <2>4, AtObjectKeys
  <2>5. CASE /\ (\E name \in Operations : Begin(t, name)) \/ LeafKeep(t) \/ Return(t)
             /\ UNCHANGED mixinVars
    BY <1>1, <2>5, TurnKeys
  <2>6. CASE (\E i \in 0 .. InternalSize - 1 : Descend(t, i)) /\ UNCHANGED mixinVars
    BY <1>1, <2>6, DescendKeys
  <2>7. CASE MakeCall(t) /\ UNCHANGED mixinVars
    BY <1>1, <2>7, MakeCallKeys
  <2>8. CASE MakePersistent(t) /\ UNCHANGED mixinVars
    BY <1>1, <2>8, MakePersistentKeys
  <2>9. CASE DecRef(t) /\ UNCHANGED mixinVars
    BY <1>1, <2>9, DecRefKeys
  <2> QED  BY <2>1, <2>2, <2>3, <2>4, <2>5, <2>6, <2>7, <2>8, <2>9
<1>3. CASE UNCHANGED <<vars, mixinVars>>
  <2>1. UNCHANGED <<items, depth, persistent, refs, root, pc, op, stack, ptr, right,
                    meta, delta, rightInfo>>
    BY <1>3 DEF vars, nodes, trees, control, result, mixinVars
  <2>2. \A n : LastKey(n)' = LastKey(n)
    BY <2>1 DEF LastKey
  <2>3. \A n, k : Guided(n, k)' <=> Guided(n, k)
    BY <2>1 DEF Guided, LastKey
  <2>4. \A t, n, k : OnWay(t, n, k)' <=> OnWay(t, n, k)
    BY <2>1 DEF OnWay, Passes
  <2>5. Guides'
    BY <2>1, <2>3, <2>4 DEF KeyInv, Guides
  <2>6. ASSUME NEW t \in Transients PROVE Edge(t)' /\ KeyTold(t)'
    <3>1. Frame(t)' = Frame(t) /\ Tip(t)' = Tip(t) /\ right'[t] = right[t]
      BY <2>1 DEF Frame, Tip, FrameItem
    <3>2. LastKey(Tip(t))' = LastKey(Tip(t)) /\ LastKey(right[t])' = LastKey(right[t])
      BY <2>1, <3>1 DEF LastKey
    <3>3. Edge(t)'
      BY <2>1, <3>1 DEF KeyInv, Edge
    <3> QED  BY <2>1, <3>2, <3>3 DEF KeyInv, KeyTold
  <2> QED  BY <2>5, <2>6 DEF KeyInv
<1> QED
  BY <1>2, <1>3

\* Every inner node of every version of the tree knows the last key below each of its
\* children but the last one, at every step of every thread: InternalNode::keys, by which
\* find_key picks a child; but for a slot that a call has gone through in a node it may
\* change, until its continuation has been called.
THEOREM KeysAreGuides == MSpec => []KeysGuide
<1>1. MemoryInv /\ KeyInv => KeysGuide
  <2> SUFFICES ASSUME MemoryInv, KeyInv, NEW s \in Described, s[2] < Len(items[s[1]])
               PROVE  MetaAt(s).key = LastKey(ChildAt(s))
    BY DEF KeysGuide
  <2>1. PICK m \in Inner : s \in {m} \X DOMAIN items[m]
    BY DEF Described, PointerSlots
  <2>2. PICK k \in DOMAIN items[m] : s[1] = m /\ s[2] = k
    BY <2>1
  <2>3. /\ m \in NodeId /\ depth[m] > 1 /\ refs[m] > 0
        /\ persistent[m] \/ Settled(m, k)
    BY <2>2 DEF Described, Inner
  <2>4. k \in 1 .. Len(items[m]) - 1
    <3>1. Memory
      BY DEF MemoryInv, MemInv
    <3>2. items[m] \in Seq(NodeId)
      BY <2>3, <3>1 DEF Memory, TypeOK, NodesOK
    <3> QED  BY <2>2, <3>2, LenProperties
  <2>5. Settled(m, k) => ~\E t \in Transients : OnWay(t, m, k)
    BY DEF Settled, OnWay, Passes
  <2>6. Guided(m, k)
    BY <2>3, <2>4, <2>5 DEF KeyInv, Guides
  <2> QED  BY <2>2, <2>6 DEF Guided, MetaAt, ChildAt
<1>2. MSpec => [](MemoryInv /\ ShapeInv /\ Shallow)
  <2>1. Spec => []ShapeInv
    BY MemoryAlways, ShapeInit, ShapeNext, PTL DEF Spec
  <2> QED  BY <2>1, MixinsImplementTree, MemoryAlways, NoTreeTooDeep, PTL
<1>3. MSpec => [](MetaOK /\ CountInv)
  BY <1>2, CountInit, CountNext, MetaType, PTL DEF MSpec
<1>4. MSpec => []KeyInv
  BY <1>2, <1>3, KeyInit, KeyNext, PTL DEF MSpec
<1> QED
  BY <1>1, <1>2, <1>4, PTL

=============================================================================
