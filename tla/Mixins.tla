------------------------------- MODULE Mixins -------------------------------
(***************************************************************************)
(* What the mixins keep beside the child pointers of an inner node: for    *)
(* every child its number of elements (Indexed), their sum (Summed), their *)
(* least (Min; Max is the same code with the other comparator) and its     *)
(* last key (Ordered).                                                     *)
(*                                                                         *)
(* None of it is computed from the children when they change.  The leaf    *)
(* works out a delta before it changes, by compute_delta_..., passes it to *)
(* the continuation with the new pointer, and each level then works out    *)
(* its own from what it is given and what it has.  Only the halves of a    *)
(* node that splits are looked through again (NodeInfo's constructor).     *)
(***************************************************************************)
EXTENDS CowTree, FiniteSetsExt

CONSTANTS SumBits,    \* width of an unsigned SumType
          KeyOf(_),   \* the extractor of the Ordered mixin
          SumOf(_),   \* the extractor of the Summed mixin
          MinOf(_)    \* the extractor of the Min mixin

ASSUME MixinsAssumption ==
    /\ Values \subseteq Nat
    /\ SumBits \in Nat \ {0}
    /\ \A v \in Values : KeyOf(v) \in Nat /\ SumOf(v) \in Nat /\ MinOf(v) \in Nat

VARIABLES meta,       \* child_counts, child_sums, mins and keys of inner nodes
          delta,      \* what a level tells its continuation: of the node that
                      \* changed, or of the left half of one that split
          rightInfo   \* the NodeInfo of the right half

mixinVars == <<meta, delta, rightInfo>>

Info(c, s, m, k) == [children |-> c, sum |-> s, min |-> m, key |-> k]
NoInfo == Info(0, 0, 0, 0)

Wrap(x) == x % 2 ^ SumBits

\* All words the slot after the last value of a leaf may hold.
Word == 0 .. 2 ^ SumBits - 1

-----------------------------------------------------------------------------
(* Looking through a node *)

LastItem(s) == s[Len(s)]
Slots(s)    == 1 .. Len(s)

\* last_key(): down the last children to the leaf.
LastKeyIn(its, deps) ==
    LET last[d \in Level] ==
          [n \in NodeId |-> IF d = 1 THEN KeyOf(LastItem(its[n]))
                            ELSE last[d - 1][LastItem(its[n])]]
    IN  [n \in NodeId |-> last[deps[n]][n]]
LastKey(n) == LastKeyIn(items, depth)[n]

LeafSummary(s) ==
    Info(Len(s), Wrap(MapThenSumSet(LAMBDA k : SumOf(s[k]), Slots(s))),
         Min({MinOf(s[k]) : k \in Slots(s)}), KeyOf(LastItem(s)))

InnerSummary(ms, key) ==
    Info(MapThenSumSet(LAMBDA k : ms[k].children, Slots(ms)),
         Wrap(MapThenSumSet(LAMBDA k : ms[k].sum, Slots(ms))),
         Min({ms[k].min : k \in Slots(ms)}), key)

\* NodeInfo(p, changed): children(), sum(), min() and last_key() of node n.
Summary(n, its, deps, ms) ==
    IF deps[n] = 1 THEN LeafSummary(its[n])
                   ELSE InnerSummary(ms[n], LastKeyIn(its, deps)[n])

-----------------------------------------------------------------------------
(* compute_delta_... of a leaf *)

\* min_excluding: the values but the one at index i; -1 excludes none.
ValuesBut(n, i) == {MinOf(items[n][k]) : k \in Slots(items[n]) \ {i + 1}}

InsertDelta(n, i, v) ==
    Info(1, Wrap(SumOf(v)), Min(ValuesBut(n, -1) \cup {MinOf(v)}),
         KeyOf(IF i = Len(items[n]) THEN v ELSE LastItem(items[n])))

\* Mutant: the old value is not subtracted.
SetDeltaNoOld(n, i, v) ==
    Info(0, Wrap(SumOf(v)), Min(ValuesBut(n, i) \cup {MinOf(v)}),
         KeyOf(IF i = Len(items[n]) - 1 THEN v ELSE LastItem(items[n])))

SetDelta(n, i, v) ==
    Info(0, Wrap(SumOf(v) - SumOf(items[n][i + 1])), Min(ValuesBut(n, i) \cup {MinOf(v)}),
         KeyOf(IF i = Len(items[n]) - 1 THEN v ELSE LastItem(items[n])))

\* Mutant: the erased value is not excluded from the least.
EraseDeltaNotBut(n, i, junk) ==
    LET s == items[n] IN
    Info(-1, Wrap(-(IF i < Len(s) THEN SumOf(s[i + 1]) ELSE junk)),
         Min(ValuesBut(n, -1)),
         KeyOf(IF i = Len(s) - 1 THEN s[Len(s) - 1] ELSE LastItem(s)))

\* Mutant: the last value is the last even if it is the one that goes.
EraseDeltaStaleKey(n, i, junk) ==
    LET s == items[n] IN
    Info(-1, Wrap(-(IF i < Len(s) THEN SumOf(s[i + 1]) ELSE junk)),
         Min(ValuesBut(n, i)), KeyOf(LastItem(s)))

\* pop_back erases at index length: what is summed up is whatever is there, the
\* least is that of all values, and the last key is the erased one.
EraseDelta(n, i, junk) ==
    LET s == items[n] IN
    Info(-1, Wrap(-(IF i < Len(s) THEN SumOf(s[i + 1]) ELSE junk)),
         Min(ValuesBut(n, i)),
         KeyOf(IF i = Len(s) - 1 THEN s[Len(s) - 1] ELSE LastItem(s)))

-----------------------------------------------------------------------------
(* compute_delta_... of an inner node, and its arrays *)

MinsBut(n, i) == {meta[n][k].min : k \in Slots(meta[n]) \ {i + 1}}

ReplaceDelta(n, i, u) ==
    Info(u.children, u.sum, Min(MinsBut(n, i) \cup {u.min}),
         IF i = Len(items[n]) - 1 THEN u.key ELSE LastKey(n))

SplitDelta(n, i, l, r) ==
    Info(l.children + r.children - meta[n][i + 1].children,
         Wrap(l.sum + r.sum - meta[n][i + 1].sum),
         Min(MinsBut(n, i) \cup {l.min, r.min}),
         IF i = Len(items[n]) - 1 THEN r.key ELSE LastKey(n))

EraseInnerDelta(n, i) ==
    Info(-meta[n][i + 1].children, Wrap(-meta[n][i + 1].sum), Min(MinsBut(n, i)),
         IF i = Len(items[n]) - 1 THEN meta[n][i].key ELSE LastKey(n))

\* Mutant: the count of the child is replaced, not changed.
AddedSet(m, u) == Info(u.children, Wrap(m.sum + u.sum), u.min, u.key)

\* replace_element: counts and sums are differences, least and key are values.
Added(m, u) == Info(m.children + u.children, Wrap(m.sum + u.sum), u.min, u.key)

-----------------------------------------------------------------------------
(* The steps of an operation *)

Tells(t, d) == delta' = [delta EXCEPT ![t] = d]

\* Mutant: the arrays of the old version are written to.
NewVersionInPlace(t, n) == n

\* The node that is the new version of n.
NewVersion(t, n) == IF ptr'[t] = Nil THEN n ELSE ptr'[t]

\* Both halves of node n, which has just split, are looked through.
TellsHalves(t, n) ==
    /\ Tells(t, Summary(NewVersion(t, n), items', depth', meta'))
    /\ rightInfo' = [rightInfo EXCEPT ![t] = Summary(right'[t], items', depth', meta')]

MLeafInsert(t, i, v) ==
    LET n == at[t] IN
    \/ /\ LeafInsert(t, i, v)
       /\ Tells(t, InsertDelta(n, i, v))
       /\ UNCHANGED <<meta, rightInfo>>
    \/ /\ LeafSplit(t, i, v)
       /\ UNCHANGED meta
       /\ TellsHalves(t, n)

MLeafAssign(t, i, v) ==
    /\ LeafAssign(t, i, v)
    /\ Tells(t, SetDelta(at[t], i, v))
    /\ UNCHANGED <<meta, rightInfo>>

MLeafErase(t, i) ==
    LET n == at[t] IN
    \/ /\ LeafErase(t, i)
       /\ \E junk \in IF i < Len(items[n]) THEN {0} ELSE Word :
             Tells(t, EraseDelta(n, i, junk))
       /\ UNCHANGED <<meta, rightInfo>>
    \/ LeafEraseOnly(t, i) /\ UNCHANGED mixinVars

\* The arrays of the new version of n are ms, and the continuation is told d.
Keeps(t, n, ms, d) ==
    /\ meta' = [meta EXCEPT ![NewVersion(t, n)] = ms]
    /\ Tells(t, d)
    /\ rightInfo' = [rightInfo EXCEPT ![t] = NoInfo]

Halves(t) == SplitChild(meta[Frame(t).node], Frame(t).index, delta[t], rightInfo[t])

MAscend(t) ==
    LET n == Frame(t).node
        i == Frame(t).index
        u == delta[t]
    IN
    \/ /\ InternalReplace(t)
       /\ Keeps(t, n, ReplaceItem(meta[n], i, Added(meta[n][i + 1], u)),
                ReplaceDelta(n, i, u))
    \/ /\ InternalInsert(t)
       /\ Keeps(t, n, Halves(t), SplitDelta(n, i, u, rightInfo[t]))
    \/ /\ InternalSplit(t)
       /\ LET sp == InternalSplitPoint(i, Frame(t).rightMost)
          IN  meta' = [meta EXCEPT ![NewVersion(t, n)] = LeftPart(Halves(t), sp),
                                   ![right'[t]] = RightPart(Halves(t), sp)]
       /\ TellsHalves(t, n)
    \/ /\ InternalErase(t)
       /\ Keeps(t, n, EraseItem(meta[n], i), EraseInnerDelta(n, i))
    \/ InternalEraseOnly(t) /\ UNCHANGED mixinVars

\* The tree object has no use for what it is told, but for a split.
MAtObject(t) ==
    \/ /\ RootSplit(t)
       /\ meta' = [meta EXCEPT ![root'[t]] = <<delta[t], rightInfo[t]>>]
       /\ Tells(t, NoInfo)
       /\ rightInfo' = [rightInfo EXCEPT ![t] = NoInfo]
    \/ /\ RootReplace(t) \/ RootErase(t) \/ DiscardLeft(t)
       /\ Tells(t, NoInfo)
       /\ rightInfo' = [rightInfo EXCEPT ![t] = NoInfo]
       /\ UNCHANGED meta
    \/ /\ SeekEnd(t) \/ Collapse(t) \/ RootSplitTooDeep(t)
       /\ UNCHANGED mixinVars

MInit ==
    /\ Init
    /\ meta = [n \in NodeId |-> <<>>]
    /\ delta = [t \in Transients |-> NoInfo]
    /\ rightInfo = [t \in Transients |-> NoInfo]

MNext ==
    \E t \in Transients :
        \/ \E i \in 0 .. LeafSize :
              \/ \E v \in Values : MLeafInsert(t, i, v) \/ MLeafAssign(t, i, v)
              \/ MLeafErase(t, i)
        \/ MAscend(t)
        \/ MAtObject(t)
        \/ /\ \/ \E name \in Operations : Begin(t, name)
              \/ \E i \in 0 .. InternalSize - 1 : Descend(t, i)
              \/ LeafKeep(t)
              \/ Return(t)
              \/ MakeCall(t)
              \/ MakePersistent(t)
              \/ DecRef(t)
           /\ UNCHANGED mixinVars

MSpec == MInit /\ [][MNext]_<<vars, mixinVars>>

-----------------------------------------------------------------------------
(* Properties *)

\* The slots of the inner nodes of all trees, old and new, that describe what is
\* there.  Not one that an operation has gone through, in a node it may change:
\* its child is ahead of it until the continuation has been called.
Settled(n, k) ==
    ~\E t \in Transients :
        /\ pc[t] \in {"replace", "split", "erase"}
        /\ \E j \in 1 .. Len(stack[t]) :
             stack[t][j].node = n /\ stack[t][j].index = k - 1

Described == {s \in PointerSlots :
                /\ refs[s[1]] > 0
                /\ persistent[s[1]] \/ Settled(s[1], s[2])}

ChildAt(s) == items[s[1]][s[2]]
MetaAt(s)  == meta[s[1]][s[2]]

\* Every inner node knows how many elements are below each of its children, in
\* every version of the tree, through every insertion, split, erasure, copy and
\* collapse, although it never counts them.
CountsExact ==
    \A s \in Described :
        MetaAt(s).children = Summary(ChildAt(s), items, depth, meta).children

\* It knows their sum, up to the width of the type,
SumsExact ==
    \A s \in Described :
        MetaAt(s).sum = Summary(ChildAt(s), items, depth, meta).sum

\* and the least of them.
MinsExact ==
    \A s \in Described :
        MetaAt(s).min = Summary(ChildAt(s), items, depth, meta).min

\* It knows the last key below every child but its last, for which nobody asks:
\* pop_back leaves the key it erased there, and no operation may bring that key
\* to a place where searches look.
KeysGuide ==
    \A s \in Described :
        s[2] < Len(items[s[1]]) => MetaAt(s).key = LastKey(ChildAt(s))

\* What a node knows of its children does not change once it may be shared: a
\* Persistent answers as it did when it was made.
MetaFrozen ==
    [][\A n \in NodeId :
          refs[n] > 0 /\ ~Dying(n) /\ persistent[n] /\ refs'[n] > 0 =>
             meta'[n] = meta[n]]_<<vars, mixinVars>>

\* Whoever asks a tree at rest.
Asked(h) ==
    /\ root[h] # Nil /\ depth[root[h]] > 1
    /\ h \in Transients => Resting(h)

\* The least of an inner node's values.
LeastBelow(n) ==
    LET least[d \in Level, m \in NodeId] ==
          IF d = 1 THEN Min({MinOf(items[m][k]) : k \in Slots(items[m])})
          ELSE Min({least[d - 1, items[m][k]] : k \in Slots(items[m])})
    IN  least[depth[n], n]

\* min() is "the minimum value in a B++ tree".
MinIsMin ==
    \A h \in Handle : Asked(h) =>
        InnerSummary(meta[root[h]], 0).min = LeastBelow(root[h])
=============================================================================
