---------------------------- MODULE OrderedTree ----------------------------
(***************************************************************************)
(* An Ordered tree: its elements are looked for by key.  An inner node has *)
(* the last key of every child, as far as Mixins has it right, and goes to *)
(* the first child whose last key is not before the one that is sought; a  *)
(* leaf looks at its values.  Here a finder gives every operation its way  *)
(* down, and the leaf decides what insert_v and insert_or_assign do.       *)
(***************************************************************************)
EXTENDS Queries

CONSTANT Updater(_)   \* what update_key is called with: keeps the key

ASSUME UpdaterAssumption ==
    \A v \in Values : Updater(v) \in Values /\ KeyOf(Updater(v)) = KeyOf(v)

VARIABLES call,    \* the keyed operation each thread is in, and its element
          before,  \* what its tree held when it began
          popped   \* has pop_back been called, which spoils sums and least values?

ordered == <<call, before, popped>>

\* The elements of tree object h.
Held(h) == IF root[h] = Nil THEN {}
           ELSE {Elements(h)[k] : k \in 1 .. Len(Elements(h))}

KM == INSTANCE KeyedMap WITH
        elements <- [t \in Transients |->
                       IF call[t].op = "none" THEN Held(t) ELSE before[t]]

-----------------------------------------------------------------------------
(* Searching a node *)

KeyIn(n, i) == IF depth[n] = 1 THEN KeyOf(items[n][i + 1]) ELSE meta[n][i + 1].key

\* Mutant: less_than in the place of less_than_or_equal.
BeforeStrictly(a, k, orEqual) == a < k

\* The comparison a search is made with: less_than, or less_than_or_equal.
Before(a, k, orEqual) == a < k \/ (orEqual /\ a = k)

\* find_key_index: the last child of an inner node is taken unseen.
KeyIndex(n, k, orEqual) ==
    LET last == IF depth[n] = 1 THEN Len(items[n]) ELSE Len(items[n]) - 1
    IN  CHOOSE i \in 0 .. last :
          /\ i = last \/ ~Before(KeyIn(n, i), k, orEqual)
          /\ \A j \in 0 .. i - 1 : Before(KeyIn(n, j), k, orEqual)

\* Mutant: the last value of the leaf is not looked at.
IsKeyBut(n, i, k) == i < Len(items[n]) - 1 /\ KeyOf(items[n][i + 1]) = k

IsKey(n, i, k) == i < Len(items[n]) /\ KeyOf(items[n][i + 1]) = k

\* seek_key: the word, and whether the key is there.
RECURSIVE SeekKey(_, _, _, _)
SeekKey(n, it, k, orEqual) ==
    LET i == KeyIndex(n, k, orEqual)
        w == [it EXCEPT ![depth[n]] = i]
    IN  IF depth[n] = 1 THEN [word |-> w, found |-> IsKey(n, i, k)]
        ELSE SeekKey(items[n][i + 1], w, k, orEqual)

LowerBound(n, k) == SeekKey(n, ZeroIter, k, FALSE).word
UpperBound(n, k) == SeekKey(n, ZeroIter, k, TRUE).word

Find(n, k) ==
    LET s == SeekKey(n, ZeroIter, k, FALSE)
    IN  IF s.found THEN s.word ELSE SeekEndWord(n, s.word)

RECURSIVE HasKey(_, _), AtKey(_, _)
HasKey(n, k) ==
    LET i == KeyIndex(n, k, FALSE)
    IN  IF depth[n] = 1 THEN IsKey(n, i, k) ELSE HasKey(items[n][i + 1], k)
AtKey(n, k) ==
    LET x == items[n][KeyIndex(n, k, FALSE) + 1]
    IN  IF depth[n] = 1 THEN x ELSE AtKey(x, k)

-----------------------------------------------------------------------------
(* The operations *)

\* assign_v, erase_key and update_key.  With BPPTREE_SAFETY_CHECKS
\* find_key_index_checked throws for a key that is not there; without them the
\* caller has to know that it is.
OfElement == {"assign", "erase", "update"}

OBegin(t, name, v) ==
    /\ Begin(t, name)
    /\ name \in OfElement => HasKey(root[t], KeyOf(v))
    /\ call' = [call EXCEPT ![t] = [op |-> name, val |-> v]]
    /\ before' = [before EXCEPT ![t] = Held(t)]
    /\ popped' = (popped \/ name = "pop_back")
    /\ UNCHANGED mixinVars

KeySought(t) == KeyOf(call[t].val)

\* find_last for pop_back.
ODescend(t) ==
    /\ Descend(t, IF op[t] = "pop_back" THEN Len(items[at[t]]) - 1
                  ELSE KeyIndex(at[t], KeySought(t), FALSE))
    /\ UNCHANGED <<mixinVars, ordered>>

\* The updater of update_key, and of the operators of a ProxyRef, is called with
\* the element that is found.
Updated(n, i) == Updater(items[n][i + 1])

\* insert_or_assign of a leaf, and assign, erase, update and pop_back.
OLeafStep(t) ==
    LET n == at[t]
        i == KeyIndex(n, KeySought(t), FALSE)
        v == call[t].val
    IN  /\ pc[t] = "descend" /\ depth[n] = 1
        /\ \/ op[t] \in Inserting /\ ~IsKey(n, i, KeyOf(v)) /\ MLeafInsert(t, i, v)
           \/ op[t] \in Inserting /\ IsKey(n, i, KeyOf(v)) /\ MLeafAssign(t, i, v)
           \/ /\ op[t] = "insert_v" /\ IsKey(n, i, KeyOf(v))
              /\ LeafKeep(t) /\ UNCHANGED mixinVars
           \/ op[t] = "assign" /\ MLeafAssign(t, i, v)
           \/ op[t] = "update" /\ MLeafAssign(t, i, Updated(n, i))
           \/ op[t] = "erase" /\ MLeafErase(t, i)
           \/ op[t] = "pop_back" /\ MLeafErase(t, Len(items[n]))
        /\ UNCHANGED ordered

OReturn(t) ==
    /\ Return(t)
    /\ call' = [call EXCEPT ![t] = KM!Idle]
    /\ before' = [before EXCEPT ![t] = {}]
    /\ UNCHANGED <<mixinVars, popped>>

OInit ==
    /\ MInit
    /\ call = [t \in Transients |-> KM!Idle]
    /\ before = [t \in Transients |-> {}]
    /\ popped = FALSE

ONext ==
    \E t \in Transients :
        \/ \E name \in Operations, v \in Values : OBegin(t, name, v)
        \/ ODescend(t)
        \/ OLeafStep(t)
        \/ OReturn(t)
        \/ MAscend(t) /\ UNCHANGED ordered
        \/ MAtObject(t) /\ UNCHANGED ordered
        \/ /\ New(t) \/ Clear(t) \/ DecRef(t)
           /\ UNCHANGED <<mixinVars, ordered>>

OSpec == OInit /\ [][ONext]_<<vars, mixinVars, ordered>>

-----------------------------------------------------------------------------
(* Properties *)

\* However it grows, splits, shrinks and collapses, and although it is led down
\* by keys that nobody looks up again, the tree does what a map does.
ImplementsKeyedMap == KM!Spec

\* Elements are in the order of their keys, and no key is there twice.
KeysAscend ==
    \A h \in Handle : Searched(h) =>
        \A j, k \in 1 .. size[h] :
            j < k => KeyOf(Elements(h)[j]) < KeyOf(Elements(h)[k])

\* The sums and the least values below every child, kept up by differences, are
\* right, and so are the answers drawn from them, as long as pop_back has not been
\* called.
SumsRight == popped \/ (SumsExact /\ SumsFind /\ SumBoundFirst)
MinsRight == popped \/ (MinsExact /\ MinFinds)

\* All keys there may be, one before and one behind them.
SoughtKeys == 0 .. Max({KeyOf(v) : v \in Values}) + 1

CountWhere(s, test(_)) == Cardinality({k \in 1 .. Len(s) : test(KeyOf(s[k]))})

\* find, lower_bound, upper_bound, contains and at_key give what a scan gives,
\* with the one word that stands for the place.
SearchesFind ==
    \A h \in Handle : Searched(h) =>
        \A k \in SoughtKeys :
            LET s     == Elements(h)
                r     == root[h]
                lower == CountWhere(s, LAMBDA a : a < k)
                upper == CountWhere(s, LAMBDA a : a <= k)
            IN  /\ LowerBound(r, k) = WordAt(h, lower)
                /\ UpperBound(r, k) = WordAt(h, upper)
                /\ Find(r, k) = WordAt(h, IF upper > lower THEN lower ELSE size[h])
                /\ HasKey(r, k) = (upper > lower)
                /\ upper > lower => AtKey(r, k) = s[lower + 1]
=============================================================================
