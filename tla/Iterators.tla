------------------------------ MODULE Iterators ------------------------------
(***************************************************************************)
(* Iterators into the trees: one at a time into each object.               *)
(*                                                                         *)
(* An iterator is a word that names a place, and a pointer to the leaf of  *)
(* that place so that most moves and reads need not start at the root.  A  *)
(* modification of a Transient may replace that leaf.  mod_count, kept by  *)
(* the Transient and copied into the iterator, tells; here an iterator is  *)
(* fresh while the two counts are equal.  A Persistent does not change and *)
(* has no count.  The iterator of a Transient is also the argument of      *)
(* operations, which then follow its word to the leaf.                     *)
(*                                                                         *)
(* spot is where the iterator should be: the number of elements left of    *)
(* it, or -1 before the first one (rend).                                  *)
(***************************************************************************)
EXTENDS TreeWords

CONSTANT Jumps    \* the distances an iterator is moved by in one call

ASSUME JumpsAssumption == Jumps \subseteq Int

VARIABLES cursor,   \* the iterator into each object
          using     \* how the operation of a thread uses its iterator

cursorVars == <<cursor, using>>

NoCursor == [word |-> ZeroIter, leaf |-> Nil, fresh |-> FALSE, spot |-> -2]
Held(h)  == cursor[h] # NoCursor

\* A state in which the program may use its iterator into object h.
AtRest(h) == root[h] # Nil /\ (h \in Transients => Resting(h))

Points(c, leaf, word) == [c EXCEPT !.leaf = leaf, !.word = word, !.fresh = TRUE]

\* The slow path of advance: from the root, which also finds the leaf again.
FromRoot(n, c, leaf, word, k) ==
    LET r == Advance(n, leaf, word, k)
    IN  IF r.rest > 0 THEN Points(c, RightmostLeaf(n), SeekEndWord(n, r.word))
        ELSE IF r.rest < 0 THEN Points(c, Nil, Rend)
        ELSE Points(c, r.leaf, r.word)

\* Mutant: the cached leaf is used without a look at mod_count.
UsesLeafAlways(c) == TRUE

\* Does advance start at the cached leaf?
UsesLeaf(c) == c.fresh

\* IteratorDetail::advance, in a tree with root n, by k in the order of the tree.
Advanced(n, c, k) ==
    IF c.word = Rend
      THEN IF k <= 0 THEN c
           ELSE IF k = 1 THEN Points(c, LeftmostLeaf(n), ZeroIter)
           ELSE FromRoot(n, c, c.leaf, ZeroIter, k - 1)
      ELSE LET r == IF UsesLeaf(c) THEN AdvanceLeaf(c.leaf, c.leaf, c.word, k)
                                   ELSE Move(c.leaf, c.word, k)
           IN  IF r.rest = 0 THEN [c EXCEPT !.leaf = r.leaf, !.word = r.word]
               ELSE FromRoot(n, c, r.leaf, r.word, r.rest)

Within(k, lo, hi) == IF k < lo THEN lo ELSE IF k > hi THEN hi ELSE k
MovedSpot(h, k)   == Within(cursor[h].spot + k, -1, size[h])

-----------------------------------------------------------------------------
(* Making, moving and reading an iterator *)

Begins(n) == [word |-> ZeroIter, leaf |-> LeftmostLeaf(n), fresh |-> TRUE,
              spot |-> 0]
Ends(n, len) == [word |-> SeekEndWord(n, ZeroIter), leaf |-> RightmostLeaf(n),
                 fresh |-> TRUE, spot |-> len]
ReverseEnds == [word |-> Rend, leaf |-> Nil, fresh |-> TRUE, spot |-> -1]
\* rbegin() goes to the end and moves one back.
ReverseBegins(n, len) ==
    [Advanced(n, Ends(n, len), -1) EXCEPT !.spot = len - 1]

Obtain(h) ==
    /\ AtRest(h) /\ ~Held(h)
    /\ \E c \in {Begins(root[h]), Ends(root[h], size[h]), ReverseEnds,
                 ReverseBegins(root[h], size[h])} :
         cursor' = [cursor EXCEPT ![h] = c]
    /\ UNCHANGED <<vars, using>>

\* ++, --, += and -=, of either direction.
MoveBy(h, k) ==
    /\ AtRest(h) /\ Held(h)
    /\ cursor' = [cursor EXCEPT ![h] =
                    [Advanced(root[h], @, k) EXCEPT !.spot = MovedSpot(h, k)]]
    /\ UNCHANGED <<vars, using>>

\* Mutant: the count is taken over, and the leaf is not looked up.
FixedLeafNot(n, c) == [c EXCEPT !.fresh = TRUE]

\* fix_leaf: a stale leaf pointer is looked up, in a copy of the word.
FixedLeaf(n, c) ==
    IF c.fresh THEN c ELSE Points(c, Advance(n, c.leaf, c.word, 0).leaf, c.word)

\* Reading through the iterator, or asking whether it is valid(); rend names no
\* value, and valid() returns before it looks for a leaf.
Read(h) ==
    /\ AtRest(h) /\ Held(h)
    /\ cursor[h].word # Rend
    /\ cursor' = [cursor EXCEPT ![h] = FixedLeaf(root[h], @)]
    /\ UNCHANGED <<vars, using>>

\* Mutant: words compare without the increment that makes rend the least.
WordLessNoWrap(v, w) == Packed(v) < Packed(w)

\* operator<, for iterators in the order of the tree: rend + 1 is 0.
WordLess(v, w) ==
    LET Wrapped(it) == (Packed(it) + 1) % 2 ^ (UsedBits + 1)
    IN  Wrapped(v) < Wrapped(w)

\* operator< of reverse iterators: reverse ^ (iter + 1 < rhs.iter + 1).
ReverseLess(v, w) == ~WordLess(v, w)

-----------------------------------------------------------------------------
(* Operations of a Transient *)

\* The places operation name takes an iterator to.
Allowed(name, spot, len) ==
    IF name = "insert" THEN spot \in 0 .. len ELSE spot \in 0 .. len - 1

\* assign(it), insert(it), erase(it), update(it).  Insertion before a reverse
\* iterator is insertion behind its element, so the iterator first goes there.
BeginAt(t, name, reverse) ==
    LET c == IF reverse /\ name = "insert"
               THEN [Advanced(root[t], cursor[t], 1) EXCEPT !.spot = MovedSpot(t, 1)]
               ELSE cursor[t]
    IN  /\ Held(t)
        /\ Begin(t, name)
        /\ name # "pop_back"
        /\ Allowed(name, c.spot, size[t])
        /\ cursor' = [cursor EXCEPT ![t] = c]
        /\ using' = [using EXCEPT ![t] = IF reverse THEN "reverse" ELSE "forward"]

\* Operations that name their element in another way.  The iterators into the
\* Transient stay valid if no element comes or goes.
BeginElsewhere(t, name) ==
    /\ Begin(t, name)
    /\ cursor' = [cursor EXCEPT ![t] =
                    IF name \in {"assign", "update"} THEN @ ELSE NoCursor]
    /\ UNCHANGED using

\* find_iterator: the index at each level is the word's.
Finds(t, i) ==
    using[t] # "no" => i = cursor[t].word[depth[at[t]]]

WayDown(t) ==
    /\ pc[t] = "descend"
    /\ \/ \E i \in 0 .. InternalSize - 1 : Finds(t, i) /\ Descend(t, i)
       \/ \E i \in 0 .. LeafSize, v \in Values : Finds(t, i) /\ LeafStep(t, i, v)
       \/ using[t] = "no" /\ LeafKeep(t)
    /\ UNCHANGED cursorVars

WayUp(t) ==
    /\ pc[t] \notin {"descend", "done"}
    /\ Ascend(t)
    /\ UNCHANGED cursorVars

\* Mutant: mod_count is not incremented.
StaleNot(c) == c

\* ++mod_count, at the end of Modify.
Stale(c) == [c EXCEPT !.fresh = FALSE]

\* insert and erase put the word they return into the iterator; a reverse one
\* then goes on from the successor of the erased element to its predecessor.
Rewritten(t) ==
    LET c == Stale(cursor[t])
        w == [c EXCEPT !.word = iter[t]]
    IN  IF using[t] = "no" \/ op[t] \in {"assign", "update"} THEN c
        ELSE IF op[t] = "erase" /\ using[t] = "reverse"
          THEN [Advanced(root[t], w, -1) EXCEPT !.spot = c.spot - 1]
          ELSE w

ReturnAt(t) ==
    /\ Return(t)
    /\ cursor' = [cursor EXCEPT ![t] = Rewritten(t)]
    /\ using' = [using EXCEPT ![t] = "no"]

-----------------------------------------------------------------------------
(* Operations on whole objects *)

\* Iterators do not outlive the tree they were made for: an object that is made,
\* cleared, assigned, moved from or destroyed has none.

ObjectCall(t) ==
    /\ MakeCall(t) \/ MakePersistent(t) \/ DecRef(t)
    /\ cursor' = [h \in Handle |-> IF root'[h] = root[h] THEN cursor[h] ELSE NoCursor]
    /\ UNCHANGED using

IInit ==
    /\ Init
    /\ cursor = [h \in Handle |-> NoCursor]
    /\ using = [t \in Transients |-> "no"]

INext ==
    \/ \E h \in Handle :
         \/ Obtain(h)
         \/ \E k \in Jumps : MoveBy(h, k)
         \/ Read(h)
    \/ \E t \in Transients :
         \/ \E name \in Operations :
              \/ \E reverse \in BOOLEAN : BeginAt(t, name, reverse)
              \/ BeginElsewhere(t, name)
         \/ WayDown(t) \/ WayUp(t) \/ ReturnAt(t)
         \/ ObjectCall(t)

ISpec == IInit /\ [][INext]_<<vars, cursorVars>>

-----------------------------------------------------------------------------
(* Properties *)

\* Beyond the end() of an empty tree: see SetLeafIndex.
PastEmptyEnd == [Rend EXCEPT ![1] = 0]

\* An iterator is at the element it should be at, after any moves in either
\* direction, and after insertions, erasures and assignments through it; its
\* word is the one other iterators to that place have.  The exception is an
\* iterator that was moved beyond the end() of an empty tree: it is not equal to
\* end() again.
WordNamesSpot ==
    \A h \in Handle : Held(h) /\ AtRest(h) =>
        LET c == cursor[h] IN
        IF c.spot = -1 THEN c.word = Rend
        ELSE \/ Canonical(root[h], c.word) /\ Position(root[h], c.word) = c.spot
             \/ size[h] = 0 /\ c.word = PastEmptyEnd

\* The leaf pointer that is used without a lookup is the leaf the word leads to,
\* and alive, whatever this and other threads did to the tree and its versions.
FreshLeafIsCurrent ==
    \A h \in Handle :
        Held(h) /\ AtRest(h) /\ cursor[h].fresh /\ cursor[h].word # Rend =>
            /\ refs[cursor[h].leaf] > 0
            /\ cursor[h].leaf = LeafAt(root[h], cursor[h].word)

\* As one iterator of a tree is before, at or behind another, so are the places
\* they name: here, its own and those of begin(), end() and rend().  Every level
\* counts, those above the root too, which a collapse must leave at zero.
ComparisonIsOrder ==
    \A h \in Handle : Held(h) /\ AtRest(h) /\ cursor[h].word # PastEmptyEnd =>
        \A c \in {Begins(root[h]), Ends(root[h], size[h]), ReverseEnds} :
            /\ WordLess(c.word, cursor[h].word) <=> c.spot < cursor[h].spot
            /\ WordLess(cursor[h].word, c.word) <=> cursor[h].spot < c.spot
            /\ c.word = cursor[h].word <=> c.spot = cursor[h].spot

\* Every index has the room it needs in a word, that of end() in a full leaf too:
\* get_index reads what set_index has put there, whatever the other levels hold.
IndexesApart ==
    \A h \in Handle : Held(h) /\ cursor[h].word # Rend =>
        LET w == cursor[h].word IN
        \A d \in Level :
            GetIndex(Packed(w), d) = IF w[d] = -1 THEN ItMask(d) ELSE w[d]

\* No iterator is less than itself: reverse iterators of an indexed tree declare
\* themselves random access iterators, whose operator< is a strict order.
ReverseLessIrreflexive ==
    \A h \in Handle : Held(h) /\ AtRest(h) =>
        ~ReverseLess(cursor[h].word, cursor[h].word)
=============================================================================
