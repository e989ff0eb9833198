# A TLA+ development of the B++ tree

The B++ tree (`include/bpptree`) is a header-only B+ tree whose nodes are shared
between versions.  A `Transient` is a tree that one thread modifies in place; a
`Persistent` is an immutable snapshot.  Converting one into the other copies no
elements: nodes are counted by the pointers to them, marked when they may be
shared, and copied when a marked one has to change.

This directory models that machinery in TLA+, checks it with TLC on small
instances, and proves with TLAPS what holds for instances of every size.

## The system

| Part | Source | State | Operations | Correct when |
|---|---|---|---|---|
| Node arrays | `leafnodebase.hpp`, `internalnodebase.hpp` | values or child pointers `0 .. length-1` | insert, replace, erase one item; split in two | order is kept, no node is empty or over its capacity |
| Nodes, `NodePtr` | `nodeptr.hpp`, `nodetypes.hpp` | `ref_count`, `persistent`, `length`, `depth` | `inc_ref`, `dec_ref`, `make_ptr`, destructors | the count is the number of pointers; a shared node never changes |
| Modification | `internalnodebase.hpp`, `leafnodebase.hpp`, `operations.hpp` | a continuation per level (`DoReplace`, `DoSplit`, `DoErase`), the iterator word | insert, assign, update, update2, erase | the tree is the old one with that change; the iterator names the right element |
| Root | `modify.hpp` | `root_variant`, `tree_size`, `mod_count` | replace, split, erase, collapse | no chain of single children; `size()` is the number of elements |
| Objects | `bpptree.hpp` | root and size | construct, `clear`, `persistent()`, `transient()`, copy, destroy, push/pop/emplace | each object is a sequence of its own |
| Iterators | `iterator.hpp` | the word, the cached leaf, `mod_count` | advance, compare, dereference | movement is that of a position in a sequence |
| Leaf slots | `uninitialized_array.hpp`, the loops of `leafnodebase.hpp` | which slots hold a live object | set, emplace, move, destruct | exactly the slots below `length` are alive |
| Mixins | `ordered.hpp`, `indexed.hpp`, `summed.hpp`, `min.hpp`, `max.hpp` and their details | keys, counts, sums, extremes of every child | deltas on the way up, queries | metadata equal what they summarise; queries equal a scan |

How they interact: an object dispatches on the depth of its root and calls the
operation on the root node.  A node asks a *finder* for the child to enter, and
passes that child a continuation that will write the child's new version into
this node.  Everything else happens on the way up: the leaf computes its new
version and calls its continuation, which computes the parent's new version and
calls the next, until the continuation of the root object is called, which
stores the new root.  There are no messages or locks; threads share nodes, and
only `ref_count` is atomic.

What is hard here:

* *Ownership.*  In-place changes never look at the count.  They trust the
  `persistent` mark, and marking stops at a node that is marked already
  (`internalnodebase.hpp:446`), so the soundness of every in-place write rests
  on an invariant about everything below a node.
* *Between two trees.*  On the way up, a pointer may be in a result and not yet
  in a node; a node that split in place is not in the result at all
  (`ptr_changed`), and its parent has to fetch it before the slot is written.
* *Release.*  `dec_ref` of the last pointer releases a whole subtree; another
  thread may hold a part of it.
* *The iterator.*  `insert(it)` and `erase(it)` write the word of the caller's
  iterator level by level, with a carry to the next subtree and an end case.
* *The depth limit.*  `DoSplit` on a tree with no level left does nothing in a
  build without `BPPTREE_SAFETY_CHECKS`.
* *Exceptions.*  Comparators, updaters, copies of values and allocations may
  throw at every level, with the levels below changed and those above not.
* *Raw memory.*  The slots of a leaf hold values up to its length; the loops
  that shift and copy them tell values from raw memory by an index alone.

Persistence to disk, messages, timeouts and retries do not exist in this program.

## Modules

| Module | What it models |
|---|---|
| `NodeOps` | one node's array: insertion, replacement, removal, the split points |
| `CowTree` | nodes in shared memory, threads, continuations, root, objects, release |
| `TreeContents` | what the trees of `CowTree` hold, at rest and with an operation on its way up, and the mapping to `AtomicSeq` |
| `SeqObjects` | *abstract*: every object is a sequence of its own, made, converted, copied and destroyed |
| `AtomicSeq` | *abstract*: `SeqObjects` with operations that take effect at one step |
| `VersionedSeq` | *abstract*: `SeqObjects` with operations at positions, and the iterators they return |
| `TreeWords` | what the word of an iterator means in a tree, its bits, and the walks along words (`seek_first`, `seek_end`, `advance`) |
| `CowTreeHistory` | `CowTree` with history variables and the mapping to `VersionedSeq` |
| `CowTreeFaults` | `CowTree` with exceptions at any node on the way down or up |
| `LeafSlots` | the slots of one leaf, through the loops of its operations and its destructor |
| `Iterators` | `CowTree` with an iterator into each object: its cached leaf, `mod_count`, movement, reading, comparison, the operations that take it |
| `Mixins` | `CowTree` with the arrays of the mixins and the deltas the continuations carry |
| `Versions` | `CowTreeHistory` and `Mixins` at once: the conjunction of their steps |
| `Queries` | what Indexed, Summed and Min compute from these arrays |
| `KeyedMap` | *abstract*: an Ordered tree is a set of elements with distinct keys |
| `OrderedTree` | `Mixins` led by keys: the operations and searches of the Ordered mixin |
| `MCCowTree`, `MCCowTreeFaults`, `MCCowTreeHistory`, `MCIterators`, `MCMixins`, `MCVersions`, `MCOrderedTree` | the views and constants TLC uses |
| `NodeOps_proofs`, `LeafSlots_proofs`, `CowTree_proofs`, `CowMemory_proofs`, `CowShape_proofs`, `TreeContents_proofs`, `Mixins_proofs`, `MixinsKeys_proofs` | theorems, each module on those before it that it extends |

`CowTree` is the base.  `TreeContents` and `TreeWords` give its states a meaning.
`CowTreeHistory`, `Iterators` and `Mixins` extend it,
each adding variables of its own and conjoining what happens to them to the
actions of `CowTree`, so that a property of `CowTree` holds of all.
`OrderedTree` extends `Queries`, which extends `Mixins` and `TreeWords`.
`CowTreeFaults` adds actions, not variables.  `LeafSlots` stands beside them: it
opens up the steps that `CowTree` takes with the operators of `NodeOps`, and
shows that the loops of the code compute those operators.

### CowTree and the code

A node is an index into the functions `items`, `depth`, `persistent` and `refs`;
a thread is the `Transient` it modifies.  One action is one call of a
continuation, or one step down:

| Action | Code |
|---|---|
| `Begin` | the members of `Transient` that dispatch a `Modify` |
| `Descend(t, i)` | `InternalNodeBase::insert`, `assign`, `erase`, `update`, `update2`; `i` is what the finder returned |
| `LeafInsert`, `LeafSplit`, `LeafAssign`, `LeafKeep`, `LeafErase`, `LeafEraseOnly` | the branches of `LeafNodeBase::insert_index`, `assign2`, `update2`, `erase` |
| `InternalReplace`, `InternalInsert`, `InternalSplit`, `InternalErase`, `InternalEraseOnly` | `insert_replace`, the two branches of `insert_split`, the two of `erase` |
| `SeekEnd` | `seek_end`, called by `erase` on the right edge |
| `RootReplace`, `Collapse`, `RootSplit`, `RootSplitTooDeep`, `DiscardLeft`, `RootErase`, `Return` | `ModifyTypes` and the return of `Modify` |
| `New`, `Clear`, `Persist`, `PersistMove`, `Mark`, `Publish`, `Thaw`, `ThawMove`, `Copy`, `Drop` | constructors, conversions, assignment and destruction of the objects |
| `DropReference`, `DeleteNode`, `DestroyChild` | `NodePtr::dec_ref` and `~InternalNodeBase` |

`stack` is the chain of continuations, each a node, an index and `right_most`.
`ptr`, `right`, `newLeft` and `carry` are the fields of `ReplaceType` and
`SplitType`; `ptr = Nil` stands for `ptr_changed = false`.  `iter` is the word
being built, one index per level.  A pointer that is overwritten goes to `drop`,
and the thread runs the release before it goes on; an inner node being
destroyed is on `dying` and gives up its children one at a time.  The code
drops the old pointer just before it stores the new one, the model just after:
nobody can see the slot between the two.

Whoever uses a tree picks the element; so the finder is any index
(`find_iterator`, and the key and position finders of the mixins), the first
(`find_first`, one of those) or the last.  `pop_back` is an operation of its own
because `find_last` returns `length` at the leaf.  The functional operations of
a `Persistent` (`assign`, `insert`, ...) are `Thaw`, the operation, and
`PersistMove`, as in the code.

Steps are sequentially consistent.  An access to a variable that holds a
Persistent is one step: the program that shares such a variable between threads
has to synchronise that, as with any C++ object.

`CowTreeFaults` adds what happens without `disable_exceptions`.  A leaf or an
inner node that is about to change may throw instead (`LeafThrows`,
`InternalThrows`).  The exception leaves all continuations, which have nothing
to undo; the result the last one was called with goes out of scope, and with it
the version of a child or the right half of a split.  `tree_size` may have
counted by then.  `make_ptr` of a new node and `emplace` are `noexcept`: the
program ends there.

### The abstract specifications

In `SeqObjects` every object holds a sequence; constructors, conversions, copies
and destructors make, copy and forget sequences, and `persistent()`, which marks a
tree node by node, has a beginning and an end.  Two modules add operations.

In `AtomicSeq` a thread calls an operation, and at some step before it returns the
sequence of its Transient becomes one of the `Outcomes` of the operation: with a
value more, one in the place of another, one less, the last one less; at which
position is left open.  `TreeContents` maps a tree to what it holds, and a
Transient whose operation is on its way up to its `Outlook`: what is left of the
path that its continuations are on, what is to take the place of the child (the new
version, both halves, or nothing), and what is right of the path.  The operation
takes effect at the leaf, and all that the continuations do is to make the tree hold
what it looked like holding all along.

In `VersionedSeq` a thread's operation has a
moment at which its position is fixed and one at which its sequence changes;
nothing else changes with it.  `insert` and `erase` return the position of the
new value and of the successor of the erased one, which is what
`docs/index.rst` says of the iterator they were called with.  `CowTreeHistory`
maps a Transient that is on its way up to the sequence it had before, adds up
the position on the way down, and maps the word of the returned iterator to a
position only if it is canonical: every index that of an item, zero above the
root, because `operator==` compares words.

### Iterators and the code

`cursor[h]` is the iterator into object `h`: its `word`, its `leaf`, and
`fresh`, which is whether its `mod_count` is that of the tree.  `spot` is no
variable of the program but the place the iterator should be at.

| Action | Code |
|---|---|
| `Obtain` | `begin`, `end`, `rbegin`, `rend` |
| `MoveBy` | `IteratorDetail::advance`, on the cached leaf or from the root |
| `Read` | `fix_iterator` and the dereference |
| `BeginAt`, `ReturnAt` | `insert`, `assign`, `update`, `erase` of an iterator, forward or reverse |
| `BeginElsewhere` | operations that take no iterator: they make the iterators stale |
| `ObjectCall` | conversions, copies, `clear` and destructions |

An operator of C++ that is a comparison is an operator here: `WordLess` is
`operator<`, with the wrap-around that makes `rend` the least, on the number
that `Packed` makes of a word.  A word has as many bits per level as
`bits_required` says; one bit stands for all those above the last level.  What a
`ProxyRef` does is `Read`, or `BeginAt` with `assign` or `update`.

### Mixins and the code

`meta[n]` is, for every child of an inner node, what the arrays
`child_counts`, `child_sums`, `mins` and `keys` hold of it.  `delta[t]` is the
`NodeInfo` that goes up with the result; `rightInfo[t]` that of a right half.
`InsertDelta`, `SetDelta` and `EraseDelta` are `compute_delta_*` of the leaves,
`ReplaceDelta`, `SplitDelta` and `EraseInnerDelta` of the inner nodes, and
`Added` is `set_element2` with the old and the new value.  They are evaluated
in the state before the node changes, as in the code, and conjoined to the
actions of `CowTree` (`MLeafInsert`, `MLeafAssign`, `MLeafErase`, `MAscend`,
`MAtObject`).  An erase at `index == length`, which is what `pop_back` is, reads
the slot behind the last value; what lies there is any word.  `SumOf`, `MinOf`
and `KeyOf` are the extractors of the mixins.

`Queries` has no actions: its operators are the recursions of the mixins over
a tree at rest (`SeekIndex` is `seek_index`, `AdvanceIndexed` the `advance` of
an Indexed inner node, `SeekSum` is `sum_lower_bound`, `MinRange` and
`SeekMinRange` are `min` and `min_element` of a range), and the properties
compare them with the elements, in order.

In `OrderedTree` an operation has an element and goes where `KeyIndex`, the
linear search of a node, leads; at the leaf, `IsKey` decides whether
`insert_v` and `insert_or_assign` insert or find the element there.
`KeyedMap` says what each call does to a set; the refinement mapping gives a
tree that is being modified the elements it had when the call began, until the
call returns.  `popped` remembers whether `pop_back` has been called: from then
on sums and least values may be wrong (see `min_doc`), and `SumsRight` and
`MinsRight` speak of trees before that.

### Leaf slots and the code

`slots` has the arrays of three leaves: the one a call is made on (`self`) and
the new ones it fills (`left`, `right`).  A slot is `Raw`, or has a value, or
what a move has left of one.  One action is one round of a loop (`Shift`,
`Prefix`, `Trim`, `Close`, `Clone`), the construction of the new value
(`Emplace`), or the assignment of the lengths (`Finish`).  Then the tree has one
of the leaves from there on (`Take`), and the others are forgotten: `right`
after a split is a leaf like any other.  `set` and `emplace` decide between
assignment and construction by index and length; `misuse` collects what the
state of a slot does not allow.  An argument may be a reference to an element of
the leaf itself, and may be one of several.  `Throw` is the copy of a value that
throws.

## Runs

| Run | Instance | Shows |
|---|---|---|
| `memory` | leaves of 1, inner nodes of 4, up to 5 elements (3 levels), insert, erase, snapshots, all metadata | types, exact counts, node shape, the continuations are a path; refinement of `VersionedSeq`, returned iterators included, by the copying branches; metadata of copies are right, those of shared nodes never change |
| `failures` | the same nodes, up to 4 elements in a tree of at most 2 levels, all calls, exceptions anywhere | no leak and no broken node after an exception or a dropped insertion; snapshots frozen; the call ends |
| `liveness` | leaves of 2, up to 7 elements (3 levels), insert, update, erase, `pop_back` | every call ends |
| `contents` | all operations and calls, 2 values, up to 2 elements, 2 Persistents | refinement of `VersionedSeq`, `size()` |
| `threads` | two threads that share snapshots, all calls, up to 2 elements each | ownership, marked below marked, and refinement of `VersionedSeq` and `AtomicSeq` under interleaving |
| `moves` | leaves of 2, up to 7 elements (3 levels), jumps by 1 and 3 both ways | an iterator names the place it should, its leaf is right when it is trusted, no index spills into another in its word, `<` is the order |
| `versions` | a Transient and a Persistent that share nodes, all conversions, up to 3 elements | the same, for iterators into versions |
| `reverse_less` | up to 2 elements | *violated*: `<` of reverse iterators is irreflexive |
| `map` | leaves of 2, up to 6 elements (3 levels), keys 1 to 6 of which one has two elements, sums of 3 bits that wrap, all operations by key, `pop_back` | refinement of `KeyedMap`, order, searches; stale keys stay where nobody looks; sums and least values are those of the children at every step; all queries by index, distance, sum, range |
| `min_doc` | up to 3 elements, `pop_back` | *violated*: `min()` is the least element |
| `slots` | one leaf of 4 places, 2 values, all operations, aliased arguments, throwing copies | every slot is constructed, moved and destroyed in turn; the loops compute `NodeOps`; a shared leaf is only read |
| `slot_leak` | one leaf of 4 places, insertion and `pop_back` | *violated*: no slot above the length holds a value |

Bounds.  `InternalSize = 4` is the least the code allows (`nodetypes.hpp:167`),
and `LeafSize = 1` and `2` are the least and the first with a split in the
middle; with leaves of 1 five elements split an inner node, with leaves of 2
seven split leaves on both edges and in the middle and an inner node, and
erasing them again collapses two roots.  The branches of an inner node differ
by the first, a middle and the last child, by room and no room, and by whether
the node is persistent, on the right edge, and the only child: four children on
three levels have all of these.  `MaxSize` bounds a tree, `MaxNodes` the memory; `MaxDrift` how far exceptions
take `size()` from the number of elements, one either way.  A leaf of 4 places
has values before, at and behind a split point and an index that are not the
same.
A thread that found no free node would be stuck, and every run checks for
deadlock, so `MaxNodes` is never the limit.  `MaxDepth` is three or four where
the limit is not the question, more than the elements can fill.  `Jumps` are the
distances an iterator is moved by: one, more than a leaf, more than the tree.
The operations and calls a run enables are in its cfg; between them the runs
enable all.

Views.  Two states that differ in node numbers only are the same tree, so the
runs compare states by a canonical numbering (`CanonicalView`); every
action treats node numbers alike, so a state and its renumbering have the same
successors up to renumbering, and no property mentions a number.  The views of
the other modules add their own variables; of a cached leaf, whether it is the
leaf its word leads to; of the metadata, in `map` once `pop_back` was called, the
counts and keys, on which sums and least values have no influence.  `liveness`
and `failures` use the view with a temporal property: neither `CallsEnd` nor the
fairness tells a state from its renumbering.

Fairness.  `CallsEnd` assumes weak fairness of the steps of a call that has
begun, for each thread: it keeps running, which is what the scheduler of any
operating system provides.  No call waits for another thread, so nothing more
is needed.  Beginning a call is never fair.

## Proofs

`LeafSlots_proofs` proves `SharedLeafUntouched`: `Spec => PersistentUntouched`.
The invariant it needs is no more than that slots and lengths are functions on
their index sets, so that a slot that is assigned what it has does not change;
the rest is one lemma per loop.  It goes on to prove, from `NodeSizeAssumption`
and `SlotsAssumption` (raw memory is no value), `SlotsAreRespected` and
`LengthsDivide`.  `misuse` stays
empty only if one knows at every step of a loop which slots have values.  The
invariant says it with the *home* of each value of the new contents, the array
and the slot where it ends up: `Placed` is the set of values a loop has put home
so far, a function of the phase and the loop variable, and `Filled` says that
the slots with values are those the leaf had and the homes of `Placed`.  That
homes do not collide (`HomesApart`) and the next one is free (`HomeFree`) is what
makes every construction a construction in raw memory.  The parts `Trimming`,
`Divided`, `Ending` and `Destroying` say the same of the loops that destroy.

It then goes on with what the slots hold and proves `LoopsMatch` and
`ArgumentsIntact`.  Values of the old contents are `Todo` while they are still
where the call found them, and values of the new contents are `Settled` once
they are in their homes for good; a loop may only write to slots on neither
list.  At the end all are settled, and the lemmas of `NodeOps_proofs` on
`InsertItem`, `ReplaceItem`, `EraseItem` and the parts of a split turn this into
equality with `NodeOps`.  Both invariants were checked by TLC on the instance of
`slots` before.

`CowTree_proofs` proves for all values of the constants, from
`NodeSizeAssumption` (the `static_assert`s of `nodetypes.hpp`) and
`TreeAssumption` (the kinds of the constants; threads and objects are finitely
many, as those of any run of a program are, so that the owners of a node can be counted):

* `TypeCorrect`: `Spec => []TypeOK`.  `TypeOK` says that leaves hold values and
  inner nodes pointers, and, in `PhaseOK`, that whatever a phase of a call
  dereferences is there and that `tree_size` is not decremented below zero.
  It is inductive as it stands: `PhaseOK` is the strengthening, without which a
  root or a right half might be null where the next step follows it.  The proof
  has a lemma for each action, on lemmas for the common parts (`LeafWritten`,
  `InnerWritten`, `Climbs`, `Completed`), which rest on the facts about
  sequences in `NodeOps_proofs`.
* `VersionsFrozen`: `Spec => PersistentFrozen`.  Every write goes to a node that
  is free (`Allocates`), not persistent (`Rewrites`), being destroyed, or gone
  after the step; `WritesSpare` turns that into the property.

`CowMemory_proofs` proves, from the same assumptions and `TypeCorrect`, four
properties that the runs check:

* `CountsAreOwners`: `Spec => []RefExact`.  Every count is the number of
  pointers, in nodes, objects and running calls, and no node that is reached has
  been freed.
* `InPlaceIsAlone`: `Spec => []MutableIsExclusive`.  What may be changed in place
  has one owner, although no write looks at the count.
* `MarksGoDown`: `Spec => []PersistentBelow`.  Marking may stop at a marked node.
* `ContinuationsArePath`: `Spec => []StackIsPath`.

None of them is inductive, and none can be proved without the others: a step in
place keeps the path of another thread because that thread cannot reach the
node, which is what exclusive ownership says; ownership of a subtree rests on
the counts below it and on the marks; and a count is right after a step only if
the place that is overwritten held what the frames say.  That a thread *alone*
reaches a node is a statement about all paths from all roots, which would have
to be proved by induction along them.  The invariant replaces it by a map `owner`
from nodes to threads, which is no variable of the model but quantified in it
(`MemoryInv == \E owner \in Owner : MemInv(owner)`): a node belongs to the one
thread that may write to it, or to no one, and the map is local, for a child
that belongs to a thread has a parent that does (`Owned`).  Each action is shown
to keep `MemInv` for some next map: a new node gets the thread that made it as
its owner; publishing a Persistent takes away all that the thread has, which is
marked then (`Marked` says what is still to be marked); a moved one changes
nothing.  `MemInv` has besides

* `RefExact`, `Siblings` (no node is a child twice), `Levels` (children are of
  the level below) and `FreeClean` (a free node is as it was made);
* `Exclusive`, which `MutableIsExclusive` weakens: a node with two owners that may
  be changed in place is the root of a thread about to mark it, or one that its
  old parent is being released from (`SharedRoot`);
* for each thread `Results` (what a phase of a call holds, how high it is, that
  only this thread has it) and `Path` (`StackIsPath`, at all times).

TLC checked `MemInv` with the owners computed from the reachable nodes before it
was proved.  Counts are compared before and after a step by `OwnersChange`: the
sets of owners differ at most at the places of one thread, one object and two
nodes, so that the difference is a sum of zeros and ones.  Steps that only read
and write what a thread owns are shown to be harmless to all others at once
(`Works`, `WorkKept`); what is left of each action is its own result and path.
The destructor, with its mixture of freed, dying and dropped nodes
(`GivesKept`), `make_persistent` (`MarkKept`, `PublishKept`) and the moves of
pointers between objects (`MovesKept`, `ObjectKept`) have lemmas of their own.

`CowShape_proofs` goes on with how many items the nodes hold and proves
`NodesAreShaped`: `Spec => []NodeShape`.  The invariant `ShapeInv`, which stands
on `MemoryInv`, has `NodeShape`'s clauses on the nodes (`Shaped`), its clause on
roots for the Persistents, and, for the thread of each Transient (`Firm`), what
`NodeShape` leaves out and the next step needs: no half that a call hands up is
empty, nor a root that was split in place; what `persistent()` is about to
publish is no chain of single children; and the root of a Transient is one at
most between the return of the last continuation and `collapse`, or while
`DoReplace` puts it in place.  This last clause is why erasures, which remove a
node only when it is empty, do not leave a tall tree with one element.  A root
split in place is the left half until the new root is made, and no chain
either: `InternalSize >= 4` gives a left half two children or more
(`LeftPartLong`).  `ShapeStep` reduces each action to the nodes it writes
(`Alters`) and what its own call holds; other calls do not notice, for what they
hold is their own (`MemInv`).

It ends with `NoTreeTooDeep`: `Spec => []Shallow`, every node is of one of the
`MaxDepth` levels that the word of an iterator has bits for.  A new node is of
level 1, of the level of the frame it replaces or splits, or one above a root
that `RootSplit` found lower than `MaxDepth`.  It is also what an induction over
the levels of the tree rests on.

`TreeContents_proofs` proves, for histories in which no tree has been at its depth
limit (`NeverTooDeep`),

* `OperationsAreAtomic`: `Spec /\ []NeverTooDeep => ImplementsAtomicSeq`.  The tree
  implements `AtomicSeq`: an operation changes what its object holds at one step,
  by what it is for, and no other step of any thread changes what any object holds.
* `SizeCounts`: `Spec /\ []NeverTooDeep => []SizeIsCount`.

The hypothesis is one that the code needs.  Where a root of `MaxDepth` splits, a
build without `BPPTREE_SAFETY_CHECKS` drops the right half, although `tree_size`
has counted its elements (`RootSplitTooDeep`, from which `pc` is `"discard"`): there
both properties are false.  Every state of a tree that stays below its limit
satisfies it, `failures` is the run that goes beyond, and nothing of the memory or
the shape theorems assumes it.

The argument rests on three invariants, `MemoryInv`, `Shallow` (`NoTreeTooDeep`) and
`PopsBack`, by which a `pop_back` on its way down has the last element before it.
What nodes hold is a function of their level, so `Shallow` makes `ContentsIn` a
solution of its equation on all nodes (`NowTree`), and an induction over the levels
(`ContentsSame`) shows that nodes hold what they held if no node among them is
written or points to one that is.  For each step

* the nodes whose contents change are free ones and those on the path of the thread
  that takes it (`OwnLine`); by `MemInv` no other object reaches them, so that all
  other objects are as they were (`BesideSettled`);
* for a continuation, what the object looks like holding does not change
  (`InternalReplaceHolds`, `InternalInsertHolds`, `InternalSplitHolds`,
  `InternalEraseHolds`): its node holds what is left of the child, the child, and
  what is right of it (`Cut`, `Sandwiched`), so that the middle of the next frame is
  the middle of this one with its sides, and concatenation is associative (`OneUp`).
  The two parts of a node that splits join to what the whole would have been, which
  is what `NodeOps_proofs` says of `LeftPart` and `RightPart`;
* at the leaf, the object goes from `(l \o x) \o r` to `(l \o y) \o r`, where `x` to `y`
  is an insertion, replacement or removal in the array of the leaf (`EditsLeaf`,
  `EditsTree`), and that is one of the `Outcomes`;
* a new root, a collapse and the moves between objects make an object hold what was
  held by another, or by what it had been looking like.

`NextMaps` puts this together: each step is a step of `AtomicSeq` or a stutter, and
the sizes change with it (`SizeInv`, which says of the objects between two trees, and
of a Persistent being constructed, what `SizeIsCount` says of those at rest).

`NodeOps_proofs` proves `LeafSplitFits` and `InternalSplitFits`: a full node
that is split gives two nodes that are neither empty nor over capacity and that
hold the old items and the new one in order.

`Mixins_proofs` proves three facts of the tree with mixins, from the same
assumptions and `MixinsAssumption`:

* `MixinsImplementTree`: `MSpec => Spec`.  A step of `MNext` is a step of `Next`,
  so that all that is proved of `CowTree` holds of `Mixins`.
* `AnswersFrozen`: `MSpec => MetaFrozen`.  The arrays are only written where
  `Rewrites` or `Allocates` gave a node.
* `CountsAreExact`: `MSpec => []CountsExact`.  The counts of the nodes that an
  operation has gone through are wrong until its continuations have been called,
  and what these are told is a difference to a count that may itself be wrong.
  The invariant `CountInv` therefore speaks of one level at a time: a slot has
  the count of the child's own array (`Known`), or it is the slot of the innermost
  frame of a thread about to call it, in a node not marked (`Due`); and what that
  thread is told makes up for exactly what the slot does not know (`Truthful`).
  Slots further up on the path are right by this measure, for the arrays below
  them are not yet changed, although they are not in `Described`.  `CountStep`
  reduces a step to the nodes it writes (`Changes`): those belong to the thread or
  to no one, so no other thread's frames or results are concerned (`OthersSpared`,
  from `MemInv`); every slot that is due or points to a written node is right or
  due afterwards (`Settles`); the arrays it writes are right (`Fills`).
  `CountClimb` does this for a level that returns: the slot above it, which is the
  only pointer to what was written (`SoleParent`), is the next one due.

A count is a sum over the slots, a fold over a finite set in the code's order or
any other.  `SumsExist` proves, by induction over the subsets of a finite set
(well-foundedness of the subset order), that a function with the equations of a
sum exists, `TotalSums` that the fold is its value, and `TotalReplace`,
`TotalErase` and `TotalSplit` what the three changes of an array do to it.  TLC
checked `CountInv` on a smaller instance of `memory` before it was proved.

`MixinsKeys_proofs` proves `KeysAreGuides`: `MSpec => []KeysGuide`.  Every slot a
search looks at has the last key below its child.  Counts could be described one
level at a time, for a node's count is the sum of its own array.  A last key is
found by going down, so that a change in a leaf changes at once what every node
above it ought to know, and keys are not told as differences.  The invariant
`KeyInv` says

* `Guides`: every slot but the last has the last key below its child (`Guided`),
  or it is in a node not marked and on the path of a call that is on its way up
  and will come back to it (`OnWay`);
* `KeyTold`: the key that a call carries in `delta`, and that of the right half in
  `rightInfo`, is the last key below what it hands up, unless it is `pop_back`;
* `Edge`: a `pop_back`, which hands up the key it erased, has gone through the last
  slot of every node only, and the last slot is the one nobody looks at.  That this
  slot stays the last one until it is told is where a stale key could come to
  matter; the code never says so.

To know which last keys a step changes, `KeysKept` shows by induction over the
levels (`UpTo`, with `NoTreeTooDeep`) that those of a set of nodes that no
pointer leaves stay, and `LineKeys` that the nodes whose last key a call changes
are free ones and those on its own path (`OwnLine`), whose slots are `OnWay`
(`LineSlot`); other threads' paths, results and persistent nodes are not among
them, by `MemInv`.  `KeyClimb` is the step of one level up, from what `Keyed`
says of the arrays before and after a replacement, a split and an erasure
(`KeyedReplace`, `KeyedSplit`, `KeyedErase`, `KeyedParts`); `LooseStep` does the
steps that only release, make or move.  TLC checked `KeyInv` for two threads that
share snapshots before it was proved.  For the proof `LastKeyIn` goes down by a
recursive function from levels to functions of the nodes.

All properties of the slots are proved, and the invariants of the memory, the shape,
the contents, the counts and the keys of the tree.  Left to TLC:

* The iterators, the range and index queries, the searches (with `SumsRight` and
  `MinsRight`) and the refinements of `KeyedMap` and
  `VersionedSeq`, which say at which position an operation acts and where its
  iterator is afterwards: they rest on `RECURSIVE` operators (`Position`, `LeafAt`,
  `Advance`, ...), which the prover does not handle.
* What the sums and least values are after `pop_back`: they are not exact then (see
  below), so that there is nothing to prove about them for every history.
* Termination: liveness under fairness is out of the prover's reach.

## Disagreements found

* `reverse_less`: `operator<` of reverse iterators is
  `reverse ^ (iter + 1 < rhs.iter + 1)` (`iterator.hpp:267`), the negation of the
  forward order: `>=` where `>` is meant.  An iterator is less than itself, and
  two equal ones are less than each other.  `iterator.hpp:306-309` announces
  these iterators of an Indexed tree as random access iterators.
* `min_doc`: `pop_back` erases with `find_last`, which gives a leaf the index
  `length`, and `compute_delta_erase2` of Min leaves out no value then
  (`minmax.hpp:92`).  The inner nodes keep the least value of a leaf after it was
  popped, and `min()` returns a value that is not in the tree.

* `slot_leak`: `pop_back` on a persistent leaf (`leafnodebase.hpp:208`) copies all
  values into the new leaf, for the index it is called with is `length`, and then
  sets the length to one less.  The last copy is above the length, where no
  destructor comes: what it owns leaks.  The comment of `UninitializedArray`
  (`uninitialized_array.hpp:18-19`) expects no initialized element there.

Of the same nature, seen in the models but without a run of their own:

* Summed at the same place subtracts the slot behind the last value from every
  sum above (`summed_detail.hpp:85`); Ordered keeps the popped key, which `map`
  shows to be harmless.
* `max_size()` is `leaf_node_size * internal_node_size^(max_depth-1)`
  (`nodetypes.hpp:192`), but splits leave nodes half full, so a tree reaches the
  depth limit before.  `DoSplit` then throws in a build with
  `BPPTREE_SAFETY_CHECKS`; in any other build the right half is dropped although
  `tree_size` counts it.  `failures` runs into it and shows that nothing leaks.
* An exception may leave `size()` one more or less than there are elements:
  `tree_size` is counted before anything that throws (`leafnodebase.hpp:151`).
  If a child has split in place, its right half goes with the exception.  Copies
  that a leaf was being filled with are destroyed by nobody, because its length
  is set last.
* Moved beyond `end()` of an empty tree an iterator gets a word that no other
  iterator has (`PastEmptyEnd`): it is not equal to `end()` again.
* The comment at `ordered.hpp:152` says of `upper_bound` "the first element with
  a key >= 'key'"; it returns the first with a greater one, as its name says.

## Not modelled, and why

* Transients copied by their implicit copy constructor, or assigned: nothing in
  the documentation offers it, and a copied Transient shares nodes that both
  change in place.  An iterator kept over such an assignment may find an equal
  `mod_count`.
* `swap` of two proxy references, and the operators of `proxy_operators.hpp`,
  which compute a value for `update`.
* Signed and floating-point sums; binary search, which is `std::lower_bound` over
  the slots that the linear search looks at; the forms of the range queries that
  take reverse iterators.
* The search for the node sizes (`nodetypes.hpp:108-168`) and the composition of
  mixins, which happen at compile time.
* Memory orders: counts are atomic steps of one total order.
* `disable_exceptions` itself, where an exception ends the program.

