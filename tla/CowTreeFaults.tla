--------------------------- MODULE CowTreeFaults ---------------------------
(***************************************************************************)
(* CowTree when an operation fails.                                        *)
(*                                                                         *)
(* Without disable_exceptions, which only Apple's clang sets by default,   *)
(* whatever the nodes call on the way may throw: a comparator, an updater, *)
(* the copy of a value or of a key, the allocation of a copied node.  The  *)
(* exception leaves all the continuations, and what the last one was       *)
(* called with goes out of scope.  A node that threw has not changed.      *)
(* make_ptr of a new node and emplace are noexcept: there the program ends *)
(* and nothing is left to check.                                           *)
(*                                                                         *)
(* What was done before stays done: tree_size has counted the element, and *)
(* the levels below may have changed in place.                             *)
(***************************************************************************)
EXTENDS TreeWords

CONSTANT MaxDrift   \* bound on how far size() may come apart from the elements

ASSUME DriftAssumption == MaxDrift \in Nat

Drift(t) == size[t] - Len(Contents(root[t]))
Bounded(t) == Drift(t)' \in -MaxDrift .. MaxDrift

\* The caller has the exception, and no iterator.
Unwinds(t) ==
    /\ iter' = [iter EXCEPT ![t] = ZeroIter]
    /\ at' = [at EXCEPT ![t] = Nil]
    /\ rightMost' = [rightMost EXCEPT ![t] = FALSE]
    /\ stack' = [stack EXCEPT ![t] = <<>>]
    /\ UNCHANGED <<nodes, root, dying, marking>>

Fails(t) == Complete(t, "idle") /\ op' = [op EXCEPT ![t] = "none"]

\* The leaf throws before it changes: before tree_size is counted, in the finder,
\* or after, in compute_delta or in the loops that copy to a new leaf.
LeafThrows(t) ==
    /\ AtLeaf(t, Operations)
    /\ items[at[t]] # <<>> \/ op[t] \in Inserting
    /\ \/ UNCHANGED size
       \/ op[t] \in Inserting /\ Grows(t)
       \/ op[t] \in {"erase", "pop_back"} /\ Shrinks(t)
    /\ Unwinds(t)
    /\ Fails(t)
    /\ UNCHANGED drop
    /\ Bounded(t)

\* Mutant: the right half of a split is dropped by nobody.
RightHalfForgotten(t) == Nil

\* The half that the parent has no pointer to yet goes with the exception.
RightHalf(t) == right[t]

\* An inner node throws before it changes: in compute_delta, or when it is copied.
\* The split or the new version of the child that it was called with is dropped.
InternalThrows(t) ==
    /\ \E phase \in {"replace", "split", "erase"} : AtNode(t, phase)
    /\ Unwinds(t)
    /\ IF pc[t] = "split"
         THEN /\ Drops(t, RightHalf(t))
              /\ right' = [right EXCEPT ![t] = Nil]
              /\ pc' = [pc EXCEPT ![t] = "discard"]
              /\ UNCHANGED <<op, ptr, newLeft, carry>>
         ELSE Drops(t, ptr[t]) /\ Fails(t)
    /\ UNCHANGED size
    /\ Bounded(t)

Throws(t) == LeafThrows(t) \/ InternalThrows(t)

FNext == Next \/ \E t \in Transients : Throws(t)

\* A call goes on until it returns or throws.
FSpec == Init /\ [][FNext]_vars /\ \A t \in Transients : WF_vars(Step(t))

=============================================================================
