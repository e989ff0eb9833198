--------------------------- MODULE CowTreeHistory ---------------------------
(***************************************************************************)
(* CowTree with history variables, and the proof obligation that it        *)
(* implements VersionedSeq.                                                *)
(*                                                                         *)
(* While an operation is on its way up, the nodes of its Transient are     *)
(* between two trees: a split leaf's right half, for one, is in no node    *)
(* yet.  The Transient still stands for the sequence it had (before), and  *)
(* takes its new value when the result reaches the tree object.  The       *)
(* position the operation acts on adds up along the way down (offset) and  *)
(* is fixed at the leaf (work).                                            *)
(***************************************************************************)
EXTENDS TreeWords

VARIABLES before,  \* the sequence a Transient had when the operation began
          offset,  \* the number of elements left of the node it is at
          work     \* the operation with its position, from the leaf step on

history == <<before, offset, work>>

NoWork == [op |-> "none"]
Located(phase) == phase \in {"replace", "split", "erase"}

HInit ==
    /\ Init
    /\ before = [t \in Transients |-> <<>>]
    /\ offset = [t \in Transients |-> 0]
    /\ work = [t \in Transients |-> NoWork]

HBegin(t, name) ==
    /\ Begin(t, name)
    /\ before' = [before EXCEPT ![t] = Contents(root[t])]
    /\ UNCHANGED <<offset, work>>

HDescend(t, i) ==
    /\ Descend(t, i)
    /\ offset' = [offset EXCEPT ![t] = @ + CountLeft(at[t], i)]
    /\ UNCHANGED <<before, work>>

\* pop_back names the last value by the index after it.
HLeafStep(t, i, v) ==
    /\ LeafStep(t, i, v)
    /\ work' = [work EXCEPT ![t] =
                 [op |-> op[t], val |-> v,
                  pos |-> offset[t] + IF op[t] = "pop_back" THEN i - 1 ELSE i]]
    /\ offset' = [offset EXCEPT ![t] = 0]
    /\ UNCHANGED before

\* Once the tree object has the result, the history of the operation is over.
HAscend(t) ==
    /\ Ascend(t)
    /\ IF Located(pc'[t])
         THEN UNCHANGED history
         ELSE /\ before' = [before EXCEPT ![t] = <<>>]
              /\ work' = [work EXCEPT ![t] = NoWork]
              /\ offset' = [offset EXCEPT ![t] = 0]

HOther(t) ==
    /\ \/ MakeCall(t)
       \/ MakePersistent(t)
       \/ DecRef(t)
    /\ UNCHANGED history

HNext ==
    \E t \in Transients :
        \/ \E name \in Operations : HBegin(t, name)
        \/ \E i \in 0 .. InternalSize - 1 : HDescend(t, i)
        \/ \E i \in 0 .. LeafSize, v \in Values : HLeafStep(t, i, v)
        \/ HAscend(t)
        \/ HOther(t)

HSpec == HInit /\ [][HNext]_<<vars, history>>

-----------------------------------------------------------------------------
(* The refinement mapping *)

InOperation(t) == pc[t] = "descend" \/ Located(pc[t])

ContentsOf(h) ==
    IF h \in Transients /\ InOperation(h) THEN before[h]
    ELSE IF root[h] = Nil THEN <<>>
    ELSE Contents(root[h])

\* The position of a returned iterator; -2 for a word that names no place.
PlaceOf(t) ==
    IF pc[t] \in {"collapse", "done"} /\ op[t] \in {"insert", "erase"}
      THEN IF pc[t] = "done" => Canonical(root[t], iter[t])
             THEN Position(root[t], iter[t]) ELSE -2
      ELSE -1

VS == INSTANCE VersionedSeq WITH
        contents <- [h \in Handle |->
                      [live |-> root[h] # Nil, seq |-> ContentsOf(h)]],
        asked    <- work,
        place    <- [t \in Transients |-> PlaceOf(t)],
        making   <- [t \in Transients |->
                      [live |-> pc[t] = "persist",
                       seq |-> IF pc[t] = "persist" THEN Contents(ptr[t])
                               ELSE <<>>]]

-----------------------------------------------------------------------------
(* Properties *)

\* Whatever the threads do to their Transients and to the nodes they share,
\* every operation does to its own sequence what its name says, at the element
\* it was called with, its iterator then stands at the right element, and no
\* other tree object sees anything of it.
ImplementsVersionedSeq == VS!Spec
=============================================================================
