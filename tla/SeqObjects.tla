----------------------------- MODULE SeqObjects -----------------------------
(***************************************************************************)
(* The tree objects, without nodes: every one is a sequence of values of   *)
(* its own, and making, converting, copying and destroying objects makes,  *)
(* copies and forgets sequences.  What operations do to the sequence of a  *)
(* Transient is for the modules that extend this one to say.               *)
(***************************************************************************)
EXTENDS Integers, Sequences

CONSTANTS Transients, Persistents, Values

Handle  == Transients \cup Persistents
Tree(s) == [live |-> TRUE, seq |-> s]
NoTree  == [live |-> FALSE, seq |-> <<>>]   \* there is no such object

VARIABLES contents,  \* each object, with the sequence it holds
          making     \* the Persistent a thread is constructing

objects == <<contents, making>>

NoObjects ==
    /\ contents = [h \in Handle |-> NoTree]
    /\ making = [t \in Transients |-> NoTree]

\* A new object, or an old one emptied.
Empty(t) ==
    /\ contents' = [contents EXCEPT ![t] = Tree(<<>>)]
    /\ UNCHANGED making

StartPersistent(t) ==
    /\ contents[t] # NoTree
    /\ making' = [making EXCEPT ![t] = contents[t]]
    /\ \/ UNCHANGED contents
       \/ contents' = [contents EXCEPT ![t] = NoTree]

FinishPersistent(t) ==
    /\ making[t] # NoTree
    /\ \E p \in Persistents : contents' = [contents EXCEPT ![p] = making[t]]
    /\ making' = [making EXCEPT ![t] = NoTree]

ToTransient(t) ==
    /\ contents[t] = NoTree
    /\ \E p \in Persistents :
         /\ contents[p] # NoTree
         /\ \/ contents' = [contents EXCEPT ![t] = contents[p]]
            \/ contents' = [contents EXCEPT ![t] = contents[p], ![p] = NoTree]
    /\ UNCHANGED making

CopyPersistent ==
    /\ \E p, q \in Persistents :
         /\ contents[p] # NoTree
         /\ contents' = [contents EXCEPT ![q] = contents[p]]
    /\ UNCHANGED making

Destroy(h) ==
    /\ contents' = [contents EXCEPT ![h] = NoTree]
    /\ UNCHANGED making

\* What a thread does to objects while it performs no operation.
Call(t) ==
    /\ making[t] = NoTree
    /\ \/ Empty(t) \/ StartPersistent(t) \/ ToTransient(t)
       \/ Destroy(t)
=============================================================================
