--------------------------- MODULE MCOrderedTree ---------------------------
(***************************************************************************)
(* OrderedTree for TLC: values 2k and 2k + 1 have the key k, and updating  *)
(* one gives the other, if both are there.  What is summed up and whose    *)
(* least is asked for does not follow the order of the keys.               *)
(***************************************************************************)
EXTENDS MCMixins, OrderedTree

Scrambled(v) == (v * v) % 7
Twins(v) == {w \in Values : w # v /\ Half(w) = Half(v)}
Other(v) == IF Twins(v) = {} THEN v ELSE CHOOSE w \in Twins(v) : TRUE

BackAndOn == {-7, -3, -2, -1, 0, 1, 2, 3, 4, 7}

\* Sums and least values matter only until they are spoiled.
OrderedView == << IF popped THEN GuideView ELSE MixinsView, ordered >>
=============================================================================
