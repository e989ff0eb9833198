------------------------------ MODULE MCMixins ------------------------------
(***************************************************************************)
(* Mixins for TLC.  A value is a number; its key is its half, so that two  *)
(* values may have the same key.                                           *)
(***************************************************************************)
EXTENDS MCCowTree, Mixins

Half(v) == v \div 2
Same(v) == v

MetaOf(f(_)) ==
    LET order == NodeOrder
    IN  << [t \in Transients |-> <<f(delta[t]), f(rightInfo[t])>>],
           [k \in 1 .. Len(order) |->
              IF depth[order[k]] > 1
                THEN LET ms == meta[order[k]]
                     IN  [j \in 1 .. Len(ms) |-> f(ms[j])]
                ELSE <<>>] >>

MixinsView == << CanonicalView, MetaOf(LAMBDA m : m) >>

\* Counts and keys do not depend on sums and least values: runs that check only
\* those leave the others out of the view.
GuideView  == << CanonicalView, MetaOf(LAMBDA m : <<m.children, m.key>>) >>
=============================================================================
