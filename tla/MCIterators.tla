----------------------------- MODULE MCIterators -----------------------------
(***************************************************************************)
(* Iterators for TLC.  Of an iterator's leaf pointer the view has whether  *)
(* it is the leaf the word leads to, which is what its users rely on.      *)
(***************************************************************************)
EXTENDS MCCowTree, Iterators

OneBackOrOn == {-1, 1}
UpToThree   == {-3, -1, 1, 3}

CursorView ==
    << CanonicalView, using,
       [h \in Handle |->
          LET c == cursor[h] IN
          << c.word, c.fresh, c.spot,
             Held(h) /\ AtRest(h) /\ c.spot >= 0 /\ c.word # PastEmptyEnd
               => c.leaf = LeafAt(root[h], c.word) >>] >>
=============================================================================
