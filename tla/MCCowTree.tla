----------------------------- MODULE MCCowTree -----------------------------
(***************************************************************************)
(* CowTree for TLC.  Two states that differ only in which memory cells the *)
(* nodes occupy are the same tree, and every action treats node ids alike, *)
(* so the runs compare states by a canonical numbering of their nodes: the *)
(* order in which a walk from the roots meets them.                        *)
(***************************************************************************)
EXTENDS CowTree, SequencesExt

HandleSeq == SetToSeq(Handle)
ThreadSeq == SetToSeq(Transients)

RECURSIVE Visit(_, _)
Visit(seen, todo) ==
    IF todo = <<>> THEN seen
    ELSE LET n == Head(todo) IN
         IF n = Nil \/ \E k \in 1 .. Len(seen) : seen[k] = n
           THEN Visit(seen, Tail(todo))
           ELSE Visit(Append(seen, n),
                      (IF depth[n] > 1 THEN items[n] ELSE <<>>) \o Tail(todo))

\* Every pointer of the state that does not lie in a node, in a fixed order.
Pointers ==
    [k \in 1 .. Len(HandleSeq) |-> root[HandleSeq[k]]]
    \o FlattenSeq([k \in 1 .. Len(ThreadSeq) |->
           LET t == ThreadSeq[k] IN
           <<ptr[t], right[t], at[t], drop[t]>> \o dying[t] \o marking[t]
             \o [j \in 1 .. Len(stack[t]) |-> stack[t][j].node]])

NodeOrder == Visit(<<>>, Pointers)

\* The state up to the choice of node ids.
CanonicalView ==
    LET order == NodeOrder
        num == [n \in NodeId \cup {Nil} |->
                  IF \E k \in 1 .. Len(order) : order[k] = n
                    THEN CHOOSE k \in 1 .. Len(order) : order[k] = n ELSE 0]
        renumber(s) == [k \in 1 .. Len(s) |-> num[s[k]]]
    IN  << [k \in 1 .. Len(order) |->
              LET n == order[k] IN
              <<depth[n], persistent[n], refs[n],
                IF depth[n] > 1 THEN renumber(items[n]) ELSE items[n]>>],
           renumber(Pointers), size, pc, op, rightMost,
           [t \in Transients |->
              [k \in 1 .. Len(stack[t]) |->
                 <<stack[t][k].index, stack[t][k].rightMost>>]],
           [t \in Transients |-> <<Len(dying[t]), Len(marking[t])>>],
           newLeft, carry, iter >>
=============================================================================
