-------------------------- MODULE CowMemory_proofs --------------------------
(***************************************************************************)
(* Who points to a node, and who may change it: the reference counts of    *)
(* nodeptr.hpp, the marks of make_persistent and the frames of a call.     *)
(*                                                                         *)
(* None of the four theorems at the end is inductive.  A step in place     *)
(* keeps them because the node is reachable by one thread only, which is   *)
(* said here with a map from nodes to threads: a node belongs to the       *)
(* thread that may write to it, and to no one when it may be shared.       *)
(* MemInv(owner) is the invariant for one such map; a step may need        *)
(* another one (new nodes get an owner, published ones lose theirs), and   *)
(* MemoryInv says that there is one.                                       *)
(*                                                                         *)
(* Most steps of a thread t are shown to keep it in two parts: what they   *)
(* write (Writes, Forms, Reaches, Takes; Works is all of them) keeps what  *)
(* every other thread knows, and t's own Results and Path are those of the *)
(* next place in the code.  The steps that mark nodes, and those that      *)
(* give pointers up and run destructors, come last.                        *)
(***************************************************************************)
EXTENDS CowTree_proofs, FiniteSetTheorems

-----------------------------------------------------------------------------
(* Counting *)

One(b) == IF b THEN 1 ELSE 0

\* Two finite sets that agree but on x.
LEMMA AgreeBut ==
    ASSUME NEW A, NEW B, NEW x, IsFiniteSet(A), A \ {x} = B \ {x}
    PROVE  /\ IsFiniteSet(B)
           /\ Cardinality(A) \in Nat /\ Cardinality(B) \in Nat
           /\ Cardinality(B) + One(x \in A) = Cardinality(A) + One(x \in B)
<1> DEFINE C == A \ {x}
<1>1. /\ IsFiniteSet(C) /\ Cardinality(A) \in Nat /\ Cardinality(C) \in Nat
      /\ Cardinality(A) = Cardinality(C) + One(x \in A)
  <2>1. IsFiniteSet(C) /\ Cardinality(C) = IF x \in A THEN Cardinality(A) - 1 ELSE Cardinality(A)
    BY FS_RemoveElement
  <2>2. Cardinality(A) \in Nat /\ Cardinality(C) \in Nat
    BY <2>1, FS_CardinalityType
  <2> HIDE DEF C
  <2> QED  BY <2>1, <2>2 DEF One
<1>2. CASE x \in B
  <2>1. B = C \cup {x}
    BY <1>2
  <2>2. x \notin C
    OBVIOUS
  <2> HIDE DEF C
  <2>3. IsFiniteSet(B) /\ Cardinality(B) = Cardinality(C) + 1
    BY <1>1, <2>1, <2>2, FS_AddElement
  <2> QED  BY <1>1, <1>2, <2>3 DEF One
<1>3. CASE x \notin B
  <2>1. B = C
    BY <1>3
  <2> HIDE DEF C
  <2> QED  BY <1>1, <1>3, <2>1 DEF One
<1> QED
  BY <1>2, <1>3

-----------------------------------------------------------------------------
(* The owners of a node *)

Distinct(s) == \A j, k \in 1 .. Len(s) : s[j] = s[k] => j = k

\* No node is a child twice.
Siblings == \A n \in Inner : Distinct(items[n])

\* The nodes that have a pointer to n.
Parents(n) == {m \in NodeId : n \in Children(m)}

\* Nodes, objects and threads are finitely many.
LEMMA NodesFinite == IsFiniteSet(NodeId) /\ IsFiniteSet(Handle) /\ IsFiniteSet(Transients)
<1>1. IsFiniteSet(NodeId)
  BY FS_Interval, TreeAssumption DEF NodeId
<1>2. IsFiniteSet(Handle) /\ IsFiniteSet(Transients)
  BY FS_Union, TreeAssumption DEF Handle
<1> QED
  BY <1>1, <1>2

\* Counting the slots that hold n is counting the nodes above it.
LEMMA SlotsAreParents ==
    NodesOK /\ Siblings =>
        \A n \in NodeId :
            Cardinality({slot \in PointerSlots : items[slot[1]][slot[2]] = n})
              = Cardinality(Parents(n))
<1> SUFFICES ASSUME NodesOK, Siblings, NEW n \in NodeId
             PROVE  Cardinality({slot \in PointerSlots : items[slot[1]][slot[2]] = n})
                      = Cardinality(Parents(n))
  OBVIOUS
<1> DEFINE P == Parents(n)
           Q == {slot \in PointerSlots : items[slot[1]][slot[2]] = n}
           K(m) == CHOOSE k \in DOMAIN items[m] : items[m][k] = n
           f == [m \in P |-> <<m, K(m)>>]
<1>1. ASSUME NEW m \in Inner
      PROVE  /\ m \in NodeId
             /\ DOMAIN items[m] = 1 .. Len(items[m])
             /\ n \in Children(m) <=> \E k \in DOMAIN items[m] : items[m][k] = n
             /\ \A j, k \in DOMAIN items[m] :
                  items[m][j] = n /\ items[m][k] = n => j = k
  <2>1. m \in NodeId /\ depth[m] \in Nat /\ depth[m] > 1
    BY DEF Inner, NodesOK
  <2>2. items[m] \in Seq(NodeId)
    BY <2>1 DEF NodesOK
  <2>3. DOMAIN items[m] = 1 .. Len(items[m])
    BY <2>2, LenProperties
  <2>4. Distinct(items[m])
    BY DEF Siblings
  <2> QED  BY <2>1, <2>3, <2>4 DEF Children, Distinct
<1>2. P \subseteq Inner
  BY DEF Parents, Children, Inner, NodesOK
<1>3. ASSUME NEW m \in P
      PROVE  K(m) \in DOMAIN items[m] /\ items[m][K(m)] = n
  BY <1>1, <1>2 DEF Parents
<1> HIDE DEF K
<1>4. f \in [P -> Q]
  BY <1>2, <1>3 DEF PointerSlots
<1>5. f \in Injection(P, Q)
  BY <1>4 DEF Injection, IsInjective
<1>6. \A y \in Q : \E m \in P : f[m] = y
  <2> SUFFICES ASSUME NEW y \in Q PROVE \E m \in P : f[m] = y
    OBVIOUS
  <2>1. PICK m \in Inner : y \in {m} \X DOMAIN items[m]
    BY DEF PointerSlots
  <2>2. y = <<m, y[2]>> /\ y[2] \in DOMAIN items[m] /\ items[m][y[2]] = n
    BY <2>1
  <2>3. m \in P
    BY <1>1, <2>2 DEF Parents
  <2>4. K(m) = y[2]
    BY <1>1, <1>3, <2>2, <2>3
  <2> QED  BY <2>2, <2>3, <2>4
<1>7. ExistsBijection(P, Q)
  BY <1>4, <1>5, <1>6 DEF ExistsBijection, Bijection, Surjection
<1>8. IsFiniteSet(P)
  BY NodesFinite, FS_Subset DEF Parents
<1> HIDE DEF P, Q
<1> QED
  BY <1>7, <1>8, FS_Bijection DEF P, Q

\* What a step of thread t may change of the places of pointers to n: the roots of
\* t's own object and of object h, what t holds, and the arrays of nodes a and b.
Ones(t, h, a, b, n) ==
    One(root[t] = n) + One(h # t /\ root[h] = n)
      + One(ptr[t] = n) + One(right[t] = n) + One(drop[t] = n)
      + One(a \in NodeId /\ n \in Children(a))
      + One(b \in NodeId /\ b # a /\ n \in Children(b))

\* Owners, as five sets.
LEMMA OwnersCount ==
    NodesOK /\ Siblings =>
        \A n \in NodeId :
            Owners(n) = Cardinality({h \in Handle : root[h] = n})
                          + Cardinality(Parents(n))
                          + Cardinality({t \in Transients : ptr[t] = n})
                          + Cardinality({t \in Transients : right[t] = n})
                          + Cardinality({t \in Transients : drop[t] = n})
  BY SlotsAreParents DEF Owners

\* The same of the next state.
LEMMA OwnersCountNext ==
    (NodesOK /\ Siblings =>
        \A n \in NodeId :
            Owners(n) = Cardinality({h \in Handle : root[h] = n})
                          + Cardinality(Parents(n))
                          + Cardinality({t \in Transients : ptr[t] = n})
                          + Cardinality({t \in Transients : right[t] = n})
                          + Cardinality({t \in Transients : drop[t] = n}))'
  BY OwnersCount, PTL

\* Two sets that agree but on a and b.
LEMMA AgreeButTwo ==
    ASSUME NEW A, NEW B, NEW a, NEW b, IsFiniteSet(A), A \ {a, b} = B \ {a, b}
    PROVE  /\ Cardinality(A) \in Nat /\ Cardinality(B) \in Nat
           /\ Cardinality(B) + One(a \in A) + One(b # a /\ b \in A)
                = Cardinality(A) + One(a \in B) + One(b # a /\ b \in B)
<1> DEFINE M == (A \ {a}) \cup (B \cap {a})
<1>1. A \ {a} = M \ {a} /\ M \ {b} = B \ {b} /\ (a \in M <=> a \in B)
      /\ (b # a => (b \in M <=> b \in A))
  OBVIOUS
<1>2. CASE a = b
  <2>1. A \ {a} = B \ {a}
    BY <1>2
  <2> HIDE DEF M
  <2>2. /\ Cardinality(A) \in Nat /\ Cardinality(B) \in Nat
        /\ Cardinality(B) + One(a \in A) = Cardinality(A) + One(a \in B)
    BY <2>1, AgreeBut
  <2> QED  BY <1>2, <2>2 DEF One
<1>3. CASE a # b
  <2> HIDE DEF M
  <2>1. /\ IsFiniteSet(M) /\ Cardinality(A) \in Nat /\ Cardinality(M) \in Nat
        /\ Cardinality(M) + One(a \in A) = Cardinality(A) + One(a \in M)
    BY <1>1, AgreeBut
  <2>2. /\ Cardinality(B) \in Nat
        /\ Cardinality(B) + One(b \in M) = Cardinality(M) + One(b \in B)
    BY <1>1, <2>1, AgreeBut
  <2> QED  BY <1>1, <1>3, <2>1, <2>2 DEF One
<1> QED
  BY <1>2, <1>3

\* A step changes the owners of a node by the places it may change.
LEMMA OwnersChange ==
    ASSUME TypeOK, TypeOK', Siblings, Siblings',
           NEW t \in Transients, NEW h \in Handle, NEW a, NEW b,
           \A g \in Handle \ {t, h} : root'[g] = root[g],
           \A u \in Transients \ {t} :
               ptr'[u] = ptr[u] /\ right'[u] = right[u] /\ drop'[u] = drop[u],
           \A m \in NodeId \ {a, b} : Children(m)' = Children(m),
           NEW n \in NodeId
    PROVE  /\ Owners(n) \in Nat /\ Owners(n)' \in Nat
           /\ Ones(t, h, a, b, n) \in Nat /\ Ones(t, h, a, b, n)' \in Nat
           /\ Owners(n)' + Ones(t, h, a, b, n) = Owners(n) + Ones(t, h, a, b, n)'
<1> DEFINE R  == {g \in Handle : root[g] = n}
           P  == {u \in Transients : ptr[u] = n}
           G  == {u \in Transients : right[u] = n}
           D  == {u \in Transients : drop[u] = n}
           C  == Parents(n)
<1>1. /\ Cardinality(R) \in Nat /\ Cardinality(R') \in Nat
      /\ Cardinality(R') + One(root[t] = n) + One(h # t /\ root[h] = n)
           = Cardinality(R) + One(root'[t] = n) + One(h # t /\ root'[h] = n)
  <2>1. /\ R \ {t, h} = R' \ {t, h}
        /\ (t \in R <=> root[t] = n) /\ (t \in R' <=> root'[t] = n)
        /\ (h \in R <=> root[h] = n) /\ (h \in R' <=> root'[h] = n)
    BY DEF Handle
  <2>2. IsFiniteSet(R)
    BY NodesFinite, FS_Subset
  <2> HIDE DEF R
  <2>3. /\ Cardinality(R) \in Nat /\ Cardinality(R') \in Nat
        /\ Cardinality(R') + One(t \in R) + One(h # t /\ h \in R)
             = Cardinality(R) + One(t \in R') + One(h # t /\ h \in R')
    BY <2>1, <2>2, AgreeButTwo
  <2>4. /\ One(t \in R) = One(root[t] = n) /\ One(t \in R') = One(root'[t] = n)
        /\ One(h # t /\ h \in R) = One(h # t /\ root[h] = n)
        /\ One(h # t /\ h \in R') = One(h # t /\ root'[h] = n)
    BY <2>1 DEF One
  <2> QED  BY <2>3, <2>4
<1>2. /\ Cardinality(P) \in Nat /\ Cardinality(P') \in Nat
      /\ Cardinality(P') + One(ptr[t] = n) = Cardinality(P) + One(ptr'[t] = n)
  <2>1. P \ {t} = P' \ {t} /\ (t \in P <=> ptr[t] = n) /\ (t \in P' <=> ptr'[t] = n)
    OBVIOUS
  <2>2. IsFiniteSet(P)
    BY NodesFinite, FS_Subset
  <2> HIDE DEF P
  <2> QED  BY <2>1, <2>2, AgreeBut DEF One
<1>3. /\ Cardinality(G) \in Nat /\ Cardinality(G') \in Nat
      /\ Cardinality(G') + One(right[t] = n) = Cardinality(G) + One(right'[t] = n)
  <2>1. G \ {t} = G' \ {t} /\ (t \in G <=> right[t] = n) /\ (t \in G' <=> right'[t] = n)
    OBVIOUS
  <2>2. IsFiniteSet(G)
    BY NodesFinite, FS_Subset
  <2> HIDE DEF G
  <2> QED  BY <2>1, <2>2, AgreeBut DEF One
<1>4. /\ Cardinality(D) \in Nat /\ Cardinality(D') \in Nat
      /\ Cardinality(D') + One(drop[t] = n) = Cardinality(D) + One(drop'[t] = n)
  <2>1. D \ {t} = D' \ {t} /\ (t \in D <=> drop[t] = n) /\ (t \in D' <=> drop'[t] = n)
    OBVIOUS
  <2>2. IsFiniteSet(D)
    BY NodesFinite, FS_Subset
  <2> HIDE DEF D
  <2> QED  BY <2>1, <2>2, AgreeBut DEF One
<1>5. /\ Cardinality(C) \in Nat /\ Cardinality(C') \in Nat
      /\ Cardinality(C') + One(a \in C) + One(b # a /\ b \in C)
           = Cardinality(C) + One(a \in C') + One(b # a /\ b \in C')
  <2>1. C \ {a, b} = C' \ {a, b}
    BY DEF Parents
  <2>2. IsFiniteSet(C)
    BY NodesFinite, FS_Subset DEF Parents
  <2> HIDE DEF C
  <2>3. ASSUME NEW X, NEW Y, IsFiniteSet(X), X \ {a, b} = Y \ {a, b}
        PROVE  /\ Cardinality(X) \in Nat /\ Cardinality(Y) \in Nat
               /\ Cardinality(Y) + One(a \in X) + One(b # a /\ b \in X)
                    = Cardinality(X) + One(a \in Y) + One(b # a /\ b \in Y)
    BY ONLY <2>3, AgreeButTwo
  <2> QED  BY ONLY <2>1, <2>2, <2>3, Zenon
<1>6. Owners(n) = Cardinality(R) + Cardinality(C) + Cardinality(P) + Cardinality(G)
                    + Cardinality(D)
  BY OwnersCount DEF TypeOK
<1>7. Owners(n)' = Cardinality(R') + Cardinality(C') + Cardinality(P')
                     + Cardinality(G') + Cardinality(D')
  BY OwnersCountNext DEF TypeOK
<1>8. /\ One(a \in C) = One(a \in NodeId /\ n \in Children(a))
      /\ One(a \in C') = One(a \in NodeId /\ n \in Children(a)')
      /\ One(b # a /\ b \in C) = One(b \in NodeId /\ b # a /\ n \in Children(b))
      /\ One(b # a /\ b \in C') = One(b \in NodeId /\ b # a /\ n \in Children(b)')
  BY DEF Parents, One
<1> HIDE DEF R, P, G, D, C
<1>9. \A x : One(x) \in Nat
  BY DEF One
<1> HIDE DEF One
<1>10. /\ Ones(t, h, a, b, n) \in Nat
       /\ Ones(t, h, a, b, n) = One(root[t] = n) + One(h # t /\ root[h] = n) + One(ptr[t] = n)
             + One(right[t] = n) + One(drop[t] = n) + One(a \in C) + One(b # a /\ b \in C)
  BY <1>8, <1>9 DEF Ones
<1>11. /\ Ones(t, h, a, b, n)' \in Nat
       /\ Ones(t, h, a, b, n)' = One(root'[t] = n) + One(h # t /\ root'[h] = n) + One(ptr'[t] = n)
             + One(right'[t] = n) + One(drop'[t] = n) + One(a \in C') + One(b # a /\ b \in C')
  BY <1>8, <1>9 DEF Ones
<1>12. /\ One(root[t] = n) \in Nat /\ One(root'[t] = n) \in Nat
       /\ One(h # t /\ root[h] = n) \in Nat /\ One(h # t /\ root'[h] = n) \in Nat
       /\ One(ptr[t] = n) \in Nat /\ One(ptr'[t] = n) \in Nat
       /\ One(right[t] = n) \in Nat /\ One(right'[t] = n) \in Nat
       /\ One(drop[t] = n) \in Nat /\ One(drop'[t] = n) \in Nat
       /\ One(a \in C) \in Nat /\ One(a \in C') \in Nat
       /\ One(b # a /\ b \in C) \in Nat /\ One(b # a /\ b \in C') \in Nat
  BY ONLY <1>9
<1>13. Owners(n) \in Nat /\ Owners(n)' \in Nat
  BY ONLY <1>1, <1>2, <1>3, <1>4, <1>5, <1>6, <1>7
<1>14. Owners(n)' + Ones(t, h, a, b, n) = Owners(n) + Ones(t, h, a, b, n)'
  BY ONLY <1>1, <1>2, <1>3, <1>4, <1>5, <1>6, <1>7, <1>10, <1>11, <1>12, SMTT(60)
<1> QED
  BY ONLY <1>10, <1>11, <1>13, <1>14

-----------------------------------------------------------------------------
(* The inductive invariant *)

\* A node without pointers and without a running destructor is as it was made.
FreeClean == \A n \in FreeNodes : depth[n] = 1 /\ ~persistent[n]

\* The children of a node are of the level below.
Levels == \A m \in Inner : \A c \in Children(m) : depth[m] = depth[c] + 1

\* A node a thread has made and not yet put into a tree.
Fresh(n) == refs[n] = 1 /\ ~persistent[n]

\* The depth of the node whose result the thread's next continuation takes.
Height(t) == depth[root[t]] - Len(stack[t])

\* The child the innermost frame names.
FrameItem(t) == items[Frame(t).node][Frame(t).index + 1]

\* What thread t holds besides its tree: a result only on the way up, and then
\* nodes only it knows; a stack only between root and leaf; and nodes to mark,
\* the root of the new object first, while it makes one.  A node that has split
\* in place, without a new left half, is not marked.
Results(t) ==
    /\ ptr[t] # Nil => pc[t] \in {"replace", "split", "discard", "persist"}
    /\ right[t] # Nil =>
         pc[t] = "split" /\ Fresh(right[t]) /\ depth[right[t]] = Height(t)
    /\ ptr[t] # Nil /\ pc[t] # "persist" => Fresh(ptr[t])
    /\ pc[t] \in {"replace", "split"} /\ ptr[t] # Nil => depth[ptr[t]] = Height(t)
    /\ pc[t] \notin {"descend", "replace", "split", "erase"} => stack[t] = <<>>
    /\ pc[t] # "persist" => marking[t] = <<>>
    /\ pc[t] = "persist" =>
         ~Busy(t) /\ ptr[t] # Nil /\ (marking[t] = <<ptr[t]>> \/ persistent[ptr[t]])
    /\ pc[t] = "descend" => ~Busy(t)
    /\ pc[t] = "split" /\ ptr[t] = Nil /\ stack[t] # <<>> => ~persistent[FrameItem(t)]

\* StackIsPath for a thread that may be busy, with the depth of every node.
OnEdgeTo(t, k) ==
    \A j \in 1 .. k : stack[t][j].index = Len(items[stack[t][j].node]) - 1

Path(t) ==
    LET s == stack[t]
    IN  /\ s # <<>> => root[t] = s[1].node
        /\ pc[t] = "descend" =>
             /\ at[t] = IF s = <<>> THEN root[t]
                        ELSE items[Frame(t).node][Frame(t).index + 1]
             /\ depth[at[t]] = Height(t)
             /\ rightMost[t] = OnEdgeTo(t, Len(s))
        /\ \A k \in 1 .. Len(s) :
             /\ depth[s[k].node] = depth[root[t]] - k + 1
             /\ depth[s[k].node] > 1
             /\ s[k].index < Len(items[s[k].node])
             /\ s[k].rightMost = OnEdgeTo(t, k - 1)
             /\ k > 1 => s[k].node = items[s[k - 1].node][s[k - 1].index + 1]

\* The thread a node belongs to; a node that several threads may reach, or none,
\* belongs to no one.
NoOne == CHOOSE x : x \notin Transients

Sees(owner, t, n) == n \in NodeId => owner[n] \in {t, NoOne}

\* What thread t can reach belongs to t or to no one.
Held(owner, t) ==
    /\ Sees(owner, t, root[t]) /\ Sees(owner, t, ptr[t])
    /\ Sees(owner, t, right[t]) /\ Sees(owner, t, drop[t])
    /\ \A k \in 1 .. Len(dying[t]) : Sees(owner, t, dying[t][k])
    /\ \A k \in 1 .. Len(stack[t]) : Sees(owner, t, stack[t][k].node)
    /\ pc[t] = "descend" => Sees(owner, t, at[t])

\* A persistent node belongs to a thread only until that thread has marked
\* what is below it, all of which it then has on its list.
Marked(owner, t) ==
    /\ \A n \in NodeId : owner[n] = t /\ persistent[n] =>
         /\ pc[t] = "persist"
         /\ \A c \in Children(n) :
              persistent[c] \/ \E k \in 1 .. Len(marking[t]) : marking[t][k] = c
    /\ \A k \in 1 .. Len(marking[t]) :
         marking[t][k] = ptr[t]
           \/ \E p \in NodeId : owner[p] = t /\ marking[t][k] \in Children(p)

\* Every node that may be changed in place belongs to one thread; a Persistent
\* has none, and the parent of one belongs to the same thread.
Owned(owner) ==
    /\ \A n \in NodeId : refs[n] > 0 /\ ~persistent[n] => owner[n] # NoOne
    /\ \A p \in Persistents : root[p] \in NodeId => owner[root[p]] = NoOne
    /\ \A m \in NodeId : \A c \in Children(m) :
         owner[c] # NoOne => owner[m] = owner[c]
    /\ \A t \in Transients : Held(owner, t) /\ Marked(owner, t)

\* A node with two owners that may be changed in place: the root of a thread
\* that is about to mark it, or that is giving up the parent it had.
Only(m, n) == m \in NodeId /\ depth[m] > 1 /\ items[m] = <<n>>

SharedRoot(t, n) ==
    /\ root[t] = n
    /\ \/ marking[t] = <<n>>
       \/ drop[t] = n
       \/ drop[t] # Nil /\ Only(drop[t], n)
       \/ drop[t] = Nil /\ dying[t] # <<>> /\ Only(dying[t][Len(dying[t])], n)

Exclusive ==
    \A n \in NodeId : refs[n] > 1 /\ ~persistent[n] =>
        refs[n] = 2 /\ \E t \in Transients : SharedRoot(t, n)

Memory == TypeOK /\ RefExact /\ Siblings /\ Levels /\ FreeClean

Threads == \A t \in Transients : Results(t) /\ Path(t)

Owner == [NodeId -> Transients \cup {NoOne}]

MemInv(owner) == Memory /\ Threads /\ Owned(owner) /\ Exclusive

-----------------------------------------------------------------------------
(* What holds of the nodes that are held *)

\* The value that stands for no thread is none of the threads.
LEMMA NoOneIsNoThread == NoOne \notin Transients
  BY NoSetContainsEverything DEF NoOne

\* The node is a root, or a child of some node.
Placed(n) == (\E h \in Handle : root[h] = n) \/ (\E m \in NodeId : n \in Children(m))

\* The owners of a node, by kind: none of a kind is zero of it.
LEMMA Owners5 ==
    ASSUME Memory, NEW n \in NodeId
    PROVE  \E r, c, p, g, d \in Nat :
              /\ refs[n] = r + c + p + g + d
              /\ r + c > 0 <=> Placed(n)
              /\ p > 0 <=> \E t \in Transients : ptr[t] = n
              /\ g > 0 <=> \E t \in Transients : right[t] = n
              /\ d > 0 <=> \E t \in Transients : drop[t] = n
<1>1. ASSUME NEW S, NEW T, IsFiniteSet(T), S \subseteq T
      PROVE  Cardinality(S) \in Nat /\ (Cardinality(S) > 0 <=> S # {})
  <2>1. IsFiniteSet(S)
    BY <1>1, FS_Subset
  <2> QED  BY <2>1, FS_CardinalityType, FS_EmptySet
<1> DEFINE R == {h \in Handle : root[h] = n}
           C == Parents(n)
           P == {t \in Transients : ptr[t] = n}
           G == {t \in Transients : right[t] = n}
           D == {t \in Transients : drop[t] = n}
<1>2. refs[n] = Cardinality(R) + Cardinality(C) + Cardinality(P) + Cardinality(G)
                  + Cardinality(D)
  BY OwnersCount DEF Memory, TypeOK, RefExact
<1>3. /\ Cardinality(R) \in Nat /\ (Cardinality(R) > 0 <=> R # {})
      /\ Cardinality(P) \in Nat /\ (Cardinality(P) > 0 <=> P # {})
      /\ Cardinality(G) \in Nat /\ (Cardinality(G) > 0 <=> G # {})
      /\ Cardinality(D) \in Nat /\ (Cardinality(D) > 0 <=> D # {})
      /\ Cardinality(C) \in Nat /\ (Cardinality(C) > 0 <=> C # {})
  <2>1. R \subseteq Handle /\ P \subseteq Transients /\ G \subseteq Transients
        /\ D \subseteq Transients /\ C \subseteq NodeId
    BY DEF Parents
  <2> HIDE DEF R, P, G, D, C
  <2> QED  BY <1>1, <2>1, NodesFinite
<1>4. /\ (R # {} \/ C # {}) <=> Placed(n)
      /\ P # {} <=> \E t \in Transients : ptr[t] = n
      /\ G # {} <=> \E t \in Transients : right[t] = n
      /\ D # {} <=> \E t \in Transients : drop[t] = n
  BY DEF Placed, Parents
<1> HIDE DEF R, P, G, D, C
<1>5. Cardinality(R) + Cardinality(C) > 0 <=> Placed(n)
  BY <1>3, <1>4
<1> QED
  BY <1>2, <1>3, <1>4, <1>5

\* A node something points to is alive.
LEMMA HeldAlive ==
    ASSUME Memory, NEW n \in NodeId,
           \/ Placed(n)
           \/ \E t \in Transients : ptr[t] = n \/ right[t] = n \/ drop[t] = n
    PROVE  refs[n] > 0 /\ n \notin FreeNodes
  BY Owners5 DEF FreeNodes

\* A node with one owner that a result points to is nowhere else.
LEMMA SoleResult ==
    ASSUME Memory, NEW n \in NodeId, refs[n] = 1, NEW t \in Transients,
           ptr[t] = n \/ right[t] = n
    PROVE  ~Placed(n) /\ \A u \in Transients : drop[u] # n
  BY Owners5

\* Nor is it another result.
LEMMA SoleBoth ==
    ASSUME Memory, NEW n \in NodeId, refs[n] = 1, NEW t \in Transients, ptr[t] = n
    PROVE  \A u \in Transients : right[u] # n
  BY Owners5

\* Nor is one that is about to be given up.
LEMMA SoleDrop ==
    ASSUME Memory, NEW n \in NodeId, refs[n] = 1, NEW t \in Transients, drop[t] = n
    PROVE  ~Placed(n) /\ \A u \in Transients : ptr[u] # n /\ right[u] # n
  BY Owners5

\* Counts are natural numbers, and so are addresses.
LEMMA RefsNat == ASSUME Memory, NEW n \in NodeId PROVE refs[n] \in Nat /\ n \in Nat
  BY NodePointer DEF Memory, TypeOK, NodesOK

\* The nodes of a thread's path are in the tree.
LEMMA PathPlaced ==
    ASSUME Memory, NEW t \in Transients, Path(t)
    PROVE  /\ root[t] # Nil => root[t] \in NodeId /\ Placed(root[t])
           /\ \A k \in 1 .. Len(stack[t]) :
                stack[t][k].node \in NodeId /\ Placed(stack[t][k].node)
           /\ pc[t] = "descend" => at[t] \in NodeId /\ Placed(at[t])
           /\ stack[t] # <<>> => /\ FrameItem(t) \in Children(Frame(t).node)
                                /\ FrameItem(t) \in NodeId /\ Placed(FrameItem(t))
                                /\ Frame(t) = stack[t][Len(stack[t])]
                                /\ Len(stack[t]) \in 1 .. Len(stack[t])
<1>1. root[t] # Nil => root[t] \in NodeId /\ Placed(root[t])
  BY DEF Memory, TypeOK, TreesOK, Handle, Pointer, Placed
<1>2. stack[t] \in Seq(FrameSet)
  BY DEF Memory, TypeOK, ControlOK
<1>3. ASSUME NEW k \in 1 .. Len(stack[t])
      PROVE  stack[t][k] \in FrameSet /\ stack[t][k].node \in NodeId
  <2>1. stack[t][k] \in FrameSet
    BY <1>2, ElementOfSeq
  <2> QED  BY <2>1 DEF FrameSet
<1>4. ASSUME NEW k \in 1 .. Len(stack[t])
      PROVE  LET f == stack[t][k]
             IN  /\ depth[f.node] # 1
                 /\ f.index + 1 \in 1 .. Len(items[f.node])
                 /\ items[f.node][f.index + 1] \in Children(f.node)
  <2> DEFINE f == stack[t][k]
  <2>1. f.node \in NodeId /\ f.index \in Nat
    BY <1>3 DEF FrameSet
  <2>2. depth[f.node] > 1 /\ f.index < Len(items[f.node])
    BY DEF Path
  <2>3. items[f.node] \in Seq(NodeId) /\ depth[f.node] \in Nat
    BY <2>1, <2>2 DEF Memory, TypeOK, NodesOK
  <2>4. Len(items[f.node]) \in Nat
    BY <2>3, LenProperties
  <2> HIDE DEF f
  <2>5. depth[f.node] # 1 /\ f.index + 1 \in 1 .. Len(items[f.node])
    BY <2>1, <2>2, <2>3, <2>4
  <2>6. items[f.node][f.index + 1] \in Children(f.node)
    BY <2>5 DEF Children
  <2> QED  BY <2>5, <2>6 DEF f
<1>5. ASSUME NEW k \in 1 .. Len(stack[t])
      PROVE  Placed(stack[t][k].node)
  <2>0. Len(stack[t]) \in Nat
    BY <1>2, LenProperties
  <2>1. CASE k = 1
    <3>1. stack[t] # <<>>
      BY <1>2, <2>0
    <3>2. root[t] = stack[t][k].node
      BY <2>1, <3>1 DEF Path
    <3> QED  BY <3>2 DEF Placed, Handle
  <2>2. CASE k # 1
    <3>1. k - 1 \in 1 .. Len(stack[t]) /\ k > 1
      BY <2>0, <2>2
    <3>2. stack[t][k].node = items[stack[t][k - 1].node][stack[t][k - 1].index + 1]
      BY <3>1 DEF Path
    <3> QED  BY <1>3, <1>4, <3>1, <3>2 DEF Placed
  <2> QED  BY <2>1, <2>2
<1>6. ASSUME pc[t] = "descend" PROVE at[t] \in NodeId /\ Placed(at[t])
  <2>1. at[t] \in NodeId
    BY <1>6, AtIsNode DEF Memory
  <2>2. CASE stack[t] = <<>>
    BY <1>1, <1>6, <2>1, <2>2, NodePointer DEF Path
  <2>3. CASE stack[t] # <<>>
    <3>1. Len(stack[t]) \in 1 .. Len(stack[t])
      BY <1>2, <2>3, LenProperties
    <3> DEFINE f == Frame(t)
    <3>2. at[t] = items[f.node][f.index + 1] /\ f = stack[t][Len(stack[t])]
      BY <1>6, <2>3 DEF Path, Frame
    <3>3. at[t] \in Children(f.node) /\ f.node \in NodeId
      BY <1>3, <1>4, <3>1, <3>2
    <3> QED  BY <2>1, <3>3 DEF Placed
  <2> QED  BY <2>2, <2>3
<1>7. ASSUME stack[t] # <<>>
      PROVE  /\ FrameItem(t) \in Children(Frame(t).node)
             /\ FrameItem(t) \in NodeId /\ Placed(FrameItem(t))
             /\ Frame(t) = stack[t][Len(stack[t])]
             /\ Len(stack[t]) \in 1 .. Len(stack[t])
  <2>1. Len(stack[t]) \in 1 .. Len(stack[t])
    BY <1>2, <1>7, LenProperties, EmptySeq
  <2> DEFINE k == Len(stack[t])
             f == stack[t][k]
  <2>2. /\ depth[f.node] # 1 /\ f.node \in NodeId
        /\ f.index + 1 \in 1 .. Len(items[f.node])
        /\ items[f.node][f.index + 1] \in Children(f.node)
    BY <1>3, <1>4, <2>1
  <2>3. items[f.node] \in Seq(NodeId)
    BY <2>2 DEF Memory, TypeOK, NodesOK
  <2>4. items[f.node][f.index + 1] \in NodeId
    BY <2>2, <2>3, ElementOfSeq
  <2> QED  BY <2>1, <2>2, <2>4 DEF Frame, FrameItem, Placed
<1> QED
  BY <1>1, <1>3, <1>5, <1>6, <1>7

-----------------------------------------------------------------------------
(* What a step of one thread leaves to the others *)

\* Node n is as it was.
Kept(n) ==
    items'[n] = items[n] /\ depth'[n] = depth[n] /\ persistent'[n] = persistent[n]

\* A step of t changes no variable of another thread.
Waits(t) ==
    \A u \in Transients \ {t} :
        /\ pc'[u] = pc[u] /\ at'[u] = at[u] /\ rightMost'[u] = rightMost[u]
        /\ stack'[u] = stack[u] /\ root'[u] = root[u]
        /\ ptr'[u] = ptr[u] /\ right'[u] = right[u]
        /\ drop'[u] = drop[u] /\ dying'[u] = dying[u] /\ marking'[u] = marking[u]

\* It makes nodes F, and changes these and others of W that t may change: nodes
\* in its hands, which are not marked or have lost their last pointer.
Writes(owner, t, F, W) ==
    /\ W \subseteq NodeId /\ F \subseteq FreeNodes /\ F \subseteq W
    /\ \A n \in NodeId \ W : Kept(n)
    /\ \A n \in F : refs'[n] = 1 /\ ~persistent'[n]
    /\ \A n \in W \ F :
         /\ Sees(owner, t, n)
         /\ n \notin FreeNodes
         /\ \/ refs[n] = 0
            \/ refs[n] = 1 /\ drop[t] = n /\ refs'[n] = 0
            \/ ~persistent[n]
         /\ refs[n] > 0 => depth'[n] = depth[n]
    /\ \A n \in NodeId \ F : refs'[n] = refs[n] \/ Placed(n) \/ drop[t] = n

\* What it writes to an inner node are nodes it sees, of the level below.
Forms(owner, t, F, W) ==
    \A n \in W :
        /\ depth'[n] = 1
           \/ /\ Distinct(items'[n])
              /\ \A c \in Children(n)' :
                   refs[c] > 0 /\ Sees(owner, t, c) /\ depth'[n] = depth[c] + 1
        /\ n \notin F /\ (refs[n] = 0 \/ persistent[n]) =>
             Children(n)' \subseteq Children(n)

\* A step leaves alone the live nodes that another thread reaches.
LEMMA KeptAlive ==
    ASSUME NEW owner, MemInv(owner), NEW t \in Transients, NEW F, NEW W,
           Writes(owner, t, F, W),
           NEW u \in Transients \ {t}, NEW n \in NodeId, refs[n] > 0,
           Sees(owner, u, n), refs[n] = 1 => drop[t] # n
    PROVE  Kept(n) /\ n \notin F
<1>1. n \notin FreeNodes
  BY DEF FreeNodes
<1>2. n \notin F
  BY <1>1 DEF Writes
<1>3. CASE n \in W
  <2>1. Sees(owner, t, n) /\ (refs[n] = 0 \/ (refs[n] = 1 /\ drop[t] = n) \/ ~persistent[n])
    BY <1>2, <1>3 DEF Writes
  <2>2. ~persistent[n]
    BY <2>1, RefsNat DEF MemInv
  <2>3. owner[n] # NoOne
    BY <2>2 DEF MemInv, Owned
  <2> QED  BY <2>1, <2>3 DEF Sees
<1>4. CASE n \notin W
  BY <1>4 DEF Writes
<1> QED
  BY <1>2, <1>3, <1>4

\* A live node keeps its depth.
LEMMA AliveDepth ==
    ASSUME NEW owner, NEW t, NEW F, NEW W, Writes(owner, t, F, W)
    PROVE  \A n \in NodeId : refs[n] > 0 => depth'[n] = depth[n]
<1> SUFFICES ASSUME NEW n \in NodeId, refs[n] > 0 PROVE depth'[n] = depth[n]
  OBVIOUS
<1>1. n \notin F
  BY DEF Writes, FreeNodes
<1> QED
  BY <1>1 DEF Writes, Kept

\* A path none of whose nodes changed.
LEMMA PathKept ==
    ASSUME Memory, NEW u \in Transients, Path(u),
           pc'[u] = pc[u] \/ pc'[u] # "descend",
           pc'[u] = "descend" => at'[u] = at[u] /\ rightMost'[u] = rightMost[u],
           stack'[u] = stack[u],
           stack[u] # <<>> \/ pc'[u] = "descend" => root'[u] = root[u],
           root[u] # Nil => depth'[root[u]] = depth[root[u]],
           \A k \in 1 .. Len(stack[u]) :
               LET n == stack[u][k].node IN items'[n] = items[n] /\ depth'[n] = depth[n],
           pc'[u] = "descend" => depth'[at[u]] = depth[at[u]]
    PROVE  Path(u)'
<1> DEFINE s == stack[u]
<1>0. s \in Seq(FrameSet) /\ Len(s) \in Nat
  BY LenProperties DEF Memory, TypeOK, ControlOK
<1>10. \A k \in 0 .. Len(s) : OnEdgeTo(u, k)' = OnEdgeTo(u, k)
  <2>1. \A k \in 0 .. Len(s) : \A j \in 1 .. k : j \in 1 .. Len(s)
    BY <1>0
  <2> SUFFICES ASSUME NEW k \in 0 .. Len(s) PROVE OnEdgeTo(u, k)' = OnEdgeTo(u, k)
    OBVIOUS
  <2>2. \A j \in 1 .. k :
          (stack[u][j].index = Len(items[stack[u][j].node]) - 1)'
            = (stack[u][j].index = Len(items[stack[u][j].node]) - 1)
    BY <2>1
  <2> QED  BY <2>2 DEF OnEdgeTo
<1>1. \A k \in 1 .. Len(s) : OnEdgeTo(u, k - 1)' = OnEdgeTo(u, k - 1)
  BY <1>0, <1>10
<1>2. OnEdgeTo(u, Len(s))' = OnEdgeTo(u, Len(s))
  BY <1>0, <1>10
<1>3. s # <<>> => 1 \in 1 .. Len(s) /\ Len(s) \in 1 .. Len(s)
  BY <1>0
<1>4. s # <<>> => root[u] # Nil
  <2>1. ASSUME s # <<>> PROVE root[u] # Nil
    <3>1. root[u] = s[1].node
      BY <2>1 DEF Path
    <3> QED  BY <3>1, <1>3, <2>1, PathPlaced, NodePointer
  <2> QED  BY <2>1
<1>5. pc'[u] = "descend" => root[u] # Nil
  BY DEF Memory, TypeOK, PhaseOK
<1>6. (s # <<>> => root[u] = s[1].node)'
  BY DEF Path
<1>7. (pc[u] = "descend" =>
             /\ at[u] = IF s = <<>> THEN root[u]
                        ELSE items[Frame(u).node][Frame(u).index + 1]
             /\ depth[at[u]] = Height(u)
             /\ rightMost[u] = OnEdgeTo(u, Len(s)))'
  BY <1>2, <1>3, <1>5 DEF Path, Frame, Height
<1>8. \A k \in 1 .. Len(s) : k > 1 => k - 1 \in 1 .. Len(s)
  BY <1>0
<1>9. (\A k \in 1 .. Len(s) :
             /\ depth[s[k].node] = depth[root[u]] - k + 1
             /\ depth[s[k].node] > 1
             /\ s[k].index < Len(items[s[k].node])
             /\ s[k].rightMost = OnEdgeTo(u, k - 1)
             /\ k > 1 => s[k].node = items[s[k - 1].node][s[k - 1].index + 1])'
  <2> SUFFICES ASSUME NEW k \in 1 .. Len(s)
               PROVE  /\ depth'[s[k].node] = depth'[root'[u]] - k + 1
                      /\ depth'[s[k].node] > 1
                      /\ s[k].index < Len(items'[s[k].node])
                      /\ s[k].rightMost = OnEdgeTo(u, k - 1)'
                      /\ k > 1 => s[k].node = items'[s[k - 1].node][s[k - 1].index + 1]
    OBVIOUS
  <2>1. s # <<>>
    BY <1>0, EmptySeq
  <2>2. depth'[root'[u]] = depth[root[u]]
    BY <2>1, <1>4
  <2>3. /\ items'[s[k].node] = items[s[k].node] /\ depth'[s[k].node] = depth[s[k].node]
        /\ k > 1 => items'[s[k - 1].node] = items[s[k - 1].node]
    BY <1>8
  <2>4. /\ depth[s[k].node] = depth[root[u]] - k + 1
        /\ depth[s[k].node] > 1
        /\ s[k].index < Len(items[s[k].node])
        /\ s[k].rightMost = OnEdgeTo(u, k - 1)
        /\ k > 1 => s[k].node = items[s[k - 1].node][s[k - 1].index + 1]
    BY DEF Path
  <2> QED  BY <1>1, <2>2, <2>3, <2>4
<1> QED
  BY <1>6, <1>7, <1>9 DEF Path

\* The path after the innermost continuation has been called.
LEMMA PathPopped ==
    ASSUME Memory, NEW u \in Transients, Path(u), stack[u] # <<>>,
           pc'[u] # "descend",
           stack'[u] = SubSeq(stack[u], 1, Len(stack[u]) - 1),
           root'[u] = root[u],
           depth'[root[u]] = depth[root[u]],
           \A k \in 1 .. Len(stack[u]) - 1 :
               LET n == stack[u][k].node IN items'[n] = items[n] /\ depth'[n] = depth[n]
    PROVE  Path(u)'
<1> DEFINE s == stack[u]
           r == SubSeq(stack[u], 1, Len(stack[u]) - 1)
<1>0. s \in Seq(FrameSet) /\ Len(s) \in Nat \ {0}
  BY EmptySeq, LenProperties DEF Memory, TypeOK, ControlOK
<1>1. Len(r) = Len(s) - 1 /\ \A k \in 1 .. Len(r) : r[k] = s[k]
  BY <1>0, SubSeqProperties
<1>2. \A k \in 1 .. Len(r) : k \in 1 .. Len(s) /\ k \in 1 .. Len(s) - 1
  BY <1>0, <1>1
<1>3. \A k \in 1 .. Len(r) : OnEdgeTo(u, k - 1)' = OnEdgeTo(u, k - 1)
  <2> SUFFICES ASSUME NEW k \in 1 .. Len(r) PROVE OnEdgeTo(u, k - 1)' = OnEdgeTo(u, k - 1)
    OBVIOUS
  <2>1. \A j \in 1 .. k - 1 : j \in 1 .. Len(r) /\ j \in 1 .. Len(s) - 1
    BY <1>0, <1>1
  <2>2. \A j \in 1 .. k - 1 :
          (stack[u][j].index = Len(items[stack[u][j].node]) - 1)'
            = (stack[u][j].index = Len(items[stack[u][j].node]) - 1)
    <3>1. \A j \in 1 .. k - 1 : stack'[u][j] = s[j]
      BY <1>1, <2>1
    <3>2. \A j \in 1 .. k - 1 : items'[s[j].node] = items[s[j].node]
      BY <2>1
    <3> HIDE DEF r
    <3> QED  BY <3>1, <3>2
  <2> QED  BY <2>2 DEF OnEdgeTo
<1>4. r # <<>> => 1 \in 1 .. Len(r)
  BY <1>0, <1>1
<1>5. (stack[u] # <<>> => root[u] = stack[u][1].node)'
  BY <1>1, <1>4 DEF Path
<1>8. \A k \in 1 .. Len(r) : k > 1 => k - 1 \in 1 .. Len(r)
  BY <1>0, <1>1
<1> HIDE DEF r
<1>9. (\A k \in 1 .. Len(stack[u]) :
             /\ depth[stack[u][k].node] = depth[root[u]] - k + 1
             /\ depth[stack[u][k].node] > 1
             /\ stack[u][k].index < Len(items[stack[u][k].node])
             /\ stack[u][k].rightMost = OnEdgeTo(u, k - 1)
             /\ k > 1 => stack[u][k].node = items[stack[u][k - 1].node][stack[u][k - 1].index + 1])'
  <2>1. stack'[u] = r
    BY DEF r
  <2> SUFFICES ASSUME NEW k \in 1 .. Len(r)
               PROVE  /\ depth'[r[k].node] = depth'[root'[u]] - k + 1
                      /\ depth'[r[k].node] > 1
                      /\ r[k].index < Len(items'[r[k].node])
                      /\ r[k].rightMost = OnEdgeTo(u, k - 1)'
                      /\ k > 1 => r[k].node = items'[r[k - 1].node][r[k - 1].index + 1]
    BY <2>1
  <2>2. r[k] = s[k] /\ (k > 1 => r[k - 1] = s[k - 1]) /\ k \in 1 .. Len(s)
    BY <1>1, <1>2, <1>8
  <2>3. /\ items'[r[k].node] = items[r[k].node] /\ depth'[r[k].node] = depth[r[k].node]
        /\ k > 1 => items'[r[k - 1].node] = items[r[k - 1].node]
    BY <2>2, <1>2, <1>8
  <2>4. /\ depth[s[k].node] = depth[root[u]] - k + 1
        /\ depth[s[k].node] > 1
        /\ s[k].index < Len(items[s[k].node])
        /\ s[k].rightMost = OnEdgeTo(u, k - 1)
        /\ k > 1 => s[k].node = items[s[k - 1].node][s[k - 1].index + 1]
    BY <2>2 DEF Path
  <2> QED  BY <1>3, <2>2, <2>3, <2>4
<1> QED
  BY <1>5, <1>9 DEF Path

\* What the other threads hold stays as it was.
LEMMA OthersKept ==
    ASSUME NEW owner, MemInv(owner), TypeOK', NEW t \in Transients, NEW F, NEW W,
           Writes(owner, t, F, W), Waits(t), NEW u \in Transients \ {t}
    PROVE  Results(u)' /\ Path(u)'
<1>0. Memory /\ Path(u) /\ Results(u) /\ Held(owner, u)
  BY DEF MemInv, Threads, Owned
<1>1. ASSUME NEW n \in NodeId, Sees(owner, u, n), Placed(n)
      PROVE  Kept(n)
  <2>1. refs[n] > 0 /\ (refs[n] = 1 => drop[t] # n)
    BY <1>0, <1>1, HeldAlive, SoleDrop
  <2> QED  BY <1>1, <2>1, KeptAlive
<1>2. root[u] # Nil => Kept(root[u])
  BY <1>0, <1>1, PathPlaced DEF Held
<1>3. \A k \in 1 .. Len(stack[u]) : Kept(stack[u][k].node)
  BY <1>0, <1>1, PathPlaced DEF Held
<1>4. pc[u] = "descend" => Kept(at[u])
  BY <1>0, <1>1, PathPlaced DEF Held
<1>5. Path(u)'
  BY <1>0, <1>2, <1>3, <1>4, PathKept DEF Waits, Kept
<1>6. ASSUME ptr[u] # Nil PROVE Kept(ptr[u]) /\ (Fresh(ptr[u]) => refs'[ptr[u]] = refs[ptr[u]])
  <2>1. ptr[u] \in NodeId
    BY <1>0, <1>6 DEF Memory, TypeOK, ResultOK, Pointer
  <2>2. refs[ptr[u]] > 0 /\ (refs[ptr[u]] = 1 => drop[t] # ptr[u])
    BY <1>0, <2>1, HeldAlive, SoleDrop
  <2>3. Kept(ptr[u]) /\ ptr[u] \notin F
    BY <1>0, <2>1, <2>2, KeptAlive DEF Held
  <2>4. Fresh(ptr[u]) => ~Placed(ptr[u]) /\ drop[t] # ptr[u]
    BY <1>0, <2>1, SoleResult DEF Fresh
  <2> QED  BY <2>1, <2>3, <2>4 DEF Writes
<1>7. ASSUME right[u] # Nil
      PROVE  Kept(right[u]) /\ (Fresh(right[u]) => refs'[right[u]] = refs[right[u]])
  <2>1. right[u] \in NodeId
    BY <1>0, <1>7 DEF Memory, TypeOK, ResultOK, Pointer
  <2>2. refs[right[u]] > 0 /\ (refs[right[u]] = 1 => drop[t] # right[u])
    BY <1>0, <2>1, HeldAlive, SoleDrop
  <2>3. Kept(right[u]) /\ right[u] \notin F
    BY <1>0, <2>1, <2>2, KeptAlive DEF Held
  <2>4. Fresh(right[u]) => ~Placed(right[u]) /\ drop[t] # right[u]
    BY <1>0, <2>1, SoleResult DEF Fresh
  <2> QED  BY <2>1, <2>3, <2>4 DEF Writes
<1>8. /\ pc'[u] = pc[u] /\ stack'[u] = stack[u] /\ root'[u] = root[u]
      /\ ptr'[u] = ptr[u] /\ right'[u] = right[u] /\ drop'[u] = drop[u]
      /\ dying'[u] = dying[u] /\ marking'[u] = marking[u]
  BY DEF Waits
<1>9. pc[u] \in {"replace", "split"} => root[u] # Nil
  BY <1>0 DEF Memory, TypeOK, PhaseOK
<1>10. pc[u] \in {"replace", "split"} => Height(u)' = Height(u)
  BY <1>2, <1>8, <1>9 DEF Height, Kept
<1>11. ptr[u] # Nil => persistent'[ptr[u]] = persistent[ptr[u]] /\ depth'[ptr[u]] = depth[ptr[u]]
                        /\ (Fresh(ptr[u]) => Fresh(ptr[u])')
  BY <1>6, <1>8 DEF Kept, Fresh
<1>12. right[u] # Nil => depth'[right[u]] = depth[right[u]]
                          /\ (Fresh(right[u]) => Fresh(right[u])')
  BY <1>7, <1>8 DEF Kept, Fresh
<1>13. Busy(u)' <=> Busy(u)
  BY <1>8 DEF Busy
<1>14. stack[u] # <<>> => persistent'[FrameItem(u)] = persistent[FrameItem(u)]
                           /\ FrameItem(u)' = FrameItem(u)
  <2> SUFFICES ASSUME stack[u] # <<>>
               PROVE  persistent'[FrameItem(u)] = persistent[FrameItem(u)]
                      /\ FrameItem(u)' = FrameItem(u)
    OBVIOUS
  <2>1. /\ FrameItem(u) \in Children(Frame(u).node)
        /\ FrameItem(u) \in NodeId /\ Placed(FrameItem(u))
        /\ Len(stack[u]) \in 1 .. Len(stack[u]) /\ Frame(u) = stack[u][Len(stack[u])]
    BY <1>0, PathPlaced
  <2>2. Sees(owner, u, Frame(u).node) /\ Frame(u).node \in NodeId /\ Kept(Frame(u).node)
    BY <1>0, <1>3, <2>1, PathPlaced DEF Held
  <2>3. Sees(owner, u, FrameItem(u))
    BY <2>1, <2>2 DEF MemInv, Owned, Sees
  <2>4. Kept(FrameItem(u))
    BY <1>1, <2>1, <2>3
  <2>5. Frame(u)' = Frame(u)
    BY <1>8 DEF Frame
  <2>6. FrameItem(u)' = FrameItem(u)
    BY <2>2, <2>5 DEF FrameItem, Kept
  <2> QED  BY <2>4, <2>6 DEF Kept
<1>15. (pc[u] = "split" /\ ptr[u] = Nil /\ stack[u] # <<>> => ~persistent[FrameItem(u)])'
  BY <1>0, <1>8, <1>14 DEF Results
<1>16. Results(u)'
  BY <1>0, <1>8, <1>10, <1>11, <1>12, <1>13, <1>15 DEF Results
<1> QED
  BY <1>5, <1>16

\* The arrays that are written are formed as the others.
LEMMA ShapesKept ==
    ASSUME NEW owner, MemInv(owner), TypeOK', NEW t \in Transients, NEW F, NEW W,
           Writes(owner, t, F, W), Forms(owner, t, F, W)
    PROVE  Siblings' /\ Levels'
<1>1. ASSUME NEW m \in NodeId, depth'[m] > 1
      PROVE  /\ Distinct(items'[m])
             /\ \A c \in Children(m)' : refs[c] > 0 /\ depth'[m] = depth[c] + 1
  <2>1. CASE m \in W
    BY <1>1, <2>1 DEF Forms
  <2>2. CASE m \notin W
    <3>1. Kept(m) /\ m \in Inner
      BY <1>1, <2>2 DEF Writes, Inner, Kept
    <3>2. Children(m)' = Children(m)
      BY <3>1 DEF Kept, Children
    <3>3. Children(m) \subseteq NodeId
      <4>1. items[m] \in Seq(NodeId) /\ depth[m] # 1
        BY <3>1 DEF MemInv, Memory, TypeOK, NodesOK, Inner
      <4> QED  BY <4>1, ElementOfSeq DEF Children
    <3>4. \A c \in Children(m) : refs[c] > 0
      BY <3>1, <3>3, HeldAlive DEF MemInv, Placed, Inner
    <3> QED  BY <3>1, <3>2, <3>3, <3>4 DEF MemInv, Memory, Siblings, Levels, Kept
  <2> QED  BY <2>1, <2>2
<1>2. ASSUME NEW m \in NodeId, depth'[m] > 1 PROVE Children(m)' \subseteq NodeId
  <2>1. items'[m] \in Seq(NodeId) /\ depth'[m] # 1
    BY <1>2 DEF TypeOK, NodesOK
  <2> QED  BY <2>1, ElementOfSeq DEF Children
<1> QED
  BY <1>1, <1>2, AliveDepth DEF Siblings, Levels, Inner

\* What t holds after the step it saw before, or has made.
Found(owner, t, F, n) == n \in F \/ Sees(owner, t, n)

Reaches(owner, t, F) ==
    /\ Found(owner, t, F, root'[t]) /\ Found(owner, t, F, ptr'[t])
    /\ Found(owner, t, F, right'[t]) /\ Found(owner, t, F, drop'[t])
    /\ \A k \in 1 .. Len(dying'[t]) : Found(owner, t, F, dying'[t][k])
    /\ \A k \in 1 .. Len(stack'[t]) : Found(owner, t, F, stack'[t][k].node)
    /\ pc'[t] = "descend" => Found(owner, t, F, at'[t])

\* A Persistent gets its root from another one, or loses it.
Shares ==
    \A p \in Persistents :
        root'[p] \in {root[p], Nil} \/ \E g \in Persistents : root'[p] = root[g]

\* The owners after the step.
Takes(owner, t, F, owner2) ==
    /\ owner2 \in Owner
    /\ \A n \in NodeId : owner2[n] = IF n \in F THEN t ELSE owner[n]

\* A step that is not of make_persistent leaves nothing to mark but a new result.
LEMMA MarkedKept ==
    ASSUME NEW owner, MemInv(owner), TypeOK', NEW t \in Transients, NEW F, NEW W,
           Writes(owner, t, F, W), NEW owner2, Takes(owner, t, F, owner2),
           pc[t] # "persist",
           \A n \in NodeId : persistent'[n] => persistent[n],
           marking'[t] = <<>> \/ marking'[t] = <<ptr'[t]>>
    PROVE  Marked(owner2, t)'
<1>1. \A n \in NodeId : ~(owner2[n] = t /\ persistent'[n])
  BY DEF Takes, Writes, MemInv, Owned, Marked
<1>2. \A k \in 1 .. Len(marking'[t]) : marking'[t][k] = ptr'[t]
  <2>1. CASE marking'[t] = <<>>
    BY <2>1
  <2>2. CASE marking'[t] = <<ptr'[t]>>
    BY <2>2
  <2> QED  BY <2>1, <2>2
<1> QED
  BY <1>1, <1>2 DEF Marked

\* The new nodes belong to the thread that made them.
LEMMA OwnedKept ==
    ASSUME NEW owner, MemInv(owner), TypeOK', NEW t \in Transients, NEW F, NEW W,
           Waits(t), Writes(owner, t, F, W), Forms(owner, t, F, W),
           Reaches(owner, t, F), Shares,
           NEW owner2, Takes(owner, t, F, owner2), Marked(owner2, t)'
    PROVE  Owned(owner2)'
<1>0. Memory /\ Owned(owner) /\ NoOne # t
  BY NoOneIsNoThread DEF MemInv
<1>1. \A n \in NodeId : Sees(owner2, t, n) <=> Found(owner, t, F, n)
  BY DEF Found, Sees, Takes
<1>2. \A n \in F : n \in NodeId /\ n \in FreeNodes /\ Children(n) = {}
  BY <1>0 DEF Writes, Memory, FreeClean, Children
<1>3. ASSUME NEW n \in NodeId, refs[n] > 0 \/ Dying(n) PROVE owner2[n] = owner[n] /\ n \notin F
  BY <1>3 DEF Takes, FreeNodes, Writes
<1>4. ASSUME NEW m \in NodeId, NEW c \in Children(m)
      PROVE  c \in NodeId /\ refs[c] > 0 /\ Placed(c)
  <2>1. depth[m] # 1
    BY DEF Children
  <2>2. items[m] \in Seq(NodeId)
    BY <1>0, <2>1 DEF Memory, TypeOK, NodesOK
  <2>3. c \in NodeId
    BY <2>1, <2>2, ElementOfSeq DEF Children
  <2> QED  BY <1>0, <2>3, HeldAlive DEF Placed
<1>5. ASSUME NEW n \in NodeId, refs'[n] > 0, ~persistent'[n] PROVE owner2[n] # NoOne
  <2>1. CASE n \in F
    BY <1>0, <2>1 DEF Takes
  <2>2. CASE n \notin F
    <3>1. refs[n] > 0
      <4>1. Placed(n) \/ drop[t] = n => refs[n] > 0
        BY <1>0, HeldAlive
      <4> QED  BY <1>5, <2>2, <4>1 DEF Writes
    <3>2. ~persistent[n]
      <4>1. CASE n \in W
        BY <1>0, <1>5, <2>2, <3>1, <4>1, RefsNat DEF Writes
      <4>2. CASE n \notin W
        BY <1>5, <4>2 DEF Writes, Kept
      <4> QED  BY <4>1, <4>2
    <3> QED  BY <1>0, <1>3, <3>1, <3>2 DEF Owned
  <2> QED  BY <2>1, <2>2
<1>6. ASSUME NEW p \in Persistents, root'[p] \in NodeId PROVE owner2[root'[p]] = NoOne
  <2>1. PICK g \in Persistents : root'[p] = root[g]
    BY <1>6, NodePointer DEF Shares
  <2>2. root[g] \in NodeId /\ owner[root[g]] = NoOne
    BY <1>0, <1>6, <2>1 DEF Owned
  <2>3. refs[root[g]] > 0
    BY <1>0, <2>2, HeldAlive DEF Placed, Handle
  <2> QED  BY <1>3, <2>1, <2>2, <2>3
<1>7. ASSUME NEW m \in NodeId, NEW c \in Children(m)', owner2[c] # NoOne
      PROVE  owner2[m] = owner2[c]
  <2>1. CASE m \notin W
    <3>1. Children(m)' = Children(m) /\ m \notin F
      <4>1. Kept(m) /\ m \notin F
        BY <2>1 DEF Writes
      <4> QED  BY <4>1 DEF Kept, Children
    <3>2. c \in NodeId /\ refs[c] > 0 /\ owner2[c] = owner[c]
      BY <1>3, <1>4, <3>1
    <3> QED  BY <1>0, <1>7, <3>1, <3>2 DEF Owned, Takes
  <2>2. CASE m \in W
    <3>1. depth'[m] # 1
      BY DEF Children
    <3>2. c \in NodeId
      <4>1. items'[m] \in Seq(NodeId)
        BY <3>1 DEF TypeOK, NodesOK
      <4> QED  BY <3>1, <4>1, ElementOfSeq DEF Children
    <3>3. Sees(owner, t, c) /\ refs[c] > 0
      BY <2>2, <3>1 DEF Forms
    <3>4. owner2[c] = owner[c] /\ owner[c] = t
      BY <1>3, <1>7, <3>2, <3>3 DEF Sees
    <3>5. CASE m \in F
      BY <3>4, <3>5 DEF Takes
    <3>6. CASE m \notin F
      <4>1. owner2[m] = owner[m] /\ Sees(owner, t, m)
        BY <2>2, <3>6 DEF Takes, Writes
      <4>2. CASE refs[m] = 0
        <5>1. c \in Children(m)
          BY <2>2, <3>6, <4>2 DEF Forms
        <5> QED  BY <1>0, <3>4, <4>1, <5>1 DEF Owned
      <4>3. CASE refs[m] > 0 /\ ~persistent[m]
        BY <1>0, <3>4, <4>1, <4>3 DEF Owned, Sees
      <4>4. CASE refs[m] = 1 /\ drop[t] = m /\ refs'[m] = 0 /\ persistent[m]
        <5>1. c \in Children(m)
          BY <2>2, <3>6, <4>4 DEF Forms
        <5> QED  BY <1>0, <3>4, <4>1, <5>1 DEF Owned
      <4> QED  BY <1>0, <2>2, <3>6, <4>2, <4>3, <4>4, RefsNat DEF Writes
    <3> QED  BY <3>5, <3>6
  <2> QED  BY <2>1, <2>2
<1>8. Held(owner2, t)'
  BY <1>1 DEF Reaches, Held, Sees, Found, Takes
<1>9. ASSUME NEW u \in Transients \ {t} PROVE Held(owner2, u)' /\ Marked(owner2, u)'
  <2>0. /\ pc'[u] = pc[u] /\ stack'[u] = stack[u] /\ root'[u] = root[u] /\ at'[u] = at[u]
        /\ ptr'[u] = ptr[u] /\ right'[u] = right[u] /\ drop'[u] = drop[u]
        /\ dying'[u] = dying[u] /\ marking'[u] = marking[u]
    BY DEF Waits
  <2>1. Held(owner, u) /\ Marked(owner, u) /\ Path(u)
    BY <1>0 DEF Owned, MemInv, Threads
  <2>2. ASSUME NEW n, Sees(owner, u, n),
               n \in NodeId => refs[n] > 0 \/ Dying(n)
        PROVE  Sees(owner2, u, n)
    BY <1>3, <2>2 DEF Sees
  <2>3. Sees(owner2, u, root[u]) /\ Sees(owner2, u, ptr[u]) /\ Sees(owner2, u, right[u])
        /\ Sees(owner2, u, drop[u])
    <3>1. \A n \in NodeId : n \in {root[u], ptr[u], right[u], drop[u]} => refs[n] > 0
      BY <1>0, HeldAlive DEF Placed, Handle
    <3> QED  BY <2>1, <2>2, <3>1 DEF Held
  <2>4. \A k \in 1 .. Len(dying[u]) : Sees(owner2, u, dying[u][k])
    <3>1. \A k \in 1 .. Len(dying[u]) : Dying(dying[u][k])
      BY DEF Dying
    <3> QED  BY <2>1, <2>2, <3>1 DEF Held
  <2>5. \A k \in 1 .. Len(stack[u]) : Sees(owner2, u, stack[u][k].node)
    <3>1. \A k \in 1 .. Len(stack[u]) : refs[stack[u][k].node] > 0
      BY <1>0, <2>1, PathPlaced, HeldAlive
    <3> QED  BY <2>1, <2>2, <3>1 DEF Held
  <2>6. pc[u] = "descend" => Sees(owner2, u, at[u])
    <3>1. pc[u] = "descend" => refs[at[u]] > 0
      BY <1>0, <2>1, PathPlaced, HeldAlive
    <3> QED  BY <2>1, <2>2, <3>1 DEF Held
  <2>7. Held(owner2, u)'
    BY <2>0, <2>3, <2>4, <2>5, <2>6 DEF Held, Sees
  <2>8. ASSUME NEW n \in NodeId, owner2[n] = u, n \in FreeNodes => Children(n) # {} \/ persistent'[n]
        PROVE  Kept(n) /\ owner[n] = u
    <3>1. n \notin F /\ owner[n] = u
      BY <2>8 DEF Takes
    <3>2. CASE n \in W
      <4>1. Sees(owner, t, n)
        BY <3>1, <3>2 DEF Writes
      <4> QED  BY <3>1, <4>1, NoOneIsNoThread DEF Sees
    <3>3. CASE n \notin W
      BY <3>1, <3>3 DEF Writes
    <3> QED  BY <3>2, <3>3
  <2>9. ASSUME NEW n \in NodeId, owner2[n] = u, persistent'[n]
        PROVE  /\ pc[u] = "persist"
               /\ \A c \in Children(n)' :
                     persistent'[c] \/ \E k \in 1 .. Len(marking[u]) : marking[u][k] = c
    <3>1. Kept(n) /\ owner[n] = u
      BY <2>8, <2>9
    <3>2. persistent[n] /\ Children(n)' = Children(n)
      BY <2>9, <3>1 DEF Kept, Children
    <3>3. /\ pc[u] = "persist"
          /\ \A c \in Children(n) :
                persistent[c] \/ \E k \in 1 .. Len(marking[u]) : marking[u][k] = c
      BY <2>1, <3>1, <3>2 DEF Marked
    <3>4. ASSUME NEW c \in Children(n), persistent[c] PROVE persistent'[c]
      <4>1. c \in NodeId /\ refs[c] > 0 /\ Placed(c)
        BY <1>4
      <4>2. refs[c] = 1 => drop[t] # c
        BY <1>0, <4>1, SoleDrop
      <4>3. Sees(owner, u, c)
        BY <1>0, <3>1 DEF Owned, Sees
      <4> QED  BY <3>4, <4>1, <4>2, <4>3, KeptAlive DEF Kept
    <3> QED  BY <3>2, <3>3, <3>4
  <2>10. ASSUME NEW k \in 1 .. Len(marking[u])
         PROVE  marking[u][k] = ptr[u]
                  \/ \E p \in NodeId : owner2[p] = u /\ marking[u][k] \in Children(p)'
    <3>1. CASE marking[u][k] = ptr[u]
      BY <3>1
    <3>2. ASSUME NEW p \in NodeId, owner[p] = u, marking[u][k] \in Children(p)
          PROVE  owner2[p] = u /\ marking[u][k] \in Children(p)'
      <4>1. p \notin F
        BY <1>2, <3>2
      <4>2. owner2[p] = u
        BY <3>2, <4>1 DEF Takes
      <4>3. Kept(p)
        BY <2>8, <3>2, <4>2
      <4> QED  BY <3>2, <4>2, <4>3 DEF Kept, Children
    <3> QED  BY <2>1, <3>1, <3>2 DEF Marked
  <2>11. Marked(owner2, u)'
    BY <2>0, <2>9, <2>10 DEF Marked
  <2> QED  BY <2>7, <2>11
<1> QED
  BY <1>5, <1>6, <1>7, <1>8, <1>9 DEF Owned

-----------------------------------------------------------------------------
(* Counts and shared roots after a step *)

\* A step that counts no pointer down frees nothing.
LEMMA FreeKept ==
    ASSUME Memory, TypeOK', NEW owner, NEW t, NEW F, NEW W, Writes(owner, t, F, W),
           UNCHANGED dying,
           \A n \in NodeId : refs'[n] >= refs[n],
           \A n \in W : refs'[n] > 0
    PROVE  FreeClean'
<1> SUFFICES ASSUME NEW n \in NodeId, refs'[n] = 0, ~Dying(n)'
             PROVE  depth'[n] = 1 /\ ~persistent'[n]
  BY DEF FreeClean, FreeNodes
<1>1. n \notin W
  OBVIOUS
<1>2. refs[n] = 0 /\ ~Dying(n)
  BY RefsNat DEF Dying
<1>3. depth[n] = 1 /\ ~persistent[n]
  BY <1>2 DEF Memory, FreeClean, FreeNodes
<1> QED
  BY <1>1, <1>3 DEF Writes, Kept

\* The pointers t has taken, and where they are now, are as many as the counts say.
Counts(t, h, a, b) ==
    \A n \in NodeId :
        refs'[n] + Ones(t, h, a, b, n) = refs[n] + Ones(t, h, a, b, n)'

\* Counts follow the places the step changes.
LEMMA RefsKept ==
    ASSUME NEW owner, MemInv(owner), TypeOK', Siblings',
           NEW t \in Transients, NEW F, NEW W, Writes(owner, t, F, W),
           NEW h \in Handle, NEW a, NEW b, W \subseteq {a, b},
           Waits(t),
           \A g \in Handle \ {t, h} : root'[g] = root[g],
           Counts(t, h, a, b),
           \A n \in NodeId : Dying(n)' => refs'[n] = 0
    PROVE  RefExact'
<1> SUFFICES ASSUME NEW n \in NodeId PROVE refs'[n] = Owners(n)'
  BY DEF RefExact
<1>1. ASSUME NEW m \in NodeId \ {a, b} PROVE Children(m)' = Children(m)
  <2>1. Kept(m)
    BY DEF Writes
  <2> QED  BY <2>1 DEF Kept, Children
<1>2. \A u \in Transients \ {t} :
         ptr'[u] = ptr[u] /\ right'[u] = right[u] /\ drop'[u] = drop[u]
  BY DEF Waits
<1>3. TypeOK /\ Siblings /\ refs[n] = Owners(n)
  BY DEF MemInv, Memory, RefExact
<1>4. /\ Owners(n) \in Nat /\ Owners(n)' \in Nat
      /\ Ones(t, h, a, b, n) \in Nat /\ Ones(t, h, a, b, n)' \in Nat
      /\ Owners(n)' + Ones(t, h, a, b, n) = Owners(n) + Ones(t, h, a, b, n)'
  BY <1>1, <1>2, <1>3, OwnersChange
<1>5. refs'[n] \in Nat
  BY DEF TypeOK, NodesOK
<1>6. refs'[n] + Ones(t, h, a, b, n) = refs[n] + Ones(t, h, a, b, n)'
  BY DEF Counts
<1> QED
  BY ONLY <1>3, <1>4, <1>5, <1>6

\* A node whose destructor runs stays uncounted.
LEMMA DyingKept ==
    ASSUME Memory, NEW owner, NEW t \in Transients, NEW F, NEW W, Writes(owner, t, F, W),
           NEW n \in NodeId, Dying(n)
    PROVE  refs'[n] = 0
<1>1. refs[n] = 0
  BY DEF Memory, RefExact
<1>2. n \notin F
  BY DEF Writes, FreeNodes
<1>3. ~Placed(n) /\ drop[t] # n
  BY <1>1, HeldAlive
<1> QED
  BY <1>1, <1>2, <1>3 DEF Writes

\* A node that another thread shares with itself stays so.
LEMMA SharedKept ==
    ASSUME NEW owner, MemInv(owner), NEW t \in Transients, NEW F, NEW W,
           Writes(owner, t, F, W), Waits(t),
           NEW u \in Transients \ {t}, NEW n \in NodeId,
           refs[n] > 1, ~persistent[n], SharedRoot(u, n)
    PROVE  SharedRoot(u, n)'
<1>0. Memory /\ Owned(owner)
  BY DEF MemInv
<1>1. owner[n] = u /\ u # NoOne
  <2>1. owner[n] # NoOne
    BY <1>0, RefsNat DEF Owned
  <2> QED  BY <1>0, <2>1, NoOneIsNoThread DEF SharedRoot, Owned, Held, Sees
<1>2. ASSUME NEW m, Only(m, n) PROVE Only(m, n)'
  <2>1. m \in NodeId /\ n \in Children(m) /\ depth[m] > 1
    BY <1>0, <1>2 DEF Only, Children, Memory, TypeOK, NodesOK
  <2>2. owner[m] = u
    BY <1>0, <1>1, <2>1 DEF Owned
  <2>3. m \notin F
    BY <1>0, <2>1 DEF Writes, Memory, FreeClean
  <2>4. m \notin W
    BY <1>1, <2>1, <2>2, <2>3, NoOneIsNoThread DEF Writes, Sees
  <2> QED  BY <1>2, <2>1, <2>4 DEF Writes, Kept, Only
<1>3. root'[u] = root[u] /\ drop'[u] = drop[u] /\ dying'[u] = dying[u]
      /\ marking'[u] = marking[u]
  BY DEF Waits
<1> QED
  BY <1>2, <1>3 DEF SharedRoot

\* No step makes a second owner of a node that is changed in place, but the two
\* that share a root.
LEMMA ExclusiveKept ==
    ASSUME NEW owner, MemInv(owner), TypeOK', NEW t \in Transients, NEW F, NEW W,
           Writes(owner, t, F, W), Waits(t),
           \A n \in NodeId : refs[n] > 1 /\ ~persistent[n] /\ SharedRoot(t, n) =>
               refs'[n] <= 1 \/ persistent'[n] \/ (refs'[n] = 2 /\ SharedRoot(t, n)'),
           \A n \in NodeId \ F : \/ refs'[n] <= refs[n] \/ persistent[n]
                                 \/ refs'[n] = 2 /\ SharedRoot(t, n)'
    PROVE  Exclusive'
<1> SUFFICES ASSUME NEW n \in NodeId, refs'[n] > 1, ~persistent'[n]
             PROVE  refs'[n] = 2 /\ \E u \in Transients : SharedRoot(u, n)'
  BY DEF Exclusive
<1>0. Memory /\ Exclusive /\ refs[n] \in Nat /\ refs'[n] \in Nat
  BY RefsNat DEF MemInv, TypeOK, NodesOK
<1>1. n \notin F
  BY <1>0 DEF Writes
<1>2. refs[n] > 0
  <2>1. Placed(n) \/ drop[t] = n => refs[n] > 0
    BY <1>0, HeldAlive
  <2> QED  BY <1>0, <1>1, <2>1 DEF Writes
<1>3. ~persistent[n]
  <2>1. CASE n \in W
    BY <1>0, <1>1, <1>2, <2>1 DEF Writes
  <2>2. CASE n \notin W
    BY <2>2 DEF Writes, Kept
  <2> QED  BY <2>1, <2>2
<1>4. CASE refs'[n] <= refs[n]
  <2>1. refs[n] = 2 /\ \E u \in Transients : SharedRoot(u, n)
    BY <1>0, <1>3, <1>4 DEF Exclusive
  <2>2. PICK u \in Transients : SharedRoot(u, n)
    BY <2>1
  <2>3. CASE u = t
    BY <1>0, <1>3, <2>1, <2>2, <2>3
  <2>4. CASE u # t
    <3>1. SharedRoot(u, n)'
      BY <1>0, <1>3, <2>1, <2>2, <2>4, SharedKept
    <3>2. refs'[n] = 2
      BY <1>0, <1>4, <2>1
    <3> QED  BY <3>1, <3>2
  <2> QED  BY <2>3, <2>4
<1>5. CASE refs'[n] = 2 /\ SharedRoot(t, n)'
  BY <1>5
<1> QED
  BY <1>1, <1>3, <1>4, <1>5

-----------------------------------------------------------------------------
(* The steps of a call that neither mark nor free nodes *)

\* What such a step of thread t does to the memory.
Works(owner, t, F, W) ==
    /\ pc[t] # "persist" /\ ~Busy(t)
    /\ Waits(t) /\ Writes(owner, t, F, W) /\ Forms(owner, t, F, W)
    /\ Reaches(owner, t, F) /\ Shares
    /\ UNCHANGED dying
    /\ \A n \in NodeId : refs'[n] >= refs[n]
    /\ \A n \in W : refs'[n] > 0 /\ ~persistent'[n]
    /\ marking'[t] = <<>> \/ marking'[t] = <<ptr'[t]>>
    /\ \A n \in NodeId \ F :
         refs'[n] = refs[n] \/ persistent[n] \/ (refs'[n] = 2 /\ SharedRoot(t, n)')

\* The ghost of the step.
LEMMA TakesSome ==
    ASSUME NEW owner \in Owner, NEW t \in Transients, NEW F
    PROVE  \E owner2 \in Owner : Takes(owner, t, F, owner2)
<1> DEFINE o == [n \in NodeId |-> IF n \in F THEN t ELSE owner[n]]
<1>1. o \in Owner
  BY DEF Owner
<1>2. Takes(owner, t, F, o)
  BY <1>1 DEF Takes
<1> QED
  BY <1>1, <1>2

\* A thread that marks nothing and gives nothing back holds no root of another tree.
LEMMA NotShared ==
    ASSUME NEW owner, MemInv(owner), NEW t \in Transients, pc[t] # "persist", ~Busy(t),
           NEW n \in NodeId
    PROVE  ~SharedRoot(t, n)
<1>1. marking[t] = <<>> /\ drop[t] = Nil /\ dying[t] = <<>>
  BY DEF MemInv, Threads, Results, Busy
<1> QED
  BY <1>1, NodePointer DEF SharedRoot

\* All of it for a step that neither marks nor frees a node.
LEMMA WorkKept ==
    ASSUME NEW owner \in Owner, MemInv(owner), TypeOK', NEW t \in Transients,
           NEW F, NEW W, Works(owner, t, F, W),
           NEW h \in Handle, NEW a, NEW b, W \subseteq {a, b},
           \A g \in Handle \ {t, h} : root'[g] = root[g],
           Counts(t, h, a, b),
           Results(t)', Path(t)'
    PROVE  \E owner2 \in Owner : MemInv(owner2)'
<1>0. /\ pc[t] # "persist" /\ ~Busy(t) /\ UNCHANGED dying
      /\ Waits(t) /\ Writes(owner, t, F, W) /\ Forms(owner, t, F, W)
      /\ Reaches(owner, t, F) /\ Shares
      /\ marking'[t] = <<>> \/ marking'[t] = <<ptr'[t]>>
      /\ \A n \in NodeId : refs'[n] >= refs[n]
      /\ \A n \in W : refs'[n] > 0 /\ ~persistent'[n]
  BY DEF Works
<1>1. \A n \in NodeId \ F :
         refs'[n] <= refs[n] \/ persistent[n] \/ (refs'[n] = 2 /\ SharedRoot(t, n)')
  BY RefsNat DEF Works, MemInv
<1>2. Memory
  BY DEF MemInv
<1>3. Siblings' /\ Levels'
  BY <1>0, ShapesKept
<1>4. FreeClean'
  BY <1>0, <1>2, FreeKept
<1>5. \A n \in NodeId : Dying(n)' => refs'[n] = 0
  <2>1. \A n \in NodeId : Dying(n)' => Dying(n)
    BY <1>0 DEF Dying
  <2> QED  BY <1>0, <1>2, <2>1, DyingKept
<1>6. RefExact'
  BY <1>0, <1>3, <1>5, RefsKept
<1>7. Exclusive'
  <2>1. \A n \in NodeId : ~SharedRoot(t, n)
    BY <1>0, NotShared
  <2> QED  BY <1>0, <1>1, <2>1, ExclusiveKept
<1>8. PICK owner2 \in Owner : Takes(owner, t, F, owner2)
  BY TakesSome
<1>9. Owned(owner2)'
  <2>1. \A n \in NodeId : persistent'[n] => persistent[n]
    BY <1>0 DEF Writes, Kept
  <2>2. Marked(owner2, t)'
    BY <1>0, <1>8, <2>1, MarkedKept
  <2> QED  BY <1>0, <1>8, <2>2, OwnedKept
<1>10. Threads'
  <2>1. \A u \in Transients \ {t} : Results(u)' /\ Path(u)'
    BY <1>0, OthersKept
  <2> QED  BY <2>1 DEF Threads
<1> QED
  BY <1>3, <1>4, <1>6, <1>7, <1>9, <1>10 DEF MemInv, Memory

-----------------------------------------------------------------------------
(* Steps that leave the memory as it is *)

\* A step that only counts pointers to placed nodes up.
LEMMA QuietWorks ==
    ASSUME NEW owner, MemInv(owner), NEW t \in Transients,
           pc[t] # "persist", ~Busy(t), Waits(t),
           UNCHANGED <<items, depth, persistent, dying>>,
           Reaches(owner, t, {}), Shares,
           marking'[t] = <<>> \/ marking'[t] = <<ptr'[t]>>,
           \A n \in NodeId :
               \/ refs'[n] = refs[n]
               \/ /\ refs'[n] = refs[n] + 1 /\ Placed(n)
                  /\ persistent[n] \/ (refs'[n] = 2 /\ SharedRoot(t, n)')
    PROVE  Works(owner, t, {}, {})
<1>1. Writes(owner, t, {}, {})
  BY DEF Writes, Kept
<1>2. Forms(owner, t, {}, {})
  BY DEF Forms
<1>3. \A n \in NodeId : refs'[n] >= refs[n]
  BY RefsNat DEF MemInv
<1> QED
  BY <1>1, <1>2, <1>3 DEF Works

\* Thread t only walks.
LEMMA WalkKept ==
    ASSUME NEW owner \in Owner, MemInv(owner), TypeOK', NEW t \in Transients,
           pc[t] # "persist", ~Busy(t),
           UNCHANGED <<items, depth, persistent, refs, root, ptr, right, drop, dying, marking>>,
           \A u \in Transients \ {t} :
               /\ pc'[u] = pc[u] /\ at'[u] = at[u] /\ rightMost'[u] = rightMost[u]
               /\ stack'[u] = stack[u],
           \A k \in 1 .. Len(stack'[t]) : Sees(owner, t, stack'[t][k].node),
           pc'[t] = "descend" => Sees(owner, t, at'[t]),
           Results(t)', Path(t)'
    PROVE  \E owner2 \in Owner : MemInv(owner2)'
<1>1. Waits(t)
  BY DEF Waits
<1>2. Reaches(owner, t, {})
  BY DEF Reaches, Found, MemInv, Owned, Held
<1>3. Shares
  BY DEF Shares
<1>4. marking[t] = <<>>
  BY DEF MemInv, Threads, Results
<1>5. Works(owner, t, {}, {})
  BY <1>1, <1>2, <1>3, <1>4, QuietWorks
<1>6. Counts(t, t, Nil, Nil)
  <2>1. \A n \in NodeId : Ones(t, t, Nil, Nil, n)' = Ones(t, t, Nil, Nil, n)
    BY NodePointer DEF Ones
  <2> QED  BY <2>1 DEF Counts
<1>7. t \in Handle
  BY DEF Handle
<1> QED
  BY <1>5, <1>6, <1>7, WorkKept

\* insert, update, erase: the call starts at the root.
LEMMA BeginKept ==
    ASSUME NEW owner \in Owner, MemInv(owner), TypeOK', NEW t \in Transients,
           NEW name, Begin(t, name)
    PROVE  \E owner2 \in Owner : MemInv(owner2)'
<1>0. Memory /\ Results(t) /\ Path(t) /\ Held(owner, t)
  BY DEF MemInv, Threads, Owned
<1>1. /\ pc[t] = "idle" /\ ~Busy(t) /\ pc' = [pc EXCEPT ![t] = "descend"]
      /\ at' = [at EXCEPT ![t] = root[t]] /\ rightMost' = [rightMost EXCEPT ![t] = TRUE]
      /\ root[t] # Nil
      /\ UNCHANGED <<items, depth, persistent, refs, root, stack, ptr, right, drop, dying, marking>>
  BY DEF Begin, Resting, nodes, trees, result, chores
<1>2. /\ pc'[t] = "descend" /\ at'[t] = root[t] /\ rightMost'[t] = TRUE
      /\ \A u \in Transients \ {t} :
               /\ pc'[u] = pc[u] /\ at'[u] = at[u] /\ rightMost'[u] = rightMost[u]
  BY <1>0, <1>1 DEF Memory, TypeOK, ControlOK
<1>3. stack[t] = <<>> /\ ptr[t] = Nil /\ right[t] = Nil /\ marking[t] = <<>>
  BY <1>0, <1>1 DEF Results
<1>4. Results(t)'
  BY <1>1, <1>2, <1>3 DEF Results, Busy
<1>5. Path(t)'
  <2>1. depth[root[t]] \in Nat
    BY <1>0, <1>1, PathPlaced DEF Memory, TypeOK, NodesOK
  <2>2. Height(t)' = depth[root[t]]
    BY <1>1, <1>3, <2>1 DEF Height
  <2>3. OnEdgeTo(t, Len(stack[t]))' = TRUE
    BY <1>1, <1>3 DEF OnEdgeTo
  <2>4. stack'[t] = <<>>
    BY <1>1, <1>3
  <2>5. (pc[t] = "descend" =>
             /\ at[t] = IF stack[t] = <<>> THEN root[t]
                        ELSE items[Frame(t).node][Frame(t).index + 1]
             /\ depth[at[t]] = Height(t)
             /\ rightMost[t] = OnEdgeTo(t, Len(stack[t])))'
    BY <1>1, <1>2, <2>2, <2>3, <2>4
  <2>6. \A k \in 1 .. Len(stack'[t]) : FALSE
    BY ONLY <2>4
  <2> QED  BY ONLY <2>4, <2>5, <2>6 DEF Path
<1> QED
  BY <1>0, <1>1, <1>2, <1>3, <1>4, <1>5, WalkKept DEF Held

\* The call is over.
LEMMA ReturnKept ==
    ASSUME NEW owner \in Owner, MemInv(owner), TypeOK', NEW t \in Transients, Return(t)
    PROVE  \E owner2 \in Owner : MemInv(owner2)'
<1>0. Memory /\ Results(t) /\ Path(t) /\ Held(owner, t)
  BY DEF MemInv, Threads, Owned
<1>1. /\ pc[t] = "done" /\ ~Busy(t) /\ pc' = [pc EXCEPT ![t] = "idle"]
      /\ UNCHANGED <<items, depth, persistent, refs, root, at, rightMost, stack, ptr, right,
                     drop, dying, marking>>
  BY DEF Return, nodes, trees, chores
<1>2. pc'[t] = "idle" /\ \A u \in Transients \ {t} : pc'[u] = pc[u]
  BY <1>0, <1>1 DEF Memory, TypeOK, ControlOK
<1>3. Results(t)'
  BY <1>0, <1>1, <1>2 DEF Results
<1>4. Path(t)'
  BY <1>0, <1>1, <1>2, PathKept
<1> QED
  BY <1>0, <1>1, <1>2, <1>3, <1>4, WalkKept DEF Held

\* The search passes the end: there is nothing to do.
LEMMA SeekEndKept ==
    ASSUME NEW owner \in Owner, MemInv(owner), TypeOK', NEW t \in Transients, SeekEnd(t)
    PROVE  \E owner2 \in Owner : MemInv(owner2)'
<1>0. Memory /\ Results(t) /\ Path(t) /\ Held(owner, t)
  BY DEF MemInv, Threads, Owned
<1>1. /\ pc[t] = "replace" /\ ~Busy(t)
      /\ UNCHANGED <<items, depth, persistent, refs, root, pc, rightMost, stack, ptr, right,
                     drop, dying, marking>>
  BY DEF SeekEnd, Seeking, nodes, trees, chores
<1>2. \A u \in Transients \ {t} : at'[u] = at[u]
  BY <1>0 DEF SeekEnd, Memory, TypeOK, ControlOK
<1>3. Results(t)'
  BY <1>0, <1>1 DEF Results, Fresh, Busy, Height
<1>4. Path(t)'
  BY <1>0, <1>1, PathKept
<1> QED
  BY <1>0, <1>1, <1>2, <1>3, <1>4, WalkKept DEF Held

\* The leaf finds nothing to change.
LEMMA LeafKeepKept ==
    ASSUME NEW owner \in Owner, MemInv(owner), TypeOK', NEW t \in Transients, LeafKeep(t)
    PROVE  \E owner2 \in Owner : MemInv(owner2)'
<1>0. Memory /\ Results(t) /\ Path(t) /\ Held(owner, t)
  BY DEF MemInv, Threads, Owned
<1>1. /\ pc[t] = "descend" /\ ~Busy(t) /\ pc' = [pc EXCEPT ![t] = "done"]
      /\ at' = [at EXCEPT ![t] = Nil] /\ rightMost' = [rightMost EXCEPT ![t] = FALSE]
      /\ stack' = [stack EXCEPT ![t] = <<>>]
      /\ UNCHANGED <<items, depth, persistent, refs, root, ptr, right, drop, dying, marking>>
  BY DEF LeafKeep, AtLeaf, nodes, trees, result, chores
<1>2. /\ pc'[t] = "done" /\ stack'[t] = <<>>
      /\ \A u \in Transients \ {t} :
               /\ pc'[u] = pc[u] /\ at'[u] = at[u] /\ rightMost'[u] = rightMost[u]
               /\ stack'[u] = stack[u]
  BY <1>0, <1>1 DEF Memory, TypeOK, ControlOK
<1>3. Results(t)'
  BY <1>0, <1>1, <1>2 DEF Results
<1>4. Path(t)'
  BY <1>2 DEF Path
<1>5. \A k \in 1 .. Len(stack'[t]) : Sees(owner, t, stack'[t][k].node)
  BY <1>2
<1> QED
  BY <1>0, <1>1, <1>2, <1>3, <1>4, <1>5, WalkKept

\* The search goes one level down and pushes a frame.
LEMMA DescendKept ==
    ASSUME NEW owner \in Owner, MemInv(owner), TypeOK', NEW t \in Transients,
           NEW i \in 0 .. InternalSize - 1, Descend(t, i)
    PROVE  \E owner2 \in Owner : MemInv(owner2)'
<1> DEFINE n == at[t]
           s == stack[t]
           f == [node |-> n, index |-> i, rightMost |-> rightMost[t]]
<1>0. Memory /\ Results(t) /\ Path(t) /\ Held(owner, t) /\ Owned(owner) /\ Levels
  BY DEF MemInv, Memory, Threads, Owned
<1>1. /\ pc[t] = "descend" /\ ~Busy(t) /\ depth[n] > 1 /\ i < Len(items[n])
      /\ stack' = [stack EXCEPT ![t] = Append(@, f)]
      /\ at' = [at EXCEPT ![t] = items[n][i + 1]]
      /\ rightMost' = [rightMost EXCEPT ![t] = ChildOnEdge(t, i)]
      /\ UNCHANGED <<items, depth, persistent, refs, root, pc, ptr, right, drop, dying, marking>>
  BY DEF Descend, nodes, trees, result, chores
<1>2. /\ stack'[t] = Append(s, f) /\ at'[t] = items[n][i + 1]
      /\ rightMost'[t] = ChildOnEdge(t, i)
      /\ \A u \in Transients \ {t} :
               /\ at'[u] = at[u] /\ rightMost'[u] = rightMost[u]
               /\ stack'[u] = stack[u]
  BY <1>0, <1>1 DEF Memory, TypeOK, ControlOK
<1>3. n \in NodeId /\ items[n] \in Seq(NodeId) /\ i + 1 \in 1 .. Len(items[n]) /\ i \in Nat
      /\ depth[n] \in Nat
  <2>1. n \in NodeId
    BY <1>0, <1>1, AtIsNode DEF Memory
  <2>2. items[n] \in Seq(NodeId) /\ depth[n] \in Nat
    BY <1>0, <1>1, <2>1 DEF Memory, TypeOK, NodesOK
  <2> QED  BY <1>1, <2>1, <2>2, LenProperties, NodeSizeAssumption
<1>4. items[n][i + 1] \in Children(n) /\ items[n][i + 1] \in NodeId
  BY <1>1, <1>3, ElementOfSeq DEF Children
<1>5. depth[n] = depth[items[n][i + 1]] + 1 /\ depth[items[n][i + 1]] \in Nat
  BY <1>0, <1>1, <1>3, <1>4 DEF Levels, Inner, Memory, TypeOK, NodesOK
<1>6. s \in Seq(FrameSet) /\ Len(s) \in Nat
  BY <1>0, LenProperties DEF Memory, TypeOK, ControlOK
<1>7. /\ Len(stack'[t]) = Len(s) + 1
      /\ \A k \in 1 .. Len(s) : stack'[t][k] = s[k]
      /\ stack'[t][Len(s) + 1] = f
  BY <1>2, <1>6, AppendProperties
<1>8. Results(t)'
  BY <1>0, <1>1 DEF Results, Busy
<1>9. /\ depth[n] = depth[root[t]] - Len(s)
      /\ n = IF s = <<>> THEN root[t] ELSE items[s[Len(s)].node][s[Len(s)].index + 1]
      /\ rightMost[t] = OnEdgeTo(t, Len(s))
  BY <1>0, <1>1 DEF Path, Height, Frame
<1>10. depth[root[t]] \in Nat
  <2>1. root[t] # Nil
    BY <1>0, <1>1 DEF Memory, TypeOK, PhaseOK
  <2> QED  BY <1>0, <2>1, PathPlaced DEF Memory, TypeOK, NodesOK
<1>11. ASSUME NEW k \in 0 .. Len(s) PROVE OnEdgeTo(t, k)' = OnEdgeTo(t, k)
  <2>1. \A j \in 1 .. k : j \in 1 .. Len(s)
    BY <1>6
  <2>2. \A j \in 1 .. k :
          (stack[t][j].index = Len(items[stack[t][j].node]) - 1)'
            = (stack[t][j].index = Len(items[stack[t][j].node]) - 1)
    BY <1>1, <1>7, <2>1
  <2> QED  BY <2>2 DEF OnEdgeTo
<1>12. \A k \in Nat : k = Len(s) => (OnEdgeTo(t, k + 1)' <=> OnEdgeTo(t, k) /\ i = Len(items[n]) - 1)
  <2> SUFFICES ASSUME NEW k \in Nat, k = Len(s)
               PROVE  OnEdgeTo(t, k + 1)' <=> OnEdgeTo(t, k)' /\ i = Len(items[n]) - 1
    BY <1>11
  <2>1. stack'[t][k + 1].index = i /\ stack'[t][k + 1].node = n
    BY <1>7
  <2>2. 1 .. k + 1 = (1 .. k) \cup {k + 1}
    OBVIOUS
  <2> QED  BY <1>1, <2>1, <2>2 DEF OnEdgeTo
<1>13. PICK L \in Nat : L = Len(s)
  BY <1>6
<1>14. OnEdgeTo(t, L + 1)' = rightMost'[t]
  <2>1. rightMost'[t] = (rightMost[t] /\ i = Len(items[n]) - 1)
    BY <1>2 DEF ChildOnEdge
  <2>2. OnEdgeTo(t, L) = rightMost[t]
    BY <1>9, <1>13
  <2>3. rightMost[t] \in BOOLEAN
    BY <1>0 DEF Memory, TypeOK, ControlOK
  <2>4. OnEdgeTo(t, L + 1)' <=> OnEdgeTo(t, L) /\ i = Len(items[n]) - 1
    BY <1>12, <1>13
  <2>5. OnEdgeTo(t, L + 1)' \in BOOLEAN
    BY DEF OnEdgeTo
  <2> QED  BY ONLY <2>1, <2>2, <2>3, <2>4, <2>5
<1>15. stack'[t] # <<>> /\ stack'[t] \in Seq(FrameSet)
  <2>1. stack'[t] \in Seq(FrameSet)
    BY DEF TypeOK, ControlOK
  <2>2. Len(stack'[t]) # 0
    BY <1>6, <1>7
  <2> QED  BY <2>1, <2>2, EmptySeq
<1>16. root'[t] = stack'[t][1].node
  <2>1. CASE s = <<>>
    <3>1. Len(s) = 0
      BY <2>1
    <3>2. stack'[t][1] = f
      BY <3>1, <1>7
    <3> QED  BY <1>1, <1>9, <2>1, <3>2
  <2>2. CASE s # <<>>
    <3>1. 1 \in 1 .. Len(s)
      BY <1>6, <2>2, EmptySeq
    <3>2. root[t] = s[1].node
      BY <1>0, <2>2 DEF Path
    <3> QED  BY <1>1, <1>7, <3>1, <3>2
  <2> QED  BY <2>1, <2>2
<1>17. /\ at'[t] = items'[Frame(t)'.node][Frame(t)'.index + 1]
       /\ depth'[at'[t]] = Height(t)'
       /\ Frame(t)' = f
  <2>1. Frame(t)' = f
    BY <1>7 DEF Frame
  <2>2. Height(t)' = depth[root[t]] - (Len(s) + 1)
    BY <1>1, <1>7 DEF Height
  <2>3. depth'[at'[t]] = depth[items[n][i + 1]]
    BY <1>1, <1>2
  <2>4. depth[items[n][i + 1]] = depth[root[t]] - (Len(s) + 1)
    <3>1. depth[n] = depth[root[t]] - Len(s)
      BY <1>9
    <3> QED  BY ONLY <3>1, <1>3, <1>5, <1>6, <1>10, SMTT(30)
  <2> QED  BY <1>1, <1>2, <2>1, <2>2, <2>3, <2>4
<1>18. ASSUME NEW k \in 1 .. L + 1
       PROVE  /\ depth'[stack'[t][k].node] = depth'[root'[t]] - k + 1
              /\ depth'[stack'[t][k].node] > 1
              /\ stack'[t][k].index < Len(items'[stack'[t][k].node])
              /\ stack'[t][k].rightMost = OnEdgeTo(t, k - 1)'
              /\ k > 1 => stack'[t][k].node
                            = items'[stack'[t][k - 1].node][stack'[t][k - 1].index + 1]
  <2>1. CASE k = L + 1
    <3>1. stack'[t][k] = f /\ k - 1 = L /\ OnEdgeTo(t, k - 1)' = OnEdgeTo(t, L)
      BY <1>7, <1>11, <1>13, <2>1
    <3>2. k > 1 => stack'[t][k - 1] = s[Len(s)] /\ s # <<>>
      BY <1>6, <1>7, <1>13, <2>1
    <3>3. depth[n] = depth[root[t]] - k + 1
      <4>1. depth[n] = depth[root[t]] - Len(s)
        BY <1>9
      <4> QED  BY ONLY <4>1, <1>3, <1>10, <1>13, <2>1
    <3>4. k > 1 => n = items[s[Len(s)].node][s[Len(s)].index + 1]
      BY <1>9, <3>2
    <3>5. /\ depth'[f.node] = depth'[root'[t]] - k + 1
          /\ depth'[f.node] > 1
          /\ f.index < Len(items'[f.node])
      BY <1>1, <3>3
    <3>6. f.rightMost = OnEdgeTo(t, L)
      BY <1>9, <1>13
    <3>7. k > 1 => stack'[t][k].node
                     = items'[stack'[t][k - 1].node][stack'[t][k - 1].index + 1]
      <4>1. f.node = n /\ items' = items
        BY <1>1
      <4> HIDE DEF f, s, n
      <4> QED  BY <4>1, <3>1, <3>2, <3>4
    <3>8. stack'[t][k] = f /\ OnEdgeTo(t, k - 1)' = OnEdgeTo(t, L)
      BY <3>1
    <3> HIDE DEF f, s, n
    <3> QED  BY <3>5, <3>6, <3>7, <3>8
  <2>2. CASE k \in 1 .. L
    <3>1. stack'[t][k] = s[k] /\ (k > 1 => stack'[t][k - 1] = s[k - 1]) /\ k \in 1 .. Len(s)
      BY <1>7, <1>13, <2>2, SMTT(30)
    <3>2. OnEdgeTo(t, k - 1)' = OnEdgeTo(t, k - 1)
      BY <1>11, <3>1
    <3>3. /\ depth[s[k].node] = depth[root[t]] - k + 1
          /\ depth[s[k].node] > 1
          /\ s[k].index < Len(items[s[k].node])
          /\ s[k].rightMost = OnEdgeTo(t, k - 1)
          /\ k > 1 => s[k].node = items[s[k - 1].node][s[k - 1].index + 1]
      BY <1>0, <3>1 DEF Path
    <3> QED  BY <1>1, <3>1, <3>2, <3>3
  <2> QED  BY <1>13, <2>1, <2>2
<1>19. Len(stack'[t]) = L + 1 /\ (\A k \in Nat : k = Len(stack'[t]) => OnEdgeTo(t, k)' = rightMost'[t])
  BY <1>7, <1>13, <1>14
<1>20. OnEdgeTo(t, Len(stack[t]))' = rightMost'[t]
  <2>1. OnEdgeTo(t, Len(stack[t]))' = (\A j \in 1 .. Len(stack'[t]) : stack'[t][j].index = Len(items'[stack'[t][j].node]) - 1)
    BY DEF OnEdgeTo
  <2>2. OnEdgeTo(t, L + 1)' = (\A j \in 1 .. L + 1 : stack'[t][j].index = Len(items'[stack'[t][j].node]) - 1)
    BY DEF OnEdgeTo
  <2> QED  BY <1>14, <1>19, <2>1, <2>2
<1>21. Path(t)'
  BY <1>15, <1>16, <1>17, <1>18, <1>19, <1>20 DEF Path
<1>22. \A k \in 1 .. Len(stack'[t]) : Sees(owner, t, stack'[t][k].node)
  BY <1>0, <1>1, <1>7, <1>6 DEF Held
<1>23. Sees(owner, t, at'[t])
  BY <1>0, <1>1, <1>2, <1>3, <1>4 DEF Held, Owned, Sees
<1> QED
  BY <1>1, <1>2, <1>8, <1>21, <1>22, <1>23, WalkKept

\* The leaf would be empty: its parent is to erase it.
LEMMA LeafEraseOnlyKept ==
    ASSUME NEW owner \in Owner, MemInv(owner), TypeOK', NEW t \in Transients,
           NEW i, LeafEraseOnly(t, i)
    PROVE  \E owner2 \in Owner : MemInv(owner2)'
<1>0. Memory /\ Results(t) /\ Path(t) /\ Held(owner, t)
  BY DEF MemInv, Threads, Owned
<1>1. /\ pc[t] = "descend" /\ ~Busy(t) /\ pc' = [pc EXCEPT ![t] = "erase"]
      /\ at' = [at EXCEPT ![t] = Nil] /\ rightMost' = [rightMost EXCEPT ![t] = FALSE]
      /\ UNCHANGED <<items, depth, persistent, refs, root, ptr, right, stack, drop, dying, marking>>
  BY DEF LeafEraseOnly, AtLeaf, CallErase, LeavesLeaf, nodes, chores
<1>2. /\ pc'[t] = "erase"
      /\ \A u \in Transients \ {t} :
               pc'[u] = pc[u] /\ at'[u] = at[u] /\ rightMost'[u] = rightMost[u]
  BY <1>0, <1>1 DEF Memory, TypeOK, ControlOK
<1>3. Results(t)'
  BY <1>0, <1>1, <1>2 DEF Results
<1>4. Path(t)'
  BY <1>0, <1>1, <1>2, PathKept
<1> QED
  BY <1>0, <1>1, <1>2, <1>3, <1>4, WalkKept DEF Held

\* The frames that are left are some of those there were.
LEMMA PoppedFrames ==
    ASSUME Memory, NEW t \in Transients, stack[t] # <<>>, Pops(t)
    PROVE  /\ stack'[t] = SubSeq(stack[t], 1, Len(stack[t]) - 1)
           /\ Len(stack[t]) \in Nat \ {0}
           /\ Len(stack'[t]) = Len(stack[t]) - 1
           /\ \A k \in 1 .. Len(stack'[t]) : k \in 1 .. Len(stack[t]) /\ stack'[t][k] = stack[t][k]
           /\ \A u \in Transients \ {t} : stack'[u] = stack[u]
<1>1. stack \in [Transients -> Seq(FrameSet)] /\ Len(stack[t]) \in Nat \ {0}
      /\ stack[t] \in Seq(FrameSet)
  BY EmptySeq, LenProperties DEF Memory, TypeOK, ControlOK
<1>2. stack'[t] = SubSeq(stack[t], 1, Len(stack[t]) - 1)
      /\ \A u \in Transients \ {t} : stack'[u] = stack[u]
  BY <1>1 DEF Pops
<1> DEFINE r == SubSeq(stack[t], 1, Len(stack[t]) - 1)
<1>3. Len(r) = Len(stack[t]) - 1 /\ \A k \in 1 .. Len(r) : r[k] = stack[t][k]
  <2> DEFINE L == Len(stack[t]) - 1
  <2>1. L \in Int /\ L \in Nat /\ \A k \in 1 .. L : stack[t][k] \in FrameSet
    BY <1>1, ElementOfSeq
  <2> HIDE DEF L
  <2>2. Len(SubSeq(stack[t], 1, L)) = IF 1 <= L THEN L - 1 + 1 ELSE 0
    BY ONLY <2>1, SubSeqProperties
  <2>3. \A k \in 1 .. L - 1 + 1 : SubSeq(stack[t], 1, L)[k] = stack[t][1 + k - 1]
    BY ONLY <2>1, SubSeqProperties
  <2>4. Len(r) = L
    BY <2>1, <2>2 DEF L
  <2>5. \A k \in 1 .. L : k \in 1 .. L - 1 + 1 /\ 1 + k - 1 = k
    BY <2>1
  <2>6. \A k \in 1 .. L : r[k] = stack[t][k]
    BY <2>3, <2>5 DEF L
  <2> QED  BY <2>4, <2>6 DEF L
<1> QED
  BY <1>1, <1>2, <1>3

\* The node of the innermost frame: where it is, and who sees it.
LEMMA FrameHeld ==
    ASSUME NEW owner, MemInv(owner), NEW t \in Transients, NEW phase, AtNode(t, phase)
    PROVE  /\ Memory /\ Results(t) /\ Path(t) /\ Held(owner, t) /\ Owned(owner)
           /\ pc[t] = phase /\ ~Busy(t) /\ stack[t] # <<>> /\ root[t] \in NodeId
           /\ Frame(t) = stack[t][Len(stack[t])] /\ Len(stack[t]) \in Nat \ {0}
           /\ Frame(t).node \in NodeId /\ Placed(Frame(t).node) /\ refs[Frame(t).node] > 0
           /\ Sees(owner, t, Frame(t).node)
           /\ depth[Frame(t).node] = depth[root[t]] - Len(stack[t]) + 1
           /\ \A k \in 1 .. Len(stack[t]) - 1 :
                depth[stack[t][k].node] # depth[Frame(t).node]
<1>0. /\ Memory /\ Results(t) /\ Path(t) /\ Held(owner, t) /\ Owned(owner)
      /\ pc[t] = phase /\ ~Busy(t) /\ stack[t] # <<>>
  BY DEF MemInv, Threads, Owned, AtNode
<1>1. stack[t] \in Seq(FrameSet) /\ Len(stack[t]) \in Nat \ {0}
  BY <1>0, EmptySeq, LenProperties DEF Memory, TypeOK, ControlOK
<1>2. Len(stack[t]) \in 1 .. Len(stack[t]) /\ Frame(t) = stack[t][Len(stack[t])]
  BY <1>1 DEF Frame
<1>3. Frame(t).node \in NodeId /\ Placed(Frame(t).node) /\ Sees(owner, t, Frame(t).node)
  BY <1>0, <1>2, PathPlaced DEF Held
<1>4. refs[Frame(t).node] > 0
  BY <1>0, <1>3, HeldAlive
<1>5. root[t] \in NodeId
  <2>1. 1 \in 1 .. Len(stack[t])
    BY <1>1
  <2>2. root[t] = stack[t][1].node
    BY <1>0 DEF Path
  <2> QED  BY <1>0, <2>1, <2>2, PathPlaced
<1>6. depth[root[t]] \in Nat
  BY <1>0, <1>5 DEF Memory, TypeOK, NodesOK
<1>7. \A k \in 1 .. Len(stack[t]) : depth[stack[t][k].node] = depth[root[t]] - k + 1
  BY <1>0 DEF Path
<1>8. depth[Frame(t).node] = depth[root[t]] - Len(stack[t]) + 1
  BY <1>2, <1>7
<1>9. ASSUME NEW k \in 1 .. Len(stack[t]) - 1
      PROVE  depth[stack[t][k].node] # depth[Frame(t).node]
  <2>1. k \in 1 .. Len(stack[t])
    BY <1>1
  <2>2. depth[stack[t][k].node] = depth[root[t]] - k + 1
    BY <1>7, <2>1
  <2> QED  BY ONLY <1>1, <1>6, <1>8, <2>1, <2>2, k \in 1 .. Len(stack[t]) - 1
<1> QED
  BY <1>0, <1>1, <1>2, <1>3, <1>4, <1>5, <1>8, <1>9

\* The last child goes: the parent is to erase this node.
LEMMA InternalEraseOnlyKept ==
    ASSUME NEW owner \in Owner, MemInv(owner), TypeOK', NEW t \in Transients,
           InternalEraseOnly(t)
    PROVE  \E owner2 \in Owner : MemInv(owner2)'
<1>0. Memory /\ Results(t) /\ Path(t) /\ Held(owner, t) /\ stack[t] # <<>>
      /\ pc[t] = "erase" /\ ~Busy(t)
  BY FrameHeld DEF InternalEraseOnly
<1>1. /\ Pops(t) /\ pc' = [pc EXCEPT ![t] = "erase"]
      /\ UNCHANGED <<items, depth, persistent, refs, root, at, rightMost, ptr, right, drop, dying, marking>>
  BY DEF InternalEraseOnly, CallErase, nodes, trees, chores
<1>2. pc'[t] = "erase" /\ \A u \in Transients \ {t} : pc'[u] = pc[u]
  BY <1>0, <1>1 DEF Memory, TypeOK, ControlOK
<1>3. Results(t)'
  BY <1>0, <1>1, <1>2 DEF Results
<1>4. /\ stack'[t] = SubSeq(stack[t], 1, Len(stack[t]) - 1)
      /\ \A k \in 1 .. Len(stack'[t]) : Sees(owner, t, stack'[t][k].node)
      /\ \A u \in Transients \ {t} : stack'[u] = stack[u]
  BY <1>0, <1>1, PoppedFrames DEF Held
<1>5. Path(t)'
  BY <1>0, <1>1, <1>2, <1>4, PathPopped
<1> QED
  BY <1>0, <1>1, <1>2, <1>3, <1>4, <1>5, WalkKept

-----------------------------------------------------------------------------
(* New versions of nodes *)

\* A rewritten node is a free one, or the marked one stays and its owner writes in it.
LEMMA RewriteSplits ==
    ASSUME NEW owner, MemInv(owner), NEW t \in Transients,
           NEW n \in NodeId, refs[n] > 0, Sees(owner, t, n),
           NEW taken, NEW dst \in NodeId, Rewrites(n, dst, taken)
    PROVE  /\ persistent[n] => dst \in FreeNodes /\ dst \notin taken /\ dst # n
           /\ ~persistent[n] => dst = n /\ owner[n] = t
<1>1. n \notin FreeNodes
  BY DEF FreeNodes
<1>2. ~persistent[n] => owner[n] # NoOne
  BY DEF MemInv, Owned
<1> QED
  BY <1>1, <1>2 DEF Rewrites, Allocates, Sees

\* A free node is nowhere.
LEMMA FreeFacts ==
    ASSUME Memory, NEW n \in FreeNodes
    PROVE  /\ n \in NodeId /\ refs[n] = 0 /\ depth[n] = 1 /\ ~persistent[n] /\ ~Placed(n)
           /\ Children(n) = {}
           /\ \A t \in Transients : ptr[t] # n /\ right[t] # n /\ drop[t] # n
  BY HeldAlive DEF FreeNodes, Memory, FreeClean, Children

\* The children of a node that is copied are marked.
LEMMA SharedChildren ==
    ASSUME NEW owner, MemInv(owner), NEW t \in Transients, pc[t] # "persist",
           NEW n \in NodeId, persistent[n], Sees(owner, t, n), NEW c \in Children(n)
    PROVE  c \in NodeId /\ refs[c] > 0 /\ Placed(c) /\ persistent[c]
<1>1. Memory /\ Owned(owner) /\ Marked(owner, t)
  BY DEF MemInv, Owned
<1>2. c \in NodeId
  <2>1. depth[n] # 1
    BY DEF Children
  <2>2. items[n] \in Seq(NodeId)
    BY <1>1, <2>1 DEF Memory, TypeOK, NodesOK
  <2> QED  BY <2>1, <2>2, ElementOfSeq DEF Children
<1>3. refs[c] > 0 /\ Placed(c)
  BY <1>1, <1>2, HeldAlive DEF Placed
<1>4. owner[n] = NoOne
  BY <1>1 DEF Marked, Sees
<1>5. owner[c] = NoOne
  BY <1>1, <1>4 DEF Owned
<1> QED
  BY <1>1, <1>2, <1>3, <1>5 DEF Owned

\* The nodes a new version of n, and R besides, make.
Made(n, dst, R) == R \cup (IF persistent[n] THEN {dst} ELSE {})

\* A node with its new right half, in place or copied.
LEMMA RewriteWorks ==
    ASSUME NEW owner, MemInv(owner), TypeOK', NEW t \in Transients,
           pc[t] # "persist", ~Busy(t),
           NEW n \in NodeId, refs[n] > 0, Sees(owner, t, n),
           NEW R, R \subseteq FreeNodes,
           NEW dst \in NodeId, Rewrites(n, dst, R),
           Makes({dst} \cup R, depth[n]),
           \A m \in NodeId \ ({dst} \cup R) : items'[m] = items[m],
           NEW K, K \subseteq Children(n),
           refs' = IF persistent[n] THEN Counted({dst} \cup R, K) ELSE Counted(R, {}),
           Waits(t), UNCHANGED <<dying, marking>>,
           Reaches(owner, t, Made(n, dst, R)), Shares,
           \A m \in {dst} \cup R :
               \/ depth[n] = 1
               \/ /\ Distinct(items'[m])
                  /\ \A c \in Children(m)' :
                       refs[c] > 0 /\ Sees(owner, t, c) /\ depth[n] = depth[c] + 1
    PROVE  Works(owner, t, Made(n, dst, R), {dst} \cup R)
<1> DEFINE F == Made(n, dst, R)
           W == {dst} \cup R
<1>0. Memory /\ marking[t] = <<>> /\ depth[n] \in Nat
  BY DEF MemInv, Threads, Results, Memory, TypeOK, NodesOK
<1>1. /\ persistent[n] => dst \in FreeNodes /\ dst \notin R /\ dst # n /\ F = W
      /\ ~persistent[n] => dst = n /\ owner[n] = t /\ F = R
      /\ n \notin FreeNodes
  BY RewriteSplits DEF Made, FreeNodes
<1>2. /\ W \subseteq NodeId /\ F \subseteq FreeNodes /\ F \subseteq W
      /\ W \ F \subseteq {n} /\ (n \in W \ F => ~persistent[n])
      /\ n \notin F
  BY <1>1 DEF FreeNodes
<1>3. \A m \in NodeId : /\ depth'[m] = IF m \in W THEN depth[n] ELSE depth[m]
                        /\ persistent'[m] = IF m \in W THEN FALSE ELSE persistent[m]
  BY DEF Makes, MemInv, Memory, TypeOK, NodesOK
<1>4. \A m \in NodeId :
         refs'[m] = IF m \in F THEN 1
                    ELSE IF persistent[n] /\ m \in K THEN refs[m] + 1 ELSE refs[m]
  BY <1>1 DEF Counted
<1>5. persistent[n] => \A m \in K : m \in NodeId /\ refs[m] > 0 /\ Placed(m) /\ persistent[m]
  BY SharedChildren
<1> HIDE DEF F, W
<1>6. Writes(owner, t, F, W)
  <2>1. \A m \in NodeId \ W : Kept(m)
    BY <1>3 DEF Kept, W
  <2>2. \A m \in F : refs'[m] = 1 /\ ~persistent'[m]
    BY <1>2, <1>3, <1>4
  <2>3. ASSUME NEW m \in W \ F
        PROVE  /\ Sees(owner, t, m)
               /\ m \notin FreeNodes
               /\ ~persistent[m]
               /\ refs[m] > 0 => depth'[m] = depth[m]
    BY <1>1, <1>2, <1>3
  <2>4. \A m \in NodeId \ F : refs'[m] = refs[m] \/ Placed(m) \/ drop[t] = m
    BY <1>4, <1>5
  <2> QED  BY <1>2, <2>1, <2>2, <2>3, <2>4 DEF Writes
<1>7. Forms(owner, t, F, W)
  <2> SUFFICES ASSUME NEW m \in W
               PROVE  /\ depth'[m] = 1
                         \/ /\ Distinct(items'[m])
                            /\ \A c \in Children(m)' :
                                 refs[c] > 0 /\ Sees(owner, t, c) /\ depth'[m] = depth[c] + 1
                      /\ ~(m \notin F /\ (refs[m] = 0 \/ persistent[m]))
    BY DEF Forms
  <2>1. m \in NodeId /\ depth'[m] = depth[n]
    BY <1>2, <1>3
  <2>2. ~(m \notin F /\ (refs[m] = 0 \/ persistent[m]))
    BY <1>2
  <2> QED  BY <2>1, <2>2 DEF W
<1>8. \A m \in NodeId : refs'[m] >= refs[m]
  <2>1. \A m \in F : m \in NodeId => refs[m] = 0
    BY <1>2 DEF FreeNodes
  <2>2. \A m \in NodeId : refs[m] \in Nat
    BY <1>0, RefsNat
  <2> QED  BY ONLY <1>4, <2>1, <2>2
<1>9. \A m \in W : refs'[m] > 0 /\ ~persistent'[m]
  <2> SUFFICES ASSUME NEW m \in W PROVE refs'[m] > 0 /\ ~persistent'[m]
    OBVIOUS
  <2>1. m \in NodeId /\ ~persistent'[m]
    BY <1>2, <1>3
  <2>2. CASE m \in F
    BY ONLY <1>4, <2>1, <2>2
  <2>3. CASE m \notin F
    <3>1. m = n /\ ~persistent[n]
      BY <1>2, <2>3
    <3> QED  BY ONLY <1>4, <2>1, <2>3, <3>1, refs[n] > 0
  <2> QED  BY <2>1, <2>2, <2>3
<1>10. \A m \in NodeId \ F : refs'[m] = refs[m] \/ persistent[m]
  BY <1>4, <1>5
<1>11. Reaches(owner, t, F)
  BY DEF F
<1>12. Works(owner, t, F, W)
  BY <1>0, <1>6, <1>7, <1>8, <1>9, <1>10, <1>11 DEF Works
<1> QED
  BY <1>12 DEF F, W

-----------------------------------------------------------------------------
(* The leaf *)

\* A leaf has a new version dst, and a right half rr unless rr is Nil.
LEMMA LeafKept ==
    ASSUME NEW owner \in Owner, MemInv(owner), TypeOK', NEW t \in Transients,
           pc[t] = "descend", ~Busy(t), depth[at[t]] = 1,
           NEW rr \in Pointer, NEW R, R = {rr} \ {Nil}, R \subseteq FreeNodes,
           NEW dst \in NodeId, Rewrites(at[t], dst, R),
           Makes({dst} \cup R, 1),
           \A m \in NodeId \ ({dst} \cup R) : items'[m] = items[m],
           refs' = Counted((IF persistent[at[t]] THEN {dst} ELSE {}) \cup R, {}),
           NEW phase, phase = IF rr = Nil THEN "replace" ELSE "split",
           pc' = [pc EXCEPT ![t] = phase],
           ptr' = [ptr EXCEPT ![t] = Changed(at[t], dst)],
           right' = [right EXCEPT ![t] = rr],
           LeavesLeaf(t)
    PROVE  \E owner2 \in Owner : MemInv(owner2)'
<1> DEFINE n == at[t]
           F == Made(n, dst, R)
           W == {dst} \cup R
<1>0. Memory /\ Results(t) /\ Path(t) /\ Held(owner, t)
  BY DEF MemInv, Threads, Owned
<1>1. n \in NodeId /\ Placed(n) /\ refs[n] > 0 /\ Sees(owner, t, n)
  BY <1>0, PathPlaced, HeldAlive DEF Held
<1>2. /\ persistent[n] => dst \in FreeNodes /\ dst \notin R /\ dst # n /\ F = W
      /\ ~persistent[n] => dst = n /\ owner[n] = t /\ F = R
  BY <1>1, RewriteSplits DEF Made
<1>3. /\ pc'[t] = phase /\ ptr'[t] = Changed(n, dst) /\ right'[t] = rr
      /\ UNCHANGED <<stack, root, drop, dying, marking>>
      /\ Waits(t)
  BY <1>0 DEF LeavesLeaf, chores, Waits, Memory, TypeOK, ControlOK, ResultOK
<1>4. ptr[t] = Nil /\ right[t] = Nil /\ marking[t] = <<>> /\ drop[t] = Nil
  BY <1>0 DEF Results, Busy
<1>5. refs' = IF persistent[n] THEN Counted({dst} \cup R, {}) ELSE Counted(R, {})
  <2>1. ({dst} \cup R) = (IF persistent[n] THEN {dst} ELSE {}) \cup R \/ ~persistent[n]
    OBVIOUS
  <2>2. R = (IF persistent[n] THEN {dst} ELSE {}) \cup R \/ persistent[n]
    OBVIOUS
  <2> QED  BY <2>1, <2>2
<1>6. Reaches(owner, t, F)
  <2>1. Changed(n, dst) \in F \/ Changed(n, dst) = Nil
    BY <1>2 DEF Changed
  <2>2. rr \in F \/ rr = Nil
    BY <1>2
  <2>3. phase # "descend"
    OBVIOUS
  <2> HIDE DEF F
  <2> QED
    BY <1>0, <1>3, <2>1, <2>2, <2>3, NodePointer DEF Reaches, Found, Held, Sees
<1>7. Shares
  BY <1>3 DEF Shares
<1>8. Works(owner, t, F, W)
  <2>1. Makes({dst} \cup R, depth[n])
    OBVIOUS
  <2>2. pc[t] # "persist" /\ UNCHANGED <<dying, marking>>
    BY <1>3
  <2>3. {} \subseteq Children(n)
    OBVIOUS
  <2>4. \A m \in {dst} \cup R :
               \/ depth[n] = 1
               \/ /\ Distinct(items'[m])
                  /\ \A c \in Children(m)' :
                       refs[c] > 0 /\ Sees(owner, t, c) /\ depth[n] = depth[c] + 1
    OBVIOUS
  <2>5. PICK K : K = {}
    OBVIOUS
  <2>6. K \subseteq Children(n)
        /\ refs' = IF persistent[n] THEN Counted({dst} \cup R, K) ELSE Counted(R, {})
    BY <1>5, <2>5
  <2>8. Rewrites(n, dst, R)
    OBVIOUS
  <2> HIDE DEF n
  <2>7. Works(owner, t, Made(n, dst, R), {dst} \cup R)
    BY <1>1, <1>3, <1>6, <1>7, <2>1, <2>2, <2>4, <2>6, <2>8, RewriteWorks
  <2> QED  BY <2>7
<1>9. /\ \A m \in NodeId : depth'[m] = IF m \in W THEN 1 ELSE depth[m]
      /\ \A m \in NodeId : persistent'[m] = IF m \in W THEN FALSE ELSE persistent[m]
  BY <1>0 DEF Makes, Memory, TypeOK, NodesOK
<1>10. \A m \in NodeId : refs'[m] = IF m \in F THEN 1 ELSE refs[m]
  BY <1>2, <1>5 DEF Counted
<1>11. /\ \A m \in F : m \in NodeId /\ refs[m] = 0 /\ ~Placed(m)
       /\ \A m \in W : m \in NodeId /\ depth[m] = 1 /\ Children(m) = {} /\ Children(m)' = {}
  <2>1. F \subseteq FreeNodes
    BY <1>2
  <2>2. \A m \in W : m \in NodeId /\ depth[m] = 1
    BY <1>0, <1>2, FreeFacts
  <2>3. \A m \in W : Children(m) = {} /\ Children(m)' = {}
    BY <1>9, <2>2 DEF Children
  <2> QED  BY <1>0, <2>1, <2>2, <2>3, FreeFacts
<1>12. Counts(t, t, dst, rr)
  <2> SUFFICES ASSUME NEW m \in NodeId
               PROVE  refs'[m] + Ones(t, t, dst, rr, m) = refs[m] + Ones(t, t, dst, rr, m)'
    BY DEF Counts
  <2>1. Ones(t, t, dst, rr, m) = One(root[t] = m)
    <3>1. ptr[t] # m /\ right[t] # m /\ drop[t] # m
      BY <1>4, NodePointer
    <3>2. rr \in NodeId => rr \in W
      BY NodePointer
    <3>3. m \notin Children(dst) /\ (rr \in NodeId => m \notin Children(rr))
      BY <1>11, <3>2
    <3>4. One(root[t] = m) \in Nat
      BY DEF One
    <3> QED  BY <3>1, <3>3, <3>4 DEF Ones, One
  <2>2. Ones(t, t, dst, rr, m)' = One(root[t] = m) + One(Changed(n, dst) = m) + One(rr = m)
    <3>1. drop'[t] # m
      BY <1>3, <1>4, NodePointer
    <3>2. rr \in NodeId => rr \in W
      BY NodePointer
    <3>3. m \notin Children(dst)' /\ (rr \in NodeId => m \notin Children(rr)')
      BY <1>11, <3>2
    <3> QED  BY <1>3, <3>1, <3>3 DEF Ones, One
  <2>3. refs'[m] = refs[m] + One(Changed(n, dst) = m) + One(rr = m)
    <3>1. refs[m] \in Nat
      BY <1>0, RefsNat
    <3>2. CASE m \in F
      <4>1. refs[m] = 0 /\ refs'[m] = 1
        BY <1>10, <1>11, <3>2
      <4>2. CASE m = rr
        <5>1. Changed(n, dst) # m
          BY <1>2, <4>2, NodePointer DEF Changed
        <5> QED  BY <4>1, <4>2, <5>1 DEF One
      <4>3. CASE m # rr
        <5>1. Changed(n, dst) = m
          BY <3>2, <4>3, <1>2 DEF Changed, Made
        <5> QED  BY <4>1, <4>3, <5>1 DEF One
      <4> QED  BY <4>2, <4>3
    <3>3. CASE m \notin F
      <4>1. Changed(n, dst) # m /\ rr # m
        BY <1>2, <3>3, NodePointer DEF Changed
      <4>2. refs'[m] = refs[m]
        BY <1>10, <3>3
      <4> QED  BY <3>1, <4>1, <4>2 DEF One
    <3> QED  BY <3>2, <3>3
  <2>4. refs[m] \in Nat /\ \A x : One(x) \in Nat
    BY <1>0, RefsNat DEF One
  <2> QED  BY ONLY <2>1, <2>2, <2>3, <2>4
<1>13. root[t] \in NodeId /\ depth'[root[t]] = depth[root[t]]
  <2>1. root[t] # Nil
    BY <1>0 DEF Memory, TypeOK, PhaseOK
  <2>2. root[t] \in NodeId /\ refs[root[t]] > 0
    BY <1>0, <2>1, PathPlaced, HeldAlive
  <2> QED  BY <1>8, <2>2, AliveDepth DEF Works
<1>14. Path(t)'
  <2>1. \A k \in 1 .. Len(stack[t]) : stack[t][k].node \in NodeId /\ stack[t][k].node \notin W
    BY <1>0, <1>11, PathPlaced DEF Path
  <2>2. \A k \in 1 .. Len(stack[t]) :
          LET m == stack[t][k].node IN items'[m] = items[m] /\ depth'[m] = depth[m]
    BY <1>9, <2>1
  <2> QED  BY <1>0, <1>3, <1>13, <2>2, PathKept
<1>15. Results(t)'
  <2>1. Height(t)' = 1
    BY <1>0, <1>3, <1>13 DEF Height, Path
  <2>2. ASSUME NEW m \in F PROVE Fresh(m)' /\ depth'[m] = 1
    BY <1>2, <1>9, <1>10, <1>11, <2>2 DEF Fresh
  <2>3. Changed(n, dst) # Nil => Changed(n, dst) \in F
    BY <1>2 DEF Changed
  <2>4. rr # Nil => rr \in F
    BY <1>2
  <2> HIDE DEF F
  <2>5. /\ ptr'[t] # Nil => Fresh(ptr[t])' /\ depth'[ptr'[t]] = 1
        /\ right'[t] # Nil => Fresh(right[t])' /\ depth'[right'[t]] = 1
    BY <1>3, <2>2, <2>3, <2>4 DEF Fresh
  <2>6. (pc[t] = "split" /\ ptr[t] = Nil /\ stack[t] # <<>> => ~persistent[FrameItem(t)])'
    <3> SUFFICES ASSUME ptr'[t] = Nil, stack[t] # <<>> PROVE ~persistent'[FrameItem(t)']
      BY <1>3
    <3>1. FrameItem(t) = n
      BY <1>0 DEF Path, FrameItem
    <3>2. Frame(t)' = Frame(t)
      BY <1>3 DEF Frame
    <3>3. items'[Frame(t).node] = items[Frame(t).node]
      <4>1. Len(stack[t]) \in 1 .. Len(stack[t]) /\ Frame(t) = stack[t][Len(stack[t])]
        BY <1>0, PathPlaced
      <4>2. Path(t) /\ \A m \in W : depth[m] = 1
        BY <1>0, <1>11
      <4>3. depth[Frame(t).node] > 1
        BY ONLY <4>1, <4>2 DEF Path
      <4>4. Frame(t).node \in NodeId
        BY <1>0, <4>1, PathPlaced
      <4>5. Frame(t).node \notin W
        BY ONLY <4>2, <4>3
      <4> QED  BY <1>9, <4>4, <4>5
    <3>4. FrameItem(t)' = n
      BY <3>1, <3>2, <3>3 DEF FrameItem
    <3>5. dst = n
      BY <1>2, <1>3, NodePointer DEF Changed
    <3> QED  BY <1>1, <1>9, <3>4, <3>5
  <2> QED  BY <1>3, <1>4, <2>1, <2>5, <2>6 DEF Results
<1> QED
  <2>1. W \subseteq {dst, rr} /\ t \in Handle
    BY DEF Handle
  <2>2. \A g \in Handle \ {t} : root'[g] = root[g]
    BY <1>3
  <2> QED  BY <1>8, <1>12, <1>14, <1>15, <2>1, <2>2, WorkKept

\* A leaf is written where the step before has put the thread.
LEMMA LeafReplaceKept ==
    ASSUME NEW owner \in Owner, MemInv(owner), TypeOK', NEW t \in Transients,
           NEW names, AtLeaf(t, names), NEW new, NEW c,
           NEW dst \in NodeId, Rewrites(at[t], dst, {}),
           items' = [items EXCEPT ![dst] = new],
           Makes({dst}, 1),
           refs' = CountedLeaf(at[t], dst, {}),
           CallReplace(t, Changed(at[t], dst), c),
           LeavesLeaf(t)
    PROVE  \E owner2 \in Owner : MemInv(owner2)'
<1> DEFINE n == at[t]
<1>1. pc[t] = "descend" /\ ~Busy(t) /\ depth[n] = 1
  BY DEF AtLeaf
<1>2. PICK R : R = {Nil} \ {Nil}
  OBVIOUS
<1>3. R = {} /\ R \subseteq FreeNodes /\ {dst} \cup R = {dst} /\ Nil \in Pointer
  BY <1>2 DEF Pointer
<1>4. Rewrites(n, dst, R) /\ Makes({dst} \cup R, 1)
      /\ refs' = Counted((IF persistent[n] THEN {dst} ELSE {}) \cup R, {})
  BY <1>3 DEF CountedLeaf
<1>5. \A m \in NodeId \ ({dst} \cup R) : items'[m] = items[m]
  BY <1>3 DEF MemInv, Memory, TypeOK, NodesOK
<1>6. /\ pc' = [pc EXCEPT ![t] = IF Nil = Nil THEN "replace" ELSE "split"]
      /\ ptr' = [ptr EXCEPT ![t] = Changed(n, dst)]
      /\ right' = [right EXCEPT ![t] = Nil]
  BY DEF CallReplace
<1> QED
  BY <1>1, <1>2, <1>3, <1>4, <1>5, <1>6, LeafKept

\* Every step at a leaf.
LEMMA LeafStepKept ==
    ASSUME NEW owner \in Owner, MemInv(owner), TypeOK', NEW t \in Transients,
           NEW i, NEW v, LeafStep(t, i, v)
    PROVE  \E owner2 \in Owner : MemInv(owner2)'
<1> DEFINE n == at[t]
<1>1. CASE LeafInsert(t, i, v)
  <2>1. PICK dst \in NodeId :
          /\ Rewrites(n, dst, {})
          /\ items' = [items EXCEPT ![dst] = InsertItem(items[n], i, v)]
          /\ Makes({dst}, 1)
          /\ refs' = CountedLeaf(n, dst, {})
          /\ CallReplace(t, Changed(n, dst), FALSE)
    BY <1>1 DEF LeafInsert
  <2>2. AtLeaf(t, Inserting) /\ LeavesLeaf(t)
    BY <1>1 DEF LeafInsert
  <2> QED  BY <2>1, <2>2, LeafReplaceKept
<1>2. CASE LeafAssign(t, i, v)
  <2>1. PICK dst \in NodeId :
          /\ Rewrites(n, dst, {})
          /\ items' = [items EXCEPT ![dst] = ReplaceItem(items[n], i, v)]
          /\ Makes({dst}, 1)
          /\ refs' = CountedLeaf(n, dst, {})
          /\ CallReplace(t, Changed(n, dst), FALSE)
    BY <1>2 DEF LeafAssign
  <2>2. AtLeaf(t, Assigning) /\ LeavesLeaf(t)
    BY <1>2 DEF LeafAssign
  <2> QED  BY <2>1, <2>2, LeafReplaceKept
<1>3. CASE LeafErase(t, i)
  <2> DEFINE c == LeafCarry(i, Len(items[n]) - 1, rightMost[t])
  <2>1. PICK dst \in NodeId :
          /\ Rewrites(n, dst, {})
          /\ items' = [items EXCEPT ![dst] = EraseItem(items[n], i)]
          /\ Makes({dst}, 1)
          /\ refs' = CountedLeaf(n, dst, {})
          /\ CallReplace(t, Changed(n, dst), c)
    BY <1>3 DEF LeafErase
  <2>2. AtLeaf(t, {"erase", "pop_back"}) /\ LeavesLeaf(t)
    BY <1>3 DEF LeafErase
  <2> QED  BY <2>1, <2>2, LeafReplaceKept
<1>4. CASE LeafSplit(t, i, v)
  <2> DEFINE sp == LeafSplitPoint(i, rightMost[t])
             all == InsertItem(items[n], i, v)
  <2>1. PICK r \in NodeId, dst \in NodeId :
          /\ Allocates(r, {})
          /\ Rewrites(n, dst, {r})
          /\ items' = [items EXCEPT ![dst] = LeftPart(all, sp), ![r] = RightPart(all, sp)]
          /\ Makes({dst, r}, 1)
          /\ refs' = CountedLeaf(n, dst, {r})
          /\ CallSplit(t, Changed(n, dst), r, i < sp)
    BY <1>4 DEF LeafSplit
  <2>2. pc[t] = "descend" /\ ~Busy(t) /\ depth[n] = 1 /\ LeavesLeaf(t)
    BY <1>4 DEF LeafSplit, AtLeaf
  <2>3. PICK R : R = {r} \ {Nil}
    OBVIOUS
  <2>4. R = {r} /\ R \subseteq FreeNodes /\ {dst} \cup R = {dst, r} /\ r \in Pointer /\ r # Nil
    BY <2>1, <2>3, NodePointer DEF Pointer, Allocates
  <2>5. Rewrites(n, dst, R) /\ Makes({dst} \cup R, 1)
        /\ refs' = Counted((IF persistent[n] THEN {dst} ELSE {}) \cup R, {})
    BY <2>1, <2>4 DEF CountedLeaf
  <2>6. \A m \in NodeId \ ({dst} \cup R) : items'[m] = items[m]
    BY <2>1, <2>4 DEF MemInv, Memory, TypeOK, NodesOK
  <2>7. /\ pc' = [pc EXCEPT ![t] = IF r = Nil THEN "replace" ELSE "split"]
        /\ ptr' = [ptr EXCEPT ![t] = Changed(n, dst)]
        /\ right' = [right EXCEPT ![t] = r]
    BY <2>1, <2>4 DEF CallSplit
  <2> QED
    BY <2>2, <2>3, <2>4, <2>5, <2>6, <2>7, LeafKept
<1>5. CASE LeafEraseOnly(t, i)
  BY <1>5, LeafEraseOnlyKept
<1> QED
  BY <1>1, <1>2, <1>3, <1>4, <1>5 DEF LeafStep

-----------------------------------------------------------------------------
(* The inner nodes *)

\* What the continuation of an inner node holds: the child of its frame, and the
\* nodes of the result, which it alone knows and which are of the level below.
LEMMA InnerHeld ==
    ASSUME NEW owner, MemInv(owner), NEW t \in Transients, NEW phase, AtNode(t, phase),
           phase \in {"replace", "split", "erase"}
    PROVE  LET n == Frame(t).node IN
           /\ \A m \in Children(n) :
                /\ m \in NodeId /\ refs[m] > 0 /\ Placed(m) /\ Sees(owner, t, m)
                /\ depth[n] = depth[m] + 1
           /\ FrameItem(t) \in Children(n)
           /\ \A m \in NodeId : m = ptr[t] \/ m = right[t] =>
                /\ refs[m] = 1 /\ ~Placed(m) /\ Sees(owner, t, m)
                /\ depth[n] = depth[m] + 1
           /\ ptr[t] \in Pointer /\ right[t] \in Pointer
           /\ ptr[t] # Nil => ptr[t] # right[t]
           /\ phase = "erase" => ptr[t] = Nil
           /\ phase # "split" => right[t] = Nil
           /\ drop[t] = Nil /\ marking[t] = <<>> /\ Height(t) = depth[n] - 1
           /\ depth[n] \in Nat /\ depth[n] > 1 /\ items[n] \in Seq(NodeId)
           /\ Distinct(items[n])
<1> DEFINE n == Frame(t).node
<1>0. /\ Memory /\ Results(t) /\ Path(t) /\ Held(owner, t) /\ Owned(owner)
      /\ pc[t] = phase /\ ~Busy(t) /\ stack[t] # <<>> /\ root[t] \in NodeId
      /\ Len(stack[t]) \in Nat \ {0}
      /\ n \in NodeId /\ Sees(owner, t, n)
      /\ depth[n] = depth[root[t]] - Len(stack[t]) + 1
  BY FrameHeld
<1>1. /\ depth[n] \in Nat /\ depth[n] > 1 /\ depth[root[t]] \in Nat
      /\ ptr[t] \in Pointer /\ right[t] \in Pointer
  BY <1>0 DEF AtNode, Memory, TypeOK, NodesOK, ResultOK
<1>2. items[n] \in Seq(NodeId)
  BY <1>0, <1>1 DEF Memory, TypeOK, NodesOK
<1>3. n \in Inner /\ Distinct(items[n])
  BY <1>0, <1>1 DEF Inner, Memory, Siblings
<1>4. FrameItem(t) \in Children(n)
  BY <1>0, PathPlaced
<1> HIDE DEF n
<1>5. ASSUME NEW m \in Children(n)
      PROVE  /\ m \in NodeId /\ refs[m] > 0 /\ Placed(m) /\ Sees(owner, t, m)
             /\ depth[n] = depth[m] + 1
  <2>1. m \in NodeId
    BY <1>2, ElementOfSeq DEF Children
  <2>2. Placed(m)
    BY <1>0 DEF Placed
  <2>3. refs[m] > 0
    BY <1>0, <2>1, <2>2, HeldAlive
  <2>4. Sees(owner, t, m)
    BY <1>0 DEF Owned, Sees
  <2>5. depth[n] = depth[m] + 1
    BY <1>0, <1>3 DEF Memory, Levels
  <2> QED  BY <2>1, <2>2, <2>3, <2>4, <2>5
<1>6. Height(t) = depth[n] - 1
  BY <1>0, <1>1 DEF Height
<1>7. /\ ptr[t] # Nil => phase # "erase" /\ Fresh(ptr[t]) /\ depth[ptr[t]] = Height(t)
      /\ right[t] # Nil => phase = "split" /\ Fresh(right[t]) /\ depth[right[t]] = Height(t)
      /\ drop[t] = Nil /\ marking[t] = <<>>
  BY <1>0 DEF Results, Busy
<1>8. ASSUME NEW m \in NodeId, m = ptr[t] \/ m = right[t]
      PROVE  /\ refs[m] = 1 /\ ~Placed(m) /\ Sees(owner, t, m)
             /\ depth[n] = depth[m] + 1
  <2>1. refs[m] = 1 /\ depth[m] = depth[n] - 1
    BY <1>6, <1>7, <1>8, NodePointer DEF Fresh
  <2>2. ~Placed(m)
    BY <1>0, <1>8, <2>1, SoleResult
  <2>3. Sees(owner, t, m)
    BY <1>0, <1>8 DEF Held
  <2>4. depth[m] \in Nat
    BY <1>0 DEF Memory, TypeOK, NodesOK
  <2> QED  BY <1>1, <2>1, <2>2, <2>3, <2>4
<1>9. ptr[t] # Nil => ptr[t] # right[t]
  <2> SUFFICES ASSUME ptr[t] # Nil PROVE ptr[t] # right[t]
    OBVIOUS
  <2>1. ptr[t] \in NodeId /\ refs[ptr[t]] = 1
    BY <1>1, <1>8 DEF Pointer
  <2> QED  BY <1>0, <2>1, SoleBoth
<1> QED
  BY <1>0, <1>1, <1>2, <1>3, <1>4, <1>5, <1>6, <1>7, <1>8, <1>9 DEF n

\* Inner node n, whose continuation t calls, has a new version dst, and a right half
\* rr unless rr is Nil: children K, those it had but the lost one, and the result's.
Renews(t, phase, n, lost, K, rr, R, dst) ==
    /\ n = Frame(t).node
    /\ lost = IF ptr[t] # Nil \/ phase = "erase" THEN FrameItem(t) ELSE Nil
    /\ K = Children(n) \ {lost}
    /\ rr \in Pointer /\ R = {rr} \ {Nil} /\ R \subseteq FreeNodes
    /\ dst \in NodeId /\ Rewrites(n, dst, R)
    /\ Makes({dst} \cup R, depth[n])
    /\ \A m \in NodeId \ ({dst} \cup R) : items'[m] = items[m]
    /\ refs' = IF persistent[n] THEN Counted({dst} \cup R, K) ELSE Counted(R, {})
    /\ \A m \in {dst} \cup R : Distinct(items'[m])
    /\ \A m \in NodeId :
         m \in Children(dst)' \/ (rr # Nil /\ m \in Children(rr)')
           <=> m \in K \/ m = ptr[t] \/ m = right[t]
    /\ \A m \in NodeId : rr # Nil => ~(m \in Children(dst)' /\ m \in Children(rr)')
    /\ pc' = [pc EXCEPT ![t] = IF rr = Nil THEN "replace" ELSE "split"]
    /\ ptr' = [ptr EXCEPT ![t] = Changed(n, dst)]
    /\ right' = [right EXCEPT ![t] = rr]
    /\ \A u \in Transients \ {t} : at'[u] = at[u]
    /\ Drops(t, IF persistent[n] THEN Nil ELSE lost) /\ Pops(t)
    /\ UNCHANGED <<root, rightMost, dying, marking>>

\* The continuation of an inner node, whichever it is.
LEMMA InnerKept ==
    ASSUME NEW owner \in Owner, MemInv(owner), TypeOK', NEW t \in Transients,
           NEW phase \in {"replace", "split", "erase"}, AtNode(t, phase),
           NEW n, NEW lost, NEW K, NEW rr, NEW R, NEW dst,
           Renews(t, phase, n, lost, K, rr, R, dst)
    PROVE  \E owner2 \in Owner : MemInv(owner2)'
<1> USE DEF Renews
<1> DEFINE F == Made(n, dst, R)
           W == {dst} \cup R
<1>0. /\ Memory /\ Results(t) /\ Path(t) /\ Held(owner, t) /\ Owned(owner)
      /\ pc[t] = phase /\ ~Busy(t) /\ stack[t] # <<>> /\ root[t] \in NodeId
      /\ Frame(t) = stack[t][Len(stack[t])] /\ Len(stack[t]) \in Nat \ {0}
      /\ n \in NodeId /\ Placed(n) /\ refs[n] > 0 /\ Sees(owner, t, n)
      /\ depth[n] = depth[root[t]] - Len(stack[t]) + 1
      /\ \A k \in 1 .. Len(stack[t]) - 1 : depth[stack[t][k].node] # depth[n]
  BY FrameHeld
<1>1. /\ \A m \in Children(n) :
                /\ m \in NodeId /\ refs[m] > 0 /\ Placed(m) /\ Sees(owner, t, m)
                /\ depth[n] = depth[m] + 1
      /\ FrameItem(t) \in Children(n)
      /\ \A m \in NodeId : m = ptr[t] \/ m = right[t] =>
                /\ refs[m] = 1 /\ ~Placed(m) /\ Sees(owner, t, m)
                /\ depth[n] = depth[m] + 1
      /\ ptr[t] \in Pointer /\ right[t] \in Pointer
      /\ ptr[t] # Nil => ptr[t] # right[t]
      /\ phase = "erase" => ptr[t] = Nil
      /\ drop[t] = Nil /\ marking[t] = <<>> /\ Height(t) = depth[n] - 1
      /\ depth[n] \in Nat /\ depth[n] > 1 /\ items[n] \in Seq(NodeId)
  BY InnerHeld
<1>2. /\ persistent[n] => dst \in FreeNodes /\ dst \notin R /\ dst # n /\ F = W
      /\ ~persistent[n] => dst = n /\ owner[n] = t /\ F = R
  <2>1. Rewrites(n, dst, R) /\ dst \in NodeId
    OBVIOUS
  <2>2. /\ persistent[n] => dst \in FreeNodes /\ dst \notin R /\ dst # n
        /\ ~persistent[n] => dst = n /\ owner[n] = t
    BY ONLY <1>0, <2>1, MemInv(owner), t \in Transients, RewriteSplits
  <2> QED  BY ONLY <2>2 DEF Made
<1>3. /\ pc'[t] = IF rr = Nil THEN "replace" ELSE "split"
      /\ ptr'[t] = Changed(n, dst) /\ right'[t] = rr
      /\ drop'[t] = IF persistent[n] THEN Nil ELSE lost
  BY <1>0 DEF Drops, Memory, TypeOK, ControlOK, ResultOK, ChoresOK
<1>4. Waits(t)
  BY <1>0, PoppedFrames DEF Waits, Drops, Memory, TypeOK, ControlOK, ResultOK, ChoresOK
<1>5. /\ stack'[t] = SubSeq(stack[t], 1, Len(stack[t]) - 1)
      /\ Len(stack'[t]) = Len(stack[t]) - 1
      /\ \A k \in 1 .. Len(stack'[t]) : k \in 1 .. Len(stack[t]) /\ stack'[t][k] = stack[t][k]
  BY <1>0, PoppedFrames
<1>6. Reaches(owner, t, F)
  <2>1. Changed(n, dst) \in F \/ Changed(n, dst) = Nil
    BY <1>2 DEF Changed
  <2>2. rr \in F \/ rr = Nil
    BY <1>2
  <2>3. Found(owner, t, F, drop'[t])
    <3>1. drop'[t] = Nil \/ drop'[t] \in Children(n)
      BY <1>1, <1>3
    <3> QED  BY <1>1, <3>1, NodePointer DEF Found, Sees
  <2>4. pc'[t] # "descend"
    BY <1>3
  <2>5. \A k \in 1 .. Len(stack'[t]) : Found(owner, t, F, stack'[t][k].node)
    BY <1>0, <1>5 DEF Found, Held
  <2>6. \A k \in 1 .. Len(dying'[t]) : Found(owner, t, F, dying'[t][k])
    BY <1>0 DEF Found, Held
  <2>7. Found(owner, t, F, root'[t])
    BY <1>0 DEF Found, Held
  <2> HIDE DEF F
  <2> QED
    BY <1>3, <2>1, <2>2, <2>3, <2>4, <2>5, <2>6, <2>7, NodePointer DEF Reaches, Found, Sees
<1>7. Shares
  BY DEF Shares
<1>8. Works(owner, t, F, W)
  <2>1. ASSUME NEW m \in W
        PROVE  /\ Distinct(items'[m])
               /\ \A c \in Children(m)' :
                    refs[c] > 0 /\ Sees(owner, t, c) /\ depth[n] = depth[c] + 1
    <3>1. m \in NodeId /\ depth'[m] = depth[n]
      BY <1>0, <1>2 DEF Makes, FreeNodes
    <3>2. items'[m] \in Seq(NodeId)
      BY <1>1, <3>1 DEF TypeOK, NodesOK
    <3> SUFFICES ASSUME NEW c \in Children(m)'
                 PROVE  refs[c] > 0 /\ Sees(owner, t, c) /\ depth[n] = depth[c] + 1
      OBVIOUS
    <3>3. c \in NodeId
      BY <1>1, <3>1, <3>2, ElementOfSeq DEF Children
    <3>4. m = dst \/ (rr # Nil /\ m = rr)
      OBVIOUS
    <3>5. c \in K \/ c = ptr[t] \/ c = right[t]
      BY <3>3, <3>4
    <3>6. c \in K => c \in Children(n)
      OBVIOUS
    <3> QED  BY <1>1, <3>3, <3>5, <3>6
  <2>2. pc[t] # "persist" /\ UNCHANGED <<dying, marking>>
    BY <1>0
  <2>3. K \subseteq Children(n)
    OBVIOUS
  <2>4. n \in NodeId /\ refs[n] > 0 /\ Sees(owner, t, n) /\ ~Busy(t)
    BY <1>0
  <2>5. /\ Rewrites(n, dst, R) /\ Makes({dst} \cup R, depth[n])
        /\ \A m \in NodeId \ ({dst} \cup R) : items'[m] = items[m]
        /\ refs' = IF persistent[n] THEN Counted({dst} \cup R, K) ELSE Counted(R, {})
    OBVIOUS
  <2>6. Reaches(owner, t, Made(n, dst, R))
    BY <1>6
  <2>7. \A m \in {dst} \cup R :
               \/ depth[n] = 1
               \/ /\ Distinct(items'[m])
                  /\ \A c \in Children(m)' :
                       refs[c] > 0 /\ Sees(owner, t, c) /\ depth[n] = depth[c] + 1
    BY <2>1
  <2> HIDE DEF F, W
  <2>8. PICK K2 : K2 = K
    OBVIOUS
  <2>9. /\ K2 \subseteq Children(n)
        /\ refs' = IF persistent[n] THEN Counted({dst} \cup R, K2) ELSE Counted(R, {})
    BY <2>3, <2>5, <2>8
  <2>10. MemInv(owner) /\ TypeOK'
    OBVIOUS
  <2>11. Works(owner, t, Made(n, dst, R), {dst} \cup R)
    BY ONLY <1>4, <1>7, <2>2, <2>4, <2>5, <2>6, <2>7, <2>9, <2>10, RewriteWorks,
            t \in Transients, Renews(t, phase, n, lost, K, rr, R, dst)
  <2> QED  BY <2>11 DEF F, W
<1>9. /\ \A m \in NodeId : depth'[m] = IF m \in W THEN depth[n] ELSE depth[m]
      /\ \A m \in NodeId : persistent'[m] = IF m \in W THEN FALSE ELSE persistent[m]
  <2>1. Makes(W, depth[n]) /\ \A m \in NodeId : persistent[m] \in BOOLEAN
    BY <1>0 DEF Memory, TypeOK, NodesOK
  <2> HIDE DEF W
  <2> QED  BY ONLY <2>1 DEF Makes
<1>10. \A m \in NodeId :
          refs'[m] = IF m \in F THEN 1
                     ELSE IF persistent[n] /\ m \in K THEN refs[m] + 1 ELSE refs[m]
  BY <1>2 DEF Counted
<1>11. \A m \in F : m \in NodeId /\ refs[m] = 0 /\ ~Placed(m) /\ Children(m) = {} /\ m # Nil
  <2>1. F \subseteq FreeNodes
    BY <1>2
  <2>2. ASSUME NEW m \in F
        PROVE  m \in NodeId /\ refs[m] = 0 /\ ~Placed(m) /\ Children(m) = {}
    <3>1. m \in FreeNodes
      BY ONLY <2>1, <2>2
    <3> QED  BY ONLY <1>0, <3>1, FreeFacts
  <2> QED  BY ONLY <2>2, NodePointer
<1>12. Counts(t, t, dst, rr)
  <2> SUFFICES ASSUME NEW m \in NodeId
               PROVE  refs'[m] + Ones(t, t, dst, rr, m) = refs[m] + Ones(t, t, dst, rr, m)'
    BY DEF Counts
  <2> DEFINE old == IF persistent[n] THEN 0 ELSE One(m \in Children(n))
             gone == IF persistent[n] THEN 0 ELSE One(m = lost)
             more == IF persistent[n] THEN One(m \in K) ELSE 0
  <2>0. refs[m] \in Nat /\ m # Nil /\ \A x : One(x) \in Nat
    BY <1>0, RefsNat, NodePointer DEF One
  <2>1. Ones(t, t, dst, rr, m) = One(root[t] = m) + One(ptr[t] = m) + One(right[t] = m) + old
    <3>1. One(t # t /\ root[t] = m) = 0 /\ One(drop[t] = m) = 0
      BY <1>1, <2>0 DEF One
    <3>2. One(dst \in NodeId /\ m \in Children(dst)) = old
      BY <1>2, <1>11 DEF One
    <3>3. One(rr \in NodeId /\ rr # dst /\ m \in Children(rr)) = 0
      <4>1. rr \in NodeId => rr \in F
        BY <1>2, NodePointer
      <4> QED  BY <1>11, <4>1 DEF One
    <3>4. old \in Nat
      BY <2>0
    <3> HIDE DEF old
    <3> QED  BY <2>0, <3>1, <3>2, <3>3, <3>4 DEF Ones
  <2>2. One(m \in Children(dst)') + One(rr \in NodeId /\ rr # dst /\ m \in Children(rr)')
          = One(m \in K) + One(ptr[t] = m) + One(right[t] = m)
    <3>1. rr # Nil => rr \in NodeId /\ rr # dst
      <4> SUFFICES ASSUME rr # Nil PROVE rr \in NodeId /\ rr # dst
        OBVIOUS
      <4>1. rr \in R /\ rr \in FreeNodes /\ rr \in NodeId
        BY DEF Pointer
      <4>2. rr # n
        BY <1>0, <4>1 DEF FreeNodes
      <4> QED  BY <1>2, <4>1, <4>2
    <3>2. rr = Nil => rr \notin NodeId
      BY NodePointer
    <3>3. m \in K => m # ptr[t] /\ m # right[t]
      BY <1>1
    <3>4. m = ptr[t] => m # right[t]
      BY <1>1, <2>0
    <3>5. /\ m \in Children(dst)' \/ (rr # Nil /\ m \in Children(rr)')
                 <=> m \in K \/ m = ptr[t] \/ m = right[t]
          /\ rr # Nil => ~(m \in Children(dst)' /\ m \in Children(rr)')
      OBVIOUS
    <3> QED  BY ONLY <3>1, <3>2, <3>3, <3>4, <3>5 DEF One
  <2>3. Ones(t, t, dst, rr, m)' = One(root[t] = m) + One(Changed(n, dst) = m) + One(rr = m)
          + gone + One(m \in K) + One(ptr[t] = m) + One(right[t] = m)
    <3>1. One(drop'[t] = m) = gone
      BY <1>3, <2>0 DEF One
    <3>2. One(t # t /\ root'[t] = m) = 0
      BY DEF One
    <3>3. One(dst \in NodeId /\ m \in Children(dst)') = One(m \in Children(dst)')
      BY DEF One
    <3>4. gone \in Nat
      BY <2>0
    <3>5. /\ One(root'[t] = m) = One(root[t] = m) /\ One(ptr'[t] = m) = One(Changed(n, dst) = m)
          /\ One(right'[t] = m) = One(rr = m)
      BY <1>3
    <3>6. Ones(t, t, dst, rr, m)' =
            One(root'[t] = m) + One(t # t /\ root'[t] = m)
              + One(ptr'[t] = m) + One(right'[t] = m) + One(drop'[t] = m)
              + One(dst \in NodeId /\ m \in Children(dst)')
              + One(rr \in NodeId /\ rr # dst /\ m \in Children(rr)')
      BY DEF Ones
    <3> HIDE DEF gone
    <3> QED  BY ONLY <2>0, <2>2, <3>1, <3>2, <3>3, <3>4, <3>5, <3>6
  <2>4. refs'[m] = refs[m] + One(Changed(n, dst) = m) + One(rr = m) + more
    <3>2. CASE m \in F
      <4>1. refs[m] = 0 /\ refs'[m] = 1 /\ m \notin K
        BY <1>1, <1>10, <1>11, <3>2
      <4>2. CASE m = rr
        <5>1. Changed(n, dst) # m
          BY <1>2, <4>2, <2>0 DEF Changed
        <5> QED  BY <4>1, <4>2, <5>1 DEF One
      <4>3. CASE m # rr
        <5>1. Changed(n, dst) = m
          BY <3>2, <4>3, <1>2 DEF Changed, Made
        <5> QED  BY <4>1, <4>3, <5>1 DEF One
      <4> QED  BY <4>2, <4>3
    <3>3. CASE m \notin F
      <4>1. Changed(n, dst) # m /\ rr # m
        BY <1>2, <2>0, <3>3 DEF Changed
      <4>2. refs'[m] = refs[m] + more
        <5>1. refs'[m] = IF persistent[n] /\ m \in K THEN refs[m] + 1 ELSE refs[m]
          <6> HIDE DEF F
          <6> QED  BY ONLY <1>10, <3>3, m \in NodeId
        <5>2. One(m \in K) = IF m \in K THEN 1 ELSE 0
          BY DEF One
        <5> QED  BY ONLY <2>0, <5>1, <5>2
      <4>3. One(Changed(n, dst) = m) = 0 /\ One(rr = m) = 0 /\ more \in Nat
        BY <2>0, <4>1 DEF One
      <4> HIDE DEF more
      <4> QED  BY ONLY <2>0, <4>2, <4>3
    <3> QED  BY <3>2, <3>3
  <2>5. old + more = gone + One(m \in K)
    <3>1. m \in Children(n) <=> m \in K \/ (m = lost /\ m \in Children(n))
      OBVIOUS
    <3>2. m = lost => m \in Children(n) /\ m \notin K
      BY <1>1, <2>0
    <3> QED  BY ONLY <3>1, <3>2 DEF One
  <2>6. /\ old \in Nat /\ gone \in Nat /\ more \in Nat
        /\ One(root[t] = m) \in Nat /\ One(ptr[t] = m) \in Nat /\ One(right[t] = m) \in Nat
        /\ One(Changed(n, dst) = m) \in Nat /\ One(rr = m) \in Nat /\ One(m \in K) \in Nat
    BY <2>0
  <2> HIDE DEF old, gone, more
  <2>8. refs[m] \in Nat
    BY <2>0
  <2> DEFINE x1 == One(root[t] = m)
             x2 == One(ptr[t] = m)
             x3 == One(right[t] = m)
             x4 == One(Changed(n, dst) = m)
             x5 == One(rr = m)
             x6 == One(m \in K)
             u == Ones(t, t, dst, rr, m)
             v == Ones(t, t, dst, rr, m)'
             q == refs'[m]
  <2>9. /\ u = x1 + x2 + x3 + old /\ v = x1 + x4 + x5 + gone + x6 + x2 + x3
        /\ q = refs[m] + x4 + x5 + more
    BY <2>1, <2>3, <2>4
  <2>10. x1 \in Nat /\ x2 \in Nat /\ x3 \in Nat /\ x4 \in Nat /\ x5 \in Nat /\ x6 \in Nat
         /\ old + more = gone + x6
    BY <2>5, <2>6
  <2> HIDE DEF x1, x2, x3, x4, x5, x6, u, v, q
  <2>11. q + u = refs[m] + v
    BY ONLY <2>6, <2>8, <2>9, <2>10
  <2> QED  BY <2>11 DEF q, u, v
<1>13. root[t] \in NodeId /\ depth'[root[t]] = depth[root[t]]
  <2>1. refs[root[t]] > 0
    BY <1>0, PathPlaced, HeldAlive, NodePointer
  <2> QED  BY <1>0, <1>8, <2>1, AliveDepth DEF Works
<1>14. \A k \in 1 .. Len(stack[t]) - 1 :
          LET m == stack[t][k].node IN items'[m] = items[m] /\ depth'[m] = depth[m]
  <2> SUFFICES ASSUME NEW k \in 1 .. Len(stack[t]) - 1
               PROVE  LET m == stack[t][k].node IN items'[m] = items[m] /\ depth'[m] = depth[m]
    OBVIOUS
  <2>1. k \in 1 .. Len(stack[t])
    BY <1>0
  <2>2. stack[t][k].node \in NodeId /\ Placed(stack[t][k].node)
    BY <1>0, <2>1, PathPlaced
  <2>3. stack[t][k].node # n
    BY <1>0
  <2>4. stack[t][k].node \notin W
    BY <1>2, <1>11, <2>2, <2>3
  <2> QED  BY <1>9, <2>2, <2>4
<1>15. Path(t)'
  <2>1. pc'[t] # "descend"
    BY <1>3
  <2> QED  BY <1>0, <1>5, <1>13, <1>14, <2>1, PathPopped
<1>16. Results(t)'
  <2>1. Height(t)' = depth[n]
    <3>1. depth[root[t]] \in Nat
      BY <1>0 DEF Memory, TypeOK, NodesOK
    <3> QED  BY <1>0, <1>5, <1>13, <3>1 DEF Height
  <2>2. ASSUME NEW m \in F PROVE Fresh(m)' /\ depth'[m] = depth[n]
    <3>1. m \in NodeId /\ m \in W
      BY <1>2, <1>11
    <3> HIDE DEF F, W
    <3>2. depth'[m] = depth[n] /\ ~persistent'[m] /\ refs'[m] = 1
      BY ONLY <1>9, <1>10, <3>1, m \in F
    <3> QED  BY <3>2 DEF Fresh
  <2>3. Changed(n, dst) # Nil => Changed(n, dst) \in F
    BY <1>2 DEF Changed
  <2>4. rr # Nil => rr \in F
    BY <1>2
  <2> HIDE DEF F
  <2>5. /\ ptr'[t] # Nil => Fresh(ptr[t])' /\ depth'[ptr'[t]] = depth[n]
        /\ right'[t] # Nil => Fresh(right[t])' /\ depth'[right'[t]] = depth[n]
    BY <1>3, <2>2, <2>3, <2>4 DEF Fresh
  <2>6. (pc[t] = "split" /\ ptr[t] = Nil /\ stack[t] # <<>> => ~persistent[FrameItem(t)])'
    <3> SUFFICES ASSUME ptr'[t] = Nil, stack'[t] # <<>> PROVE ~persistent'[FrameItem(t)']
      BY <1>3
    <3> DEFINE L == Len(stack[t]) - 1
    <3>0. L \in Nat /\ L # 0
      <4>1. stack'[t] \in Seq(FrameSet)
        BY DEF TypeOK, ControlOK
      <4> QED  BY <1>0, <1>5, <4>1, EmptySeq
    <3>1. L \in 1 .. Len(stack[t]) - 1 /\ L \in 1 .. Len(stack'[t]) /\ L + 1 = Len(stack[t])
          /\ L + 1 \in 1 .. Len(stack[t]) /\ L + 1 > 1 /\ L + 1 - 1 = L
      BY <1>0, <1>5, <3>0
    <3>2. Frame(t)' = stack[t][L]
      BY <1>5, <3>1 DEF Frame
    <3>3. stack[t][L + 1].node = items[stack[t][L].node][stack[t][L].index + 1]
      <4>1. Path(t)
        BY <1>0
      <4> QED  BY ONLY <3>1, <4>1 DEF Path
    <3>4. items'[stack[t][L].node] = items[stack[t][L].node]
      BY <1>14, <3>1
    <3>5. FrameItem(t)' = n
      BY <1>0, <3>1, <3>2, <3>3, <3>4 DEF FrameItem
    <3>6. dst = n
      BY <1>2, <1>3, NodePointer DEF Changed
    <3> QED  BY <1>0, <1>9, <3>5, <3>6
  <2>7. marking'[t] = <<>>
    BY <1>1
  <2> QED  BY <1>3, <2>1, <2>5, <2>6, <2>7 DEF Results
<1> QED
  <2>1. W \subseteq {dst, rr} /\ t \in Handle
    BY DEF Handle
  <2>2. \A g \in Handle \ {t} : root'[g] = root[g]
    OBVIOUS
  <2> QED  BY <1>8, <1>12, <1>15, <1>16, <2>1, <2>2, WorkKept

-----------------------------------------------------------------------------
(* The children in an array that is written *)

\* What is in an array, and in an array but for one index.
Content(s) == {s[k] : k \in 1 .. Len(s)}
Others(s, i) == {s[k] : k \in (1 .. Len(s)) \ {i + 1}}

\* In an array without repetition the other items are all but the one.
LEMMA OthersOfDistinct ==
    ASSUME NEW s, Distinct(s), NEW i, i + 1 \in 1 .. Len(s)
    PROVE  Others(s, i) = Content(s) \ {s[i + 1]}
  BY DEF Others, Content, Distinct

\* A replaced item is the only one that goes.
LEMMA ReplaceContent ==
    ASSUME NEW S, NEW s \in Seq(S), NEW i \in 0 .. Len(s) - 1, NEW e \in S, Distinct(s),
           e \notin Others(s, i)
    PROVE  /\ Content(ReplaceItem(s, i, e)) = Others(s, i) \cup {e}
           /\ Distinct(ReplaceItem(s, i, e))
<1> DEFINE r == ReplaceItem(s, i, e)
<1>1. /\ Len(r) = Len(s) /\ Len(s) \in Nat /\ i + 1 \in 1 .. Len(s)
      /\ \A k \in 1 .. Len(s) : r[k] = IF k = i + 1 THEN e ELSE s[k]
  BY ReplaceItemProperties, LenProperties
<1>2. \A k \in 1 .. Len(s) : k # i + 1 => s[k] # e
  BY DEF Others
<1> HIDE DEF r
<1>3. Distinct(r)
  BY <1>1, <1>2 DEF Distinct
<1>4. Content(r) = Others(s, i) \cup {e}
  BY <1>1 DEF Content, Others
<1> QED
  BY <1>3, <1>4 DEF r

\* An erased item is the only one that goes.
LEMMA EraseContent ==
    ASSUME NEW S, NEW s \in Seq(S), NEW i \in 0 .. Len(s) - 1, Distinct(s)
    PROVE  /\ Content(EraseItem(s, i)) = Others(s, i)
           /\ Distinct(EraseItem(s, i))
<1> DEFINE r == EraseItem(s, i)
           M == Len(s) - 1
<1>1. /\ Len(r) = M /\ Len(s) \in Nat /\ M \in Nat /\ i + 1 \in 1 .. Len(s) /\ i \in Nat
      /\ \A k \in 1 .. M : r[k] = IF k <= i THEN s[k] ELSE s[k + 1]
      /\ Len(s) = M + 1
  <2>1. Len(s) \in Nat /\ Len(s) > 0 /\ i \in 0 .. Len(s)
    BY LenProperties
  <2> QED  BY <2>1, EraseItemProperties
<1> HIDE DEF r, M
<1>2. Distinct(r)
  <2> SUFFICES ASSUME NEW j \in 1 .. M, NEW k \in 1 .. M, r[j] = r[k] PROVE j = k
    BY <1>1 DEF Distinct
  <2> DEFINE old(x) == IF x <= i THEN x ELSE x + 1
  <2>1. old(j) \in 1 .. Len(s) /\ old(k) \in 1 .. Len(s) /\ (old(j) = old(k) => j = k)
    BY <1>1
  <2>2. s[old(j)] = s[old(k)]
    BY <1>1
  <2> HIDE DEF old
  <2>3. old(j) = old(k)
    BY <2>1, <2>2 DEF Distinct
  <2> QED  BY <2>1, <2>3
<1>3. Content(r) \subseteq Others(s, i)
  <2> SUFFICES ASSUME NEW k \in 1 .. M PROVE r[k] \in Others(s, i)
    BY <1>1 DEF Content
  <2>1. CASE k <= i
    BY <1>1, <2>1 DEF Others
  <2>2. CASE ~(k <= i)
    <3>1. k + 1 \in (1 .. Len(s)) \ {i + 1} /\ r[k] = s[k + 1]
      BY <1>1, <2>2
    <3> QED  BY <3>1 DEF Others
  <2> QED  BY <2>1, <2>2
<1>4. Others(s, i) \subseteq Content(r)
  <2> SUFFICES ASSUME NEW k \in (1 .. Len(s)) \ {i + 1} PROVE s[k] \in Content(r)
    BY DEF Others
  <2>1. CASE k <= i
    <3>1. k \in 1 .. M /\ r[k] = s[k]
      BY <1>1, <2>1
    <3> QED  BY <1>1, <3>1 DEF Content
  <2>2. CASE ~(k <= i)
    <3>1. k - 1 \in 1 .. M /\ ~(k - 1 <= i) /\ k - 1 + 1 = k
      BY <1>1, <2>2
    <3>2. r[k - 1] = s[k]
      BY <1>1, <3>1
    <3> QED  BY <1>1, <3>1, <3>2 DEF Content
  <2> QED  BY <2>1, <2>2
<1> QED
  BY <1>2, <1>3, <1>4 DEF r

\* An inserted item is the only one that comes.
LEMMA InsertContent ==
    ASSUME NEW S, NEW s \in Seq(S), NEW i \in 0 .. Len(s), NEW e \in S, Distinct(s),
           e \notin Content(s)
    PROVE  /\ Content(InsertItem(s, i, e)) = Content(s) \cup {e}
           /\ Distinct(InsertItem(s, i, e))
<1> DEFINE r == InsertItem(s, i, e)
           N == Len(s)
<1>1. /\ Len(r) = N + 1 /\ N \in Nat /\ i \in Nat /\ i <= N
      /\ \A k \in 1 .. N + 1 :
           r[k] = IF k <= i THEN s[k] ELSE IF k = i + 1 THEN e ELSE s[k - 1]
  BY InsertItemProperties, LenProperties
<1>2. \A k \in 1 .. N : s[k] # e
  BY DEF Content
<1>3. \A j, k \in 1 .. N : s[j] = s[k] => j = k
  BY DEF Distinct
<1>4. Content(s) = {s[k] : k \in 1 .. N}
  BY DEF Content
<1> HIDE DEF r, N
<1>5. Distinct(r)
  <2> SUFFICES ASSUME NEW j \in 1 .. N + 1, NEW k \in 1 .. N + 1, r[j] = r[k] PROVE j = k
    BY <1>1 DEF Distinct
  <2>1. ASSUME NEW x \in 1 .. N + 1
        PROVE  (x <= i => x \in 1 .. N) /\ (~(x <= i) /\ x # i + 1 => x - 1 \in 1 .. N)
    BY <1>1
  <2> QED  BY <1>1, <1>2, <1>3, <2>1
<1>6. Content(r) \subseteq Content(s) \cup {e}
  <2> SUFFICES ASSUME NEW k \in 1 .. N + 1 PROVE r[k] \in Content(s) \cup {e}
    BY <1>1 DEF Content
  <2>1. CASE k <= i
    BY <1>1, <1>4, <2>1
  <2>2. CASE k = i + 1
    BY <1>1, <2>2
  <2>3. CASE ~(k <= i) /\ k # i + 1
    <3>1. k - 1 \in 1 .. N /\ r[k] = s[k - 1]
      BY <1>1, <2>3
    <3> QED  BY <1>4, <3>1
  <2> QED  BY <2>1, <2>2, <2>3
<1>7. Content(s) \cup {e} \subseteq Content(r)
  <2>1. e \in Content(r)
    <3>1. i + 1 \in 1 .. N + 1 /\ ~(i + 1 <= i)
      BY <1>1
    <3> QED  BY <1>1, <3>1 DEF Content
  <2>2. ASSUME NEW k \in 1 .. N PROVE s[k] \in Content(r)
    <3>1. CASE k <= i
      <4>1. k \in 1 .. N + 1 /\ r[k] = s[k]
        BY <1>1, <3>1
      <4> QED  BY <1>1, <4>1 DEF Content
    <3>2. CASE ~(k <= i)
      <4>1. k + 1 \in 1 .. N + 1 /\ ~(k + 1 <= i) /\ k + 1 # i + 1 /\ k + 1 - 1 = k
        BY <1>1, <3>2
      <4>2. r[k + 1] = s[k]
        BY <1>1, <4>1
      <4> QED  BY <1>1, <4>1, <4>2 DEF Content
    <3> QED  BY <3>1, <3>2
  <2> QED  BY <1>4, <2>1, <2>2
<1> QED
  BY <1>5, <1>6, <1>7 DEF r

\* A split node's new left half takes the child's place, and the right half is new.
LEMMA SplitChildContent ==
    ASSUME NEW S, NEW s \in Seq(S), NEW i \in 0 .. Len(s) - 1, NEW l \in S, NEW r \in S,
           Distinct(s), l \notin Others(s, i), r \notin Others(s, i), l # r
    PROVE  /\ Content(SplitChild(s, i, l, r)) = Others(s, i) \cup {l, r}
           /\ Distinct(SplitChild(s, i, l, r))
<1> DEFINE q == ReplaceItem(s, i, l)
<1>1. q \in Seq(S) /\ Len(q) = Len(s) /\ Len(s) \in Nat
  BY ReplaceItemProperties, LenProperties
<1>2. Content(q) = Others(s, i) \cup {l} /\ Distinct(q)
  BY ReplaceContent
<1>3. i + 1 \in 0 .. Len(q) /\ r \notin Content(q)
  BY <1>1, <1>2
<1> HIDE DEF q
<1>4. Content(InsertItem(q, i + 1, r)) = Content(q) \cup {r} /\ Distinct(InsertItem(q, i + 1, r))
  BY <1>1, <1>2, <1>3, InsertContent
<1> QED
  BY <1>2, <1>4 DEF q, SplitChild

\* The two parts of a node have its items, each in one of them.
LEMMA PartsContent ==
    ASSUME NEW S, NEW s \in Seq(S), NEW sp \in 0 .. Len(s), Distinct(s)
    PROVE  /\ Content(LeftPart(s, sp)) \cup Content(RightPart(s, sp)) = Content(s)
           /\ Content(LeftPart(s, sp)) \cap Content(RightPart(s, sp)) = {}
           /\ Distinct(LeftPart(s, sp)) /\ Distinct(RightPart(s, sp))
<1> DEFINE a == LeftPart(s, sp)
           b == RightPart(s, sp)
           N == Len(s)
<1>1. N \in Nat /\ sp \in Nat /\ sp <= N /\ Len(a) = sp /\ Len(b) = N - sp
  BY SplitKeepsItems, LenProperties
<1>2. \A k \in 1 .. sp : a[k] = s[k]
  <2>1. \A k \in 1 .. N : s[k] \in S
    BY ElementOfSeq
  <2>2. s \in Seq(S) /\ 1 \in 1 .. N + 1 /\ sp \in 1 - 1 .. N
    BY <1>1
  <2> QED  BY <1>1, <2>1, <2>2, SubSeqProperties DEF LeftPart
<1>3. \A k \in 1 .. N - sp : b[k] = s[sp + k]
  <2> SUFFICES ASSUME NEW k \in 1 .. N - sp PROVE b[k] = s[sp + k]
    OBVIOUS
  <2>1. \A j \in sp + 1 .. N : s[j] \in S
    BY <1>1, ElementOfSeq
  <2>2. N \in Int /\ sp + 1 \in Int
    BY <1>1
  <2>3. \A j \in 1 .. N - (sp + 1) + 1 : SubSeq(s, sp + 1, N)[j] = s[sp + 1 + j - 1]
    <3> HIDE DEF N
    <3> QED BY ONLY <2>1, <2>2, SubSeqProperties
  <2>4. k \in 1 .. N - (sp + 1) + 1 /\ sp + 1 + k - 1 = sp + k
    BY <1>1
  <2> QED  BY <2>3, <2>4 DEF RightPart
<1>4. \A j, k \in 1 .. N : s[j] = s[k] => j = k
  BY DEF Distinct
<1>5. Content(s) = {s[k] : k \in 1 .. N}
  BY DEF Content
<1> HIDE DEF a, b, N
<1>6. Distinct(a)
  BY <1>1, <1>2, <1>4 DEF Distinct
<1>7. Distinct(b)
  <2> SUFFICES ASSUME NEW j \in 1 .. N - sp, NEW k \in 1 .. N - sp, b[j] = b[k] PROVE j = k
    BY <1>1 DEF Distinct
  <2>1. sp + j \in 1 .. N /\ sp + k \in 1 .. N
    BY <1>1
  <2>2. sp + j = sp + k
    BY <1>3, <1>4, <2>1
  <2> QED  BY <1>1, <2>2
<1>8. Content(a) = {s[k] : k \in 1 .. sp}
  BY <1>1, <1>2 DEF Content
<1>9. Content(b) = {s[k] : k \in sp + 1 .. N}
  <2>1. ASSUME NEW k \in 1 .. N - sp PROVE sp + k \in sp + 1 .. N
    BY <1>1
  <2>2. ASSUME NEW k \in sp + 1 .. N PROVE k - sp \in 1 .. N - sp /\ sp + (k - sp) = k
    BY <1>1
  <2>3. Content(b) = {b[k] : k \in 1 .. N - sp}
    BY <1>1 DEF Content
  <2>4. Content(b) \subseteq {s[k] : k \in sp + 1 .. N}
    BY <1>3, <2>1, <2>3
  <2>5. ASSUME NEW k \in sp + 1 .. N PROVE s[k] \in Content(b)
    <3>1. b[k - sp] = s[k]
      BY <1>3, <2>2
    <3> QED  BY <2>2, <2>3, <3>1
  <2> QED  BY <2>4, <2>5
<1>10. \A k \in 1 .. N : k \in 1 .. sp \/ k \in sp + 1 .. N
  BY <1>1
<1>11. \A k \in 1 .. sp : k \in 1 .. N /\ k \notin sp + 1 .. N
  BY <1>1
<1>12. \A k \in sp + 1 .. N : k \in 1 .. N
  BY <1>1
<1>13. Content(a) \cup Content(b) = Content(s)
  BY ONLY <1>5, <1>8, <1>9, <1>10, <1>11, <1>12
<1>14. Content(a) \cap Content(b) = {}
  BY ONLY <1>4, <1>8, <1>9, <1>11, <1>12
<1> QED
  BY <1>6, <1>7, <1>13, <1>14 DEF a, b

-----------------------------------------------------------------------------
(* The continuations of an inner node *)

\* The array of the node whose continuation is called.
LEMMA FrameItems ==
    ASSUME NEW owner, MemInv(owner), NEW t \in Transients, NEW phase, AtNode(t, phase),
           phase \in {"replace", "split", "erase"},
           NEW n, n = Frame(t).node, NEW i, i = Frame(t).index
    PROVE  /\ n \in NodeId /\ items[n] \in Seq(NodeId) /\ Len(items[n]) \in Nat
           /\ i \in 0 .. Len(items[n]) - 1 /\ FrameItem(t) = items[n][i + 1]
           /\ FrameItem(t) \in Children(n) /\ FrameItem(t) \in NodeId
           /\ Children(n) = Content(items[n]) /\ Distinct(items[n])
           /\ Others(items[n], i) = Children(n) \ {FrameItem(t)}
           /\ Overwritten(n, i) = IF persistent[n] THEN Nil ELSE FrameItem(t)
           /\ depth[n] # 1
           /\ \A m \in Children(n) : m \in NodeId /\ m # Nil /\ m # ptr[t] /\ m # right[t]
<1>0. Memory
  BY DEF MemInv
<1>1. /\ \A m \in Children(n) : m \in NodeId /\ Placed(m)
      /\ FrameItem(t) \in Children(n)
      /\ \A m \in NodeId : m = ptr[t] \/ m = right[t] => ~Placed(m)
      /\ depth[n] \in Nat /\ depth[n] > 1 /\ items[n] \in Seq(NodeId)
      /\ Distinct(items[n])
  BY InnerHeld
<1>2. n \in NodeId /\ i \in 0 .. Len(items[n]) - 1 /\ Len(items[n]) \in Nat
  BY <1>0, FrameNode DEF Memory
<1>3. FrameItem(t) = items[n][i + 1] /\ i + 1 \in 1 .. Len(items[n])
  BY <1>2 DEF FrameItem
<1>4. Children(n) = Content(items[n])
  BY <1>1 DEF Children, Content
<1>5. Others(items[n], i) = Children(n) \ {FrameItem(t)}
  BY <1>1, <1>3, <1>4, OthersOfDistinct
<1>8. Overwritten(n, i) = IF persistent[n] THEN Nil ELSE FrameItem(t)
  BY <1>3 DEF Overwritten
<1>9. \A m \in Children(n) : m \in NodeId /\ m # Nil /\ m # ptr[t] /\ m # right[t]
  BY <1>1, NodePointer
<1>10. FrameItem(t) \in NodeId /\ depth[n] # 1
  BY <1>1
<1> QED
  BY ONLY <1>1, <1>2, <1>3, <1>4, <1>5, <1>8, <1>9, <1>10, n = Frame(t).node

\* The counts once that node is copied, or written in place.
LEMMA FrameCounts ==
    ASSUME NEW owner, MemInv(owner), NEW t \in Transients, NEW phase, AtNode(t, phase),
           phase \in {"replace", "split", "erase"},
           NEW n, n = Frame(t).node, NEW i, i = Frame(t).index, NEW dst, NEW more
    PROVE  CountedCopy(n, dst, i, more) =
             IF persistent[n] THEN Counted({dst} \cup more, Children(n) \ {FrameItem(t)})
                              ELSE Counted(more, {})
<1>1. Others(items[n], i) = Children(n) \ {FrameItem(t)}
  BY FrameItems
<1>2. OtherChildren(n, i) = Children(n) \ {FrameItem(t)}
  BY <1>1 DEF OtherChildren, Others
<1> QED
  BY ONLY <1>2 DEF CountedCopy

\* InnerKept for a node that does not split.
LEMMA InnerReplaceKept ==
    ASSUME NEW owner \in Owner, MemInv(owner), TypeOK', NEW t \in Transients,
           NEW phase \in {"replace", "split", "erase"}, AtNode(t, phase),
           NEW n, n = Frame(t).node,
           NEW lost,
           lost = IF ptr[t] # Nil \/ phase = "erase" THEN FrameItem(t) ELSE Nil,
           NEW K, K = Children(n) \ {lost},
           NEW dst \in NodeId, Rewrites(n, dst, {}), Makes({dst}, depth[n]),
           NEW new, items' = [items EXCEPT ![dst] = new],
           refs' = IF persistent[n] THEN Counted({dst}, K) ELSE Counted({}, {}),
           Distinct(new),
           \A m \in NodeId : m \in Content(new) <=> m \in K \/ m = ptr[t] \/ m = right[t],
           NEW c, CallReplace(t, Changed(n, dst), c),
           \A u \in Transients \ {t} : at'[u] = at[u],
           Drops(t, IF persistent[n] THEN Nil ELSE lost), Pops(t),
           UNCHANGED <<root, rightMost, dying, marking>>
    PROVE  \E owner2 \in Owner : MemInv(owner2)'
<1>0. Memory
  BY DEF MemInv
<1>1. n \in NodeId /\ depth[n] # 1
  BY FrameItems
<1>2. PICK R : R = {Nil} \ {Nil}
  OBVIOUS
<1>3. R = {} /\ R \subseteq FreeNodes /\ {dst} \cup R = {dst} /\ Nil \in Pointer
  BY <1>2 DEF Pointer
<1>4. /\ Rewrites(n, dst, R) /\ Makes({dst} \cup R, depth[n])
      /\ refs' = IF persistent[n] THEN Counted({dst} \cup R, K) ELSE Counted(R, {})
  BY <1>3
<1>5. /\ \A m \in NodeId \ ({dst} \cup R) : items'[m] = items[m]
      /\ items'[dst] = new
  BY <1>0, <1>3 DEF Memory, TypeOK, NodesOK
<1>6. /\ pc' = [pc EXCEPT ![t] = IF Nil = Nil THEN "replace" ELSE "split"]
      /\ ptr' = [ptr EXCEPT ![t] = Changed(n, dst)]
      /\ right' = [right EXCEPT ![t] = Nil]
  BY DEF CallReplace
<1>7. \A m \in {dst} \cup R : Distinct(items'[m])
  BY <1>3, <1>5
<1>8. Children(dst)' = Content(new)
  <2>1. depth'[dst] = depth[n]
    BY DEF Makes
  <2> QED  BY <1>1, <1>5, <2>1 DEF Children, Content
<1>9. /\ \A m \in NodeId :
           m \in Children(dst)' \/ (Nil # Nil /\ m \in Children(Nil)')
             <=> m \in K \/ m = ptr[t] \/ m = right[t]
      /\ \A m \in NodeId : Nil # Nil => ~(m \in Children(dst)' /\ m \in Children(Nil)')
  BY <1>8
<1>10. PICK rr : rr = Nil
  OBVIOUS
<1>11. Renews(t, phase, n, lost, K, rr, R, dst)
  BY <1>3, <1>4, <1>5, <1>2, <1>6, <1>7, <1>9, <1>10 DEF Renews
<1> QED
  BY <1>11, InnerKept

\* InternalNode::replace.
LEMMA InternalReplaceKept ==
    ASSUME NEW owner \in Owner, MemInv(owner), TypeOK', NEW t \in Transients,
           InternalReplace(t)
    PROVE  \E owner2 \in Owner : MemInv(owner2)'
<1> DEFINE n == Frame(t).node
           i == Frame(t).index
           c == carry[t] /\ i = Len(items[n]) - 1
           new == IF ptr[t] = Nil THEN items[n] ELSE ReplaceItem(items[n], i, ptr[t])
           lost == IF ptr[t] # Nil \/ "replace" = "erase" THEN FrameItem(t) ELSE Nil
           K == Children(n) \ {lost}
<1>0. /\ AtNode(t, "replace") /\ Pops(t) /\ Drops(t, Replaced(t, n, i))
      /\ UNCHANGED <<root, rightMost, at, dying, marking>>
  BY DEF InternalReplace, trees
<1>1. PICK dst \in NodeId :
          /\ Rewrites(n, dst, {}) /\ items' = [items EXCEPT ![dst] = new]
          /\ Makes({dst}, depth[n])
          /\ refs' = IF ptr[t] = Nil /\ persistent[n]
                       THEN Counted({dst}, Children(n))
                       ELSE CountedCopy(n, dst, i, {})
          /\ CallReplace(t, Changed(n, dst), c)
  BY DEF InternalReplace
<1>2. /\ n \in NodeId /\ items[n] \in Seq(NodeId)
      /\ i \in 0 .. Len(items[n]) - 1 /\ FrameItem(t) \in NodeId
      /\ Children(n) = Content(items[n]) /\ Distinct(items[n])
      /\ Others(items[n], i) = Children(n) \ {FrameItem(t)}
      /\ CountedCopy(n, dst, i, {}) =
                IF persistent[n] THEN Counted({dst} \cup {}, Children(n) \ {FrameItem(t)})
                                 ELSE Counted({}, {})
      /\ Overwritten(n, i) = IF persistent[n] THEN Nil ELSE FrameItem(t)
      /\ \A m \in Children(n) : m \in NodeId /\ m # Nil /\ m # ptr[t] /\ m # right[t]
  <2>1. n = Frame(t).node /\ i = Frame(t).index
    OBVIOUS
  <2>2. MemInv(owner) /\ "replace" \in {"replace", "split", "erase"}
    OBVIOUS
  <2> HIDE DEF n, i
  <2>3. CountedCopy(n, dst, i, {}) =
                IF persistent[n] THEN Counted({dst} \cup {}, Children(n) \ {FrameItem(t)})
                                 ELSE Counted({}, {})
    BY ONLY <1>0, <2>1, <2>2, t \in Transients, FrameCounts
  <2>4. /\ n \in NodeId /\ items[n] \in Seq(NodeId)
        /\ i \in 0 .. Len(items[n]) - 1 /\ FrameItem(t) \in NodeId
        /\ Children(n) = Content(items[n]) /\ Distinct(items[n])
        /\ Others(items[n], i) = Children(n) \ {FrameItem(t)}
        /\ Overwritten(n, i) = IF persistent[n] THEN Nil ELSE FrameItem(t)
        /\ \A m \in Children(n) : m \in NodeId /\ m # Nil /\ m # ptr[t] /\ m # right[t]
    BY ONLY <1>0, <2>1, <2>2, t \in Transients, FrameItems
  <2> QED  BY <2>3, <2>4
<1>3. right[t] = Nil /\ ptr[t] \in Pointer
  BY <1>0, InnerHeld
<1>4. {dst} \cup {} = {dst}
  OBVIOUS
<1> HIDE DEF n, i, c
<1>5. Distinct(new) /\ Content(new) = K \cup ({ptr[t]} \ {Nil})
  <2>1. CASE ptr[t] = Nil
    <3>1. new = items[n] /\ K = Children(n)
      BY <1>2, <2>1
    <3> QED  BY <1>2, <2>1, <3>1
  <2>2. CASE ptr[t] # Nil
    <3>1. ptr[t] \in NodeId /\ ptr[t] \notin Others(items[n], i)
      BY <1>2, <1>3, <2>2 DEF Pointer
    <3>2. new = ReplaceItem(items[n], i, ptr[t]) /\ K = Others(items[n], i)
      BY <1>2, <2>2
    <3> QED  BY <1>2, <2>2, <3>1, <3>2, ReplaceContent
  <2> QED  BY <2>1, <2>2
<1>6. refs' = IF persistent[n] THEN Counted({dst}, K) ELSE Counted({}, {})
  <2>1. CASE ptr[t] = Nil
    <3>1. K = Children(n)
      BY <1>2, <2>1
    <3> QED  BY <1>1, <1>2, <2>1, <3>1
  <2>2. CASE ptr[t] # Nil
    <3>1. K = Children(n) \ {FrameItem(t)}
      BY <2>2
    <3> QED  BY <1>1, <1>2, <1>4, <2>2, <3>1
  <2> QED  BY <2>1, <2>2
<1>7. Drops(t, IF persistent[n] THEN Nil ELSE lost)
  <2>1. Replaced(t, n, i) = IF persistent[n] THEN Nil ELSE lost
    BY <1>2 DEF Replaced
  <2> QED  BY <1>0, <2>1
<1>8. \A m \in NodeId : m \in Content(new) <=> m \in K \/ m = ptr[t] \/ m = right[t]
  BY <1>3, <1>5, NodePointer
<1>9. PICK lost2, K2, new2 : lost2 = lost /\ K2 = K /\ new2 = new
  OBVIOUS
<1> HIDE DEF K, new
<1>10. /\ K2 = Children(n) \ {lost2} /\ items' = [items EXCEPT ![dst] = new2] /\ Distinct(new2)
       /\ refs' = IF persistent[n] THEN Counted({dst}, K2) ELSE Counted({}, {})
       /\ \A m \in NodeId : m \in Content(new2) <=> m \in K2 \/ m = ptr[t] \/ m = right[t]
       /\ Drops(t, IF persistent[n] THEN Nil ELSE lost2)
  BY <1>1, <1>5, <1>6, <1>7, <1>8, <1>9 DEF K
<1>11. lost2 = IF ptr[t] # Nil \/ "replace" = "erase" THEN FrameItem(t) ELSE Nil
  BY <1>9
<1>12. n = Frame(t).node
  BY DEF n
<1> HIDE DEF lost
<1> QED
  BY <1>0, <1>1, <1>10, <1>11, <1>12, InnerReplaceKept

\* Child i of node n has split: the new array, and the children that stay.
SplitOf(t, n, i, lost, K, all) ==
    /\ n = Frame(t).node /\ i = Frame(t).index
    /\ lost = IF ptr[t] # Nil THEN FrameItem(t) ELSE Nil
    /\ K = Children(n) \ {lost}
    /\ all = SplitChild(items[n], i, SplitLeft(t, n, i), right[t])

\* The array of a node one of whose children has split.
LEMMA SplitHeld ==
    ASSUME NEW owner, MemInv(owner), NEW t \in Transients, AtNode(t, "split"),
           NEW n, NEW i, NEW lost, NEW K, NEW all, SplitOf(t, n, i, lost, K, all)
    PROVE  /\ all \in Seq(NodeId) /\ Len(all) = Len(items[n]) + 1 /\ Distinct(all)
           /\ \A m \in NodeId : m \in Content(all) <=> m \in K \/ m = ptr[t] \/ m = right[t]
           /\ K = OtherChildren(n, i) \/ ~persistent[n]
           /\ Replaced(t, n, i) = IF persistent[n] THEN Nil ELSE lost
<1> USE DEF SplitOf
<1>a. FrameItem(t) = items[n][i + 1]
  BY DEF FrameItem
<1>0. /\ n \in NodeId /\ items[n] \in Seq(NodeId)
      /\ i \in 0 .. Len(items[n]) - 1 /\ FrameItem(t) = items[n][i + 1]
      /\ FrameItem(t) \in Children(n) /\ FrameItem(t) \in NodeId
      /\ Children(n) = Content(items[n]) /\ Distinct(items[n])
      /\ Others(items[n], i) = Children(n) \ {FrameItem(t)}
      /\ Overwritten(n, i) = IF persistent[n] THEN Nil ELSE FrameItem(t)
      /\ \A m \in Children(n) : m \in NodeId /\ m # Nil /\ m # ptr[t] /\ m # right[t]
  <2>1. "split" \in {"replace", "split", "erase"}
    OBVIOUS
  <2>a. n = Frame(t).node /\ i = Frame(t).index
    OBVIOUS
  <2>2. /\ n \in NodeId /\ items[n] \in Seq(NodeId)
        /\ i \in 0 .. Len(items[n]) - 1
        /\ FrameItem(t) \in Children(n) /\ FrameItem(t) \in NodeId
    BY ONLY MemInv(owner), t \in Transients, AtNode(t, "split"), <2>1, <2>a, FrameItems
  <2>3. /\ Children(n) = Content(items[n]) /\ Distinct(items[n])
        /\ Others(items[n], i) = Children(n) \ {FrameItem(t)}
    BY ONLY MemInv(owner), t \in Transients, AtNode(t, "split"), <2>1, <2>a, FrameItems
  <2>4. /\ Overwritten(n, i) = IF persistent[n] THEN Nil ELSE FrameItem(t)
        /\ \A m \in Children(n) : m \in NodeId /\ m # Nil /\ m # ptr[t] /\ m # right[t]
    BY ONLY MemInv(owner), t \in Transients, AtNode(t, "split"), <2>1, <2>a, FrameItems
  <2> QED  BY ONLY <1>a, <2>2, <2>3, <2>4
<1>1. OtherChildren(n, i) = Children(n) \ {FrameItem(t)}
  BY <1>0 DEF OtherChildren, Others
<1>2. ptr[t] \in Pointer /\ right[t] \in Pointer /\ (ptr[t] # Nil => ptr[t] # right[t])
  BY InnerHeld
<1>3. Memory /\ pc[t] = "split" /\ Results(t) /\ Sees(owner, t, n) /\ stack[t] # <<>>
  BY FrameHeld
<1>4. right[t] # Nil /\ right[t] \in NodeId
  BY <1>2, <1>3 DEF Memory, TypeOK, PhaseOK, Pointer
<1>5. ptr[t] = Nil => ~persistent[n]
  <2> SUFFICES ASSUME ptr[t] = Nil, persistent[n] PROVE FALSE
    OBVIOUS
  <2>1. ~persistent[FrameItem(t)]
    BY <1>3 DEF Results
  <2> QED  BY <1>0, <1>3, <2>1, SharedChildren
<1> DEFINE l == SplitLeft(t, n, i)
<1>6. l = IF ptr[t] = Nil THEN FrameItem(t) ELSE ptr[t]
  BY <1>0 DEF SplitLeft
<1>7. l \in NodeId /\ l \notin Others(items[n], i) /\ right[t] \notin Others(items[n], i)
      /\ l # right[t]
  BY <1>0, <1>2, <1>6 DEF Pointer
<1>8. Content(all) = Others(items[n], i) \cup {l, right[t]} /\ Distinct(all)
  <2> HIDE DEF l
  <2>1. all = SplitChild(items[n], i, l, right[t])
    BY DEF l
  <2> QED  BY <1>0, <1>4, <1>7, <2>1, SplitChildContent
<1>9. all \in Seq(NodeId) /\ Len(all) = Len(items[n]) + 1
  <2> HIDE DEF l
  <2>1. all = SplitChild(items[n], i, l, right[t])
    BY DEF l
  <2>2. /\ items[n] \in Seq(NodeId) /\ i \in 0 .. Len(items[n]) - 1
        /\ l \in NodeId /\ right[t] \in NodeId
    BY <1>0, <1>4, <1>7
  <2>3. /\ SplitChild(items[n], i, l, right[t]) \in Seq(NodeId)
        /\ Len(SplitChild(items[n], i, l, right[t])) = Len(items[n]) + 1
    BY ONLY <2>2, SplitChildProperties, ZenonT(30)
  <2> QED  BY ONLY <2>1, <2>3
<1>10. \A m \in NodeId : m \in Content(all) <=> m \in K \/ m = ptr[t] \/ m = right[t]
  <2>1. CASE ptr[t] = Nil
    <3>1. K = Children(n) /\ l = FrameItem(t)
      BY <1>0, <1>6, <2>1
    <3> HIDE DEF l
    <3> QED  BY <1>0, <1>8, <2>1, <3>1, NodePointer
  <2>2. CASE ptr[t] # Nil
    <3>1. K = Others(items[n], i) /\ l = ptr[t]
      BY <1>0, <1>6, <2>2
    <3> HIDE DEF l
    <3> QED  BY <1>0, <1>8, <2>2, <3>1
  <2> QED  BY <2>1, <2>2
<1>11. K = OtherChildren(n, i) \/ ~persistent[n]
  BY <1>1, <1>5
<1>12. Replaced(t, n, i) = IF persistent[n] THEN Nil ELSE lost
  BY <1>0, <1>5 DEF Replaced
<1> QED
  BY <1>8, <1>9, <1>10, <1>11, <1>12

\* InternalNode::insert with room for the right half.
LEMMA InternalInsertKept ==
    ASSUME NEW owner \in Owner, MemInv(owner), TypeOK', NEW t \in Transients,
           InternalInsert(t)
    PROVE  \E owner2 \in Owner : MemInv(owner2)'
<1>0. PICK n, i : n = Frame(t).node /\ i = Frame(t).index
  OBVIOUS
<1>1. PICK lost : lost = IF ptr[t] # Nil THEN FrameItem(t) ELSE Nil
  OBVIOUS
<1>2. PICK K : K = Children(n) \ {lost}
  OBVIOUS
<1>3. PICK all : all = SplitChild(items[n], i, SplitLeft(t, n, i), right[t])
  OBVIOUS
<1>a. SplitOf(t, n, i, lost, K, all)
  BY <1>0, <1>1, <1>2, <1>3 DEF SplitOf
<1>4. /\ AtNode(t, "split") /\ Pops(t) /\ Drops(t, Replaced(t, n, i))
      /\ UNCHANGED <<root, rightMost, at, dying, marking>>
  BY <1>0 DEF InternalInsert, trees
<1>5. PICK dst \in NodeId :
          /\ Rewrites(n, dst, {}) /\ items' = [items EXCEPT ![dst] = all]
          /\ Makes({dst}, depth[n])
          /\ refs' = CountedCopy(n, dst, i, {})
          /\ CallReplace(t, Changed(n, dst), FALSE)
  BY <1>0, <1>3 DEF InternalInsert
<1>6. /\ Distinct(all)
      /\ \A m \in NodeId : m \in Content(all) <=> m \in K \/ m = ptr[t] \/ m = right[t]
      /\ CountedCopy(n, dst, i, {}) =
                IF persistent[n] THEN Counted({dst} \cup {}, K) ELSE Counted({}, {})
      /\ Replaced(t, n, i) = IF persistent[n] THEN Nil ELSE lost
  <2>1. K = OtherChildren(n, i) \/ ~persistent[n]
    BY ONLY <1>a, <1>4, MemInv(owner), t \in Transients, SplitHeld
  <2>2. CountedCopy(n, dst, i, {}) =
                IF persistent[n] THEN Counted({dst} \cup {}, K) ELSE Counted({}, {})
    BY ONLY <2>1 DEF CountedCopy
  <2>3. /\ Distinct(all)
        /\ \A m \in NodeId : m \in Content(all) <=> m \in K \/ m = ptr[t] \/ m = right[t]
        /\ Replaced(t, n, i) = IF persistent[n] THEN Nil ELSE lost
    BY ONLY <1>a, <1>4, MemInv(owner), t \in Transients, SplitHeld
  <2> QED  BY <2>1, <2>2, <2>3
<1>7. {dst} \cup {} = {dst}
  OBVIOUS
<1>8. refs' = IF persistent[n] THEN Counted({dst}, K) ELSE Counted({}, {})
  BY <1>5, <1>6, <1>7
<1>9. Drops(t, IF persistent[n] THEN Nil ELSE lost)
  BY <1>4, <1>6
<1>10. lost = IF ptr[t] # Nil \/ "split" = "erase" THEN FrameItem(t) ELSE Nil
  BY <1>1
<1> QED
  BY <1>0, <1>2, <1>4, <1>5, <1>6, <1>8, <1>9, <1>10, InnerReplaceKept

\* InternalNode::erase.
LEMMA InternalEraseKept ==
    ASSUME NEW owner \in Owner, MemInv(owner), TypeOK', NEW t \in Transients,
           InternalErase(t)
    PROVE  \E owner2 \in Owner : MemInv(owner2)'
<1>0. PICK n, i : n = Frame(t).node /\ i = Frame(t).index
  OBVIOUS
<1>1. PICK lost : lost = FrameItem(t)
  OBVIOUS
<1>2. PICK K : K = Children(n) \ {lost}
  OBVIOUS
<1>3. PICK new : new = EraseItem(items[n], i)
  OBVIOUS
<1>4. /\ AtNode(t, "erase") /\ Pops(t) /\ Drops(t, Overwritten(n, i))
      /\ UNCHANGED <<root, rightMost, dying, marking>>
  BY <1>0 DEF InternalErase, trees
<1>5. PICK past, seek \in BOOLEAN :
        /\ past = (i = Len(items[n]) - 1)
        /\ seek = (past /\ Frame(t).rightMost)
  OBVIOUS
<1>6. PICK dst \in NodeId :
          /\ Rewrites(n, dst, {}) /\ items' = [items EXCEPT ![dst] = new]
          /\ Makes({dst}, depth[n])
          /\ refs' = CountedCopy(n, dst, i, {})
          /\ \E c : CallReplace(t, Changed(n, dst), c)
          /\ \E p : at' = [at EXCEPT ![t] = p]
  BY <1>0, <1>3 DEF InternalErase
<1>7. PICK c : CallReplace(t, Changed(n, dst), c)
  BY <1>6
<1>8. \A u \in Transients \ {t} : at'[u] = at[u]
  BY <1>6 DEF MemInv, Memory, TypeOK, ControlOK
<1>9. /\ n \in NodeId /\ items[n] \in Seq(NodeId)
      /\ i \in 0 .. Len(items[n]) - 1
      /\ Distinct(items[n])
      /\ Others(items[n], i) = Children(n) \ {FrameItem(t)}
      /\ Overwritten(n, i) = IF persistent[n] THEN Nil ELSE FrameItem(t)
      /\ \A m \in Children(n) : m \in NodeId /\ m # Nil /\ m # ptr[t] /\ m # right[t]
  BY <1>0, <1>4, FrameItems
<1>10. CountedCopy(n, dst, i, {}) =
        IF persistent[n] THEN Counted({dst} \cup {}, Children(n) \ {FrameItem(t)})
                         ELSE Counted({}, {})
  BY <1>0, <1>4, FrameCounts
<1>11. {dst} \cup {} = {dst}
  OBVIOUS
<1>12. refs' = IF persistent[n] THEN Counted({dst}, K) ELSE Counted({}, {})
  BY <1>1, <1>2, <1>6, <1>10, <1>11
<1>13. Drops(t, IF persistent[n] THEN Nil ELSE lost)
  BY <1>1, <1>4, <1>9
<1>14. lost = IF ptr[t] # Nil \/ "erase" = "erase" THEN FrameItem(t) ELSE Nil
  BY <1>1
<1>15. Content(new) = Others(items[n], i) /\ Distinct(new)
  BY <1>3, <1>9, EraseContent
<1>16. ptr[t] = Nil /\ right[t] = Nil
  BY <1>4, InnerHeld
<1>17. \A m \in NodeId : m \in Content(new) <=> m \in K \/ m = ptr[t] \/ m = right[t]
  BY <1>1, <1>2, <1>9, <1>15, <1>16, NodePointer
<1> QED
  BY <1>0, <1>2, <1>4, <1>6, <1>7, <1>8, <1>12, <1>13, <1>14, <1>15, <1>17, InnerReplaceKept

\* InternalNode::insert in a full node.
LEMMA InternalSplitKept ==
    ASSUME NEW owner \in Owner, MemInv(owner), TypeOK', NEW t \in Transients,
           InternalSplit(t)
    PROVE  \E owner2 \in Owner : MemInv(owner2)'
<1>0. PICK n, i : n = Frame(t).node /\ i = Frame(t).index
  OBVIOUS
<1>1. PICK lost : lost = IF ptr[t] # Nil THEN FrameItem(t) ELSE Nil
  OBVIOUS
<1>2. PICK K : K = Children(n) \ {lost}
  OBVIOUS
<1>3. PICK all : all = SplitChild(items[n], i, SplitLeft(t, n, i), right[t])
  OBVIOUS
<1>a. SplitOf(t, n, i, lost, K, all)
  BY <1>0, <1>1, <1>2, <1>3 DEF SplitOf
<1>4. PICK sp : sp = InternalSplitPoint(i, Frame(t).rightMost)
  OBVIOUS
<1>5. /\ AtNode(t, "split") /\ Pops(t) /\ Drops(t, Replaced(t, n, i))
      /\ Len(items[n]) = InternalSize
      /\ UNCHANGED <<root, rightMost, at, dying, marking>>
  BY <1>0 DEF InternalSplit, trees
<1>6. PICK r \in NodeId, dst \in NodeId :
          /\ Allocates(r, {}) /\ Rewrites(n, dst, {r})
          /\ items' = [items EXCEPT ![dst] = LeftPart(all, sp), ![r] = RightPart(all, sp)]
          /\ Makes({dst, r}, depth[n])
          /\ refs' = CountedCopy(n, dst, i, {r})
          /\ \E inLeft : CallSplit(t, Changed(n, dst), r, inLeft)
  BY <1>0, <1>3, <1>4 DEF InternalSplit
<1>7. PICK inLeft : CallSplit(t, Changed(n, dst), r, inLeft)
  BY <1>6
<1>8. PICK R : R = {r} \ {Nil}
  OBVIOUS
<1>9. R = {r} /\ R \subseteq FreeNodes /\ {dst} \cup R = {dst, r} /\ r \in Pointer /\ r # Nil
  BY <1>6, <1>8, NodePointer DEF Pointer, Allocates
<1>10. /\ all \in Seq(NodeId) /\ Len(all) = Len(items[n]) + 1 /\ Distinct(all)
       /\ \A m \in NodeId : m \in Content(all) <=> m \in K \/ m = ptr[t] \/ m = right[t]
       /\ CountedCopy(n, dst, i, R) =
                IF persistent[n] THEN Counted({dst} \cup R, K) ELSE Counted(R, {})
       /\ Replaced(t, n, i) = IF persistent[n] THEN Nil ELSE lost
  <2>0. K = OtherChildren(n, i) \/ ~persistent[n]
    BY ONLY <1>a, <1>5, MemInv(owner), t \in Transients, SplitHeld
  <2>1. CountedCopy(n, dst, i, R) =
                IF persistent[n] THEN Counted({dst} \cup R, K) ELSE Counted(R, {})
    BY ONLY <2>0 DEF CountedCopy
  <2>2. /\ all \in Seq(NodeId) /\ Len(all) = Len(items[n]) + 1 /\ Distinct(all)
        /\ Replaced(t, n, i) = IF persistent[n] THEN Nil ELSE lost
    BY ONLY <1>a, <1>5, MemInv(owner), t \in Transients, SplitHeld
  <2>3. \A m \in NodeId : m \in Content(all) <=> m \in K \/ m = ptr[t] \/ m = right[t]
    BY ONLY <1>a, <1>5, MemInv(owner), t \in Transients, SplitHeld
  <2> QED  BY <2>1, <2>2, <2>3
<1>11. n \in NodeId /\ depth[n] # 1 /\ i \in 0 .. Len(items[n]) - 1 /\ Len(items[n]) \in Nat
  BY <1>0, <1>5, FrameItems
<1>12. sp \in 0 .. Len(all)
  <2>1. Frame(t).rightMost \in BOOLEAN
    BY <1>5, FrameNode DEF MemInv, Memory
  <2>2. sp \in 1 .. InternalSize
    BY <1>4, <1>5, <1>11, <2>1, InternalSplitPointRange
  <2> QED  BY <1>5, <1>10, <1>11, <2>2, NodeSizeAssumption
<1>13. /\ Content(LeftPart(all, sp)) \cup Content(RightPart(all, sp)) = Content(all)
       /\ Content(LeftPart(all, sp)) \cap Content(RightPart(all, sp)) = {}
       /\ Distinct(LeftPart(all, sp)) /\ Distinct(RightPart(all, sp))
  BY <1>10, <1>12, PartsContent
<1>14. dst # r
  <2>1. refs[n] > 0 /\ Sees(owner, t, n)
    BY <1>0, <1>5, FrameHeld
  <2>2. n # r
    BY <1>6, <2>1 DEF Allocates, FreeNodes
  <2> QED  BY <1>6, <2>2 DEF Rewrites, Allocates
<1>15. /\ items'[dst] = LeftPart(all, sp) /\ items'[r] = RightPart(all, sp)
       /\ \A m \in NodeId \ ({dst} \cup R) : items'[m] = items[m]
  BY <1>6, <1>9, <1>14 DEF MemInv, Memory, TypeOK, NodesOK
<1>16. /\ Children(dst)' = Content(LeftPart(all, sp))
       /\ Children(r)' = Content(RightPart(all, sp))
  <2>1. depth'[dst] = depth[n] /\ depth'[r] = depth[n]
    BY <1>6 DEF Makes
  <2> QED  BY <1>11, <1>15, <2>1 DEF Children, Content
<1>17. Renews(t, "split", n, lost, K, r, R, dst)
  <2>1. lost = IF ptr[t] # Nil \/ "split" = "erase" THEN FrameItem(t) ELSE Nil
    BY <1>1
  <2>2. Rewrites(n, dst, R) /\ Makes({dst} \cup R, depth[n])
    BY <1>6, <1>9
  <2>3. refs' = IF persistent[n] THEN Counted({dst} \cup R, K) ELSE Counted(R, {})
    BY <1>6, <1>9, <1>10
  <2>4. \A m \in {dst} \cup R : Distinct(items'[m])
    BY <1>9, <1>13, <1>15
  <2>5. /\ \A m \in NodeId :
             m \in Children(dst)' \/ (r # Nil /\ m \in Children(r)')
               <=> m \in K \/ m = ptr[t] \/ m = right[t]
        /\ \A m \in NodeId : r # Nil => ~(m \in Children(dst)' /\ m \in Children(r)')
    BY <1>9, <1>10, <1>13, <1>16
  <2>6. /\ pc' = [pc EXCEPT ![t] = IF r = Nil THEN "replace" ELSE "split"]
        /\ ptr' = [ptr EXCEPT ![t] = Changed(n, dst)]
        /\ right' = [right EXCEPT ![t] = r]
    BY <1>7, <1>9 DEF CallSplit
  <2>7. Drops(t, IF persistent[n] THEN Nil ELSE lost)
    BY <1>5, <1>10
  <2> QED
    BY <1>0, <1>2, <1>5, <1>6, <1>8, <1>9, <1>15, <2>1, <2>2, <2>3, <2>4, <2>5, <2>6, <2>7
       DEF Renews
<1> QED
  BY <1>5, <1>17, InnerKept

-----------------------------------------------------------------------------
(* Pointers that change hands *)

\* A thread without continuations is on no path.
LEMMA EmptyPath ==
    ASSUME NEW t \in Transients, stack'[t] = <<>>, pc'[t] # "descend"
    PROVE  Path(t)'
  BY DEF Path

\* The pointers a thread has taken when it writes to no node.
LEMMA Pointers ==
    ASSUME NEW t, NEW h, NEW n \in NodeId
    PROVE  /\ Ones(t, h, Nil, Nil, n) =
                One(root[t] = n) + One(h # t /\ root[h] = n) + One(ptr[t] = n)
                  + One(right[t] = n) + One(drop[t] = n)
           /\ Ones(t, h, Nil, Nil, n)' =
                One(root'[t] = n) + One(h # t /\ root'[h] = n) + One(ptr'[t] = n)
                  + One(right'[t] = n) + One(drop'[t] = n)
           /\ n # Nil
  BY NodePointer DEF Ones, One

\* Thread t moves pointers it has, or makes a second one.
LEMMA MovesKept ==
    ASSUME NEW owner \in Owner, MemInv(owner), TypeOK', NEW t \in Transients,
           pc[t] # "persist", ~Busy(t), Waits(t),
           UNCHANGED <<items, depth, persistent, dying>>, Shares,
           NEW h \in Handle, \A g \in Handle \ {t, h} : root'[g] = root[g],
           Counts(t, h, Nil, Nil),
           marking'[t] = <<>> \/ marking'[t] = <<ptr'[t]>>,
           \A n \in NodeId :
               \/ refs'[n] = refs[n]
               \/ /\ refs'[n] = refs[n] + 1 /\ Placed(n)
                  /\ persistent[n] \/ (refs'[n] = 2 /\ SharedRoot(t, n)'),
           stack'[t] = <<>>, pc'[t] # "descend",
           Sees(owner, t, root'[t]), Sees(owner, t, ptr'[t]),
           Sees(owner, t, right'[t]), Sees(owner, t, drop'[t]),
           Results(t)'
    PROVE  \E owner2 \in Owner : MemInv(owner2)'
<1>1. Reaches(owner, t, {})
  BY DEF Reaches, Found, MemInv, Owned, Held
<1>2. Works(owner, t, {}, {})
  BY <1>1, QuietWorks
<1> QED
  BY <1>2, EmptyPath, WorkKept

\* What a thread that is doing nothing else has in its hands.
LEMMA HandsEmpty ==
    ASSUME NEW owner, MemInv(owner), NEW t \in Transients, ~Busy(t)
    PROVE  /\ Memory /\ Results(t) /\ Held(owner, t) /\ Owned(owner)
           /\ drop[t] = Nil /\ dying[t] = <<>>
           /\ pc[t] # "persist" => marking[t] = <<>>
           /\ pc[t] \notin {"replace", "split", "discard", "persist"} => ptr[t] = Nil
           /\ pc[t] # "split" => right[t] = Nil
           /\ pc[t] \in {"idle", "collapse", "discard", "done"} => stack[t] = <<>>
  BY DEF MemInv, Threads, Owned, Results, Busy

\* A node a thread may change in place has a single owner.
LEMMA SoleOwner ==
    ASSUME NEW owner, MemInv(owner), NEW t \in Transients, pc[t] # "persist", ~Busy(t),
           NEW n \in NodeId, refs[n] > 0, ~persistent[n], Sees(owner, t, n)
    PROVE  refs[n] = 1
<1> SUFFICES ASSUME refs[n] # 1 PROVE FALSE
  OBVIOUS
<1>0. Memory /\ Owned(owner) /\ Exclusive
  BY DEF MemInv
<1>1. refs[n] > 1
  BY <1>0, RefsNat
<1>2. PICK u \in Transients : SharedRoot(u, n)
  BY <1>0, <1>1 DEF Exclusive
<1>3. u # t
  BY <1>2, NotShared
<1>4. owner[n] = t
  BY <1>0 DEF Owned, Sees
<1>5. Sees(owner, u, n)
  BY <1>0, <1>2 DEF SharedRoot, Owned, Held
<1> QED
  BY <1>3, <1>4, <1>5, NoOneIsNoThread DEF Sees

\* The root of a Persistent is marked, and everyone may reach it.
LEMMA RootShared ==
    ASSUME NEW owner, MemInv(owner), NEW p \in Persistents, root[p] # Nil
    PROVE  /\ root[p] \in NodeId /\ refs[root[p]] > 0 /\ Placed(root[p])
           /\ persistent[root[p]] /\ owner[root[p]] = NoOne
<1>0. Memory /\ Owned(owner)
  BY DEF MemInv
<1>1. root[p] \in NodeId /\ Placed(root[p])
  BY <1>0, RootPointer DEF Memory, Handle, Placed
<1>2. refs[root[p]] > 0
  BY <1>0, <1>1, HeldAlive
<1> QED
  BY <1>0, <1>1, <1>2 DEF Owned

-----------------------------------------------------------------------------
(* The tree object takes the result *)

\* The root becomes the new version.
LEMMA RootReplaceKept ==
    ASSUME NEW owner \in Owner, MemInv(owner), TypeOK', NEW t \in Transients,
           RootReplace(t)
    PROVE  \E owner2 \in Owner : MemInv(owner2)'
<1> DEFINE new == IF ptr[t] = Nil THEN root[t] ELSE ptr[t]
<1>0. /\ pc[t] = "replace" /\ ~Busy(t) /\ stack[t] = <<>>
      /\ root' = [root EXCEPT ![t] = new]
      /\ Drops(t, IF ptr[t] = Nil THEN Nil ELSE root[t])
      /\ \E phase \in {"collapse", "done"} : Complete(t, phase)
      /\ UNCHANGED <<items, depth, persistent, refs, at, rightMost, stack, dying, marking>>
  BY DEF RootReplace, AtRoot, nodes
<1>1. PICK phase \in {"collapse", "done"} : Complete(t, phase)
  BY <1>0
<1>2. Memory /\ Held(owner, t) /\ drop[t] = Nil /\ marking[t] = <<>> /\ right[t] = Nil
  BY <1>0, HandsEmpty
<1>3. /\ pc'[t] = phase /\ root'[t] = new /\ ptr'[t] = Nil /\ right'[t] = Nil
      /\ drop'[t] = IF ptr[t] = Nil THEN Nil ELSE root[t]
      /\ \A g \in Handle \ {t} : root'[g] = root[g]
      /\ Waits(t) /\ t \in Handle
  BY <1>0, <1>1, <1>2 DEF Drops, Complete, Waits, Memory, TypeOK, TreesOK, ControlOK,
                         ResultOK, ChoresOK, Handle
<1>4. Counts(t, t, Nil, Nil)
  <2> SUFFICES ASSUME NEW m \in NodeId
               PROVE  Ones(t, t, Nil, Nil, m)' = Ones(t, t, Nil, Nil, m)
    BY <1>0 DEF Counts
  <2> QED  BY <1>2, <1>3, Pointers DEF One
<1>5. Shares
  BY <1>3, TreeAssumption DEF Shares, Handle
<1>6. /\ Sees(owner, t, root'[t]) /\ Sees(owner, t, ptr'[t])
      /\ Sees(owner, t, right'[t]) /\ Sees(owner, t, drop'[t])
  BY <1>2, <1>3, NodePointer DEF Held, Sees
<1>7. Results(t)'
  BY <1>0, <1>2, <1>3 DEF Results
<1>8. pc'[t] # "descend" /\ stack'[t] = <<>> /\ marking'[t] = <<>> /\ pc[t] # "persist"
      /\ (\A n \in NodeId : refs'[n] = refs[n]) /\ UNCHANGED <<items, depth, persistent, dying>>
  BY <1>0, <1>2, <1>3
<1> HIDE DEF new
<1> QED
  BY <1>0, <1>3, <1>4, <1>5, <1>6, <1>7, <1>8, MovesKept

\* A tree at its depth limit refuses the new root and drops the halves.
LEMMA RootSplitTooDeepKept ==
    ASSUME NEW owner \in Owner, MemInv(owner), TypeOK', NEW t \in Transients,
           RootSplitTooDeep(t)
    PROVE  \E owner2 \in Owner : MemInv(owner2)'
<1>0. /\ pc[t] = "split" /\ ~Busy(t) /\ stack[t] = <<>>
      /\ Drops(t, right[t])
      /\ right' = [right EXCEPT ![t] = Nil]
      /\ pc' = [pc EXCEPT ![t] = "discard"]
      /\ UNCHANGED <<items, depth, persistent, refs, root, ptr, at, rightMost, stack, dying, marking>>
  BY DEF RootSplitTooDeep, AtRoot, nodes, trees
<1>2. Memory /\ Held(owner, t) /\ Results(t) /\ drop[t] = Nil /\ marking[t] = <<>>
  BY <1>0, HandsEmpty
<1>3. /\ pc'[t] = "discard" /\ right'[t] = Nil /\ drop'[t] = right[t]
      /\ Waits(t) /\ t \in Handle
  BY <1>0, <1>2 DEF Drops, Waits, Memory, TypeOK, ControlOK, ResultOK, ChoresOK, Handle
<1>4. Counts(t, t, Nil, Nil)
  <2> SUFFICES ASSUME NEW m \in NodeId
               PROVE  Ones(t, t, Nil, Nil, m)' = Ones(t, t, Nil, Nil, m)
    BY <1>0 DEF Counts
  <2> QED  BY <1>0, <1>2, <1>3, Pointers DEF One
<1>5. Shares
  BY <1>0 DEF Shares
<1>6. /\ Sees(owner, t, root'[t]) /\ Sees(owner, t, ptr'[t])
      /\ Sees(owner, t, right'[t]) /\ Sees(owner, t, drop'[t])
  BY <1>0, <1>2, <1>3, NodePointer DEF Held, Sees
<1>7. Results(t)'
  BY <1>0, <1>2, <1>3 DEF Results, Fresh
<1>8. pc'[t] # "descend" /\ stack'[t] = <<>> /\ marking'[t] = <<>> /\ pc[t] # "persist"
      /\ (\A n \in NodeId : refs'[n] = refs[n]) /\ UNCHANGED <<items, depth, persistent, dying>>
  BY <1>0, <1>2, <1>3
<1> QED
  BY <1>0, <1>3, <1>4, <1>5, <1>6, <1>7, <1>8, MovesKept

\* The left half goes after the right one.
LEMMA DiscardLeftKept ==
    ASSUME NEW owner \in Owner, MemInv(owner), TypeOK', NEW t \in Transients,
           DiscardLeft(t)
    PROVE  \E owner2 \in Owner : MemInv(owner2)'
<1>0. /\ pc[t] = "discard" /\ ~Busy(t) /\ stack[t] = <<>>
      /\ Drops(t, ptr[t]) /\ Complete(t, "done")
      /\ UNCHANGED <<items, depth, persistent, refs, root, at, rightMost, stack, dying, marking>>
  BY DEF DiscardLeft, AtRoot, LeftHalf, nodes, trees
<1>2. Memory /\ Held(owner, t) /\ drop[t] = Nil /\ marking[t] = <<>> /\ right[t] = Nil
  BY <1>0, HandsEmpty
<1>3. /\ pc'[t] = "done" /\ ptr'[t] = Nil /\ right'[t] = Nil /\ drop'[t] = ptr[t]
      /\ Waits(t) /\ t \in Handle
  BY <1>0, <1>2 DEF Drops, Complete, Waits, Memory, TypeOK, ControlOK, ResultOK, ChoresOK, Handle
<1>4. Counts(t, t, Nil, Nil)
  <2> SUFFICES ASSUME NEW m \in NodeId
               PROVE  Ones(t, t, Nil, Nil, m)' = Ones(t, t, Nil, Nil, m)
    BY <1>0 DEF Counts
  <2> QED  BY <1>0, <1>2, <1>3, Pointers DEF One
<1>5. Shares
  BY <1>0 DEF Shares
<1>6. /\ Sees(owner, t, root'[t]) /\ Sees(owner, t, ptr'[t])
      /\ Sees(owner, t, right'[t]) /\ Sees(owner, t, drop'[t])
  BY <1>0, <1>2, <1>3, NodePointer DEF Held, Sees
<1>7. Results(t)'
  BY <1>0, <1>2, <1>3 DEF Results
<1>8. pc'[t] # "descend" /\ stack'[t] = <<>> /\ marking'[t] = <<>> /\ pc[t] # "persist"
      /\ (\A n \in NodeId : refs'[n] = refs[n]) /\ UNCHANGED <<items, depth, persistent, dying>>
  BY <1>0, <1>2, <1>3
<1> QED
  BY <1>0, <1>3, <1>4, <1>5, <1>6, <1>7, <1>8, MovesKept

\* A root with one child gives way to that child.
LEMMA CollapseKept ==
    ASSUME NEW owner \in Owner, MemInv(owner), TypeOK', NEW t \in Transients,
           Collapse(t)
    PROVE  \E owner2 \in Owner : MemInv(owner2)'
<1> DEFINE old == root[t]
           new == items[old][1]
<1>0. /\ pc[t] = "collapse" /\ ~Busy(t) /\ depth[old] > 1 /\ Len(items[old]) = 1
      /\ root' = [root EXCEPT ![t] = new]
      /\ refs' = Counted({}, {new})
      /\ Drops(t, old)
      /\ \E phase \in {"collapse", "done"} : pc' = [pc EXCEPT ![t] = phase]
      /\ UNCHANGED <<items, depth, persistent, at, rightMost, stack, ptr, right, dying, marking>>
  BY DEF Collapse, OnlyChild, Collapsible, result
<1>1. PICK phase \in {"collapse", "done"} : pc' = [pc EXCEPT ![t] = phase]
  BY <1>0
<1>2. /\ Memory /\ Held(owner, t) /\ Owned(owner) /\ drop[t] = Nil /\ dying[t] = <<>>
      /\ marking[t] = <<>> /\ right[t] = Nil /\ ptr[t] = Nil /\ stack[t] = <<>>
  BY <1>0, HandsEmpty
<1>3. /\ pc'[t] = phase /\ root'[t] = new /\ drop'[t] = old
      /\ \A g \in Handle \ {t} : root'[g] = root[g]
      /\ Waits(t) /\ t \in Handle
  BY <1>0, <1>1, <1>2 DEF Drops, Waits, Memory, TypeOK, TreesOK, ControlOK, ChoresOK, Handle
<1>4. old \in NodeId /\ old # Nil
  BY <1>0, <1>2, RootIsNode, NodePointer DEF Memory
<1>5. items[old] = <<new>> /\ items[old] \in Seq(NodeId) /\ new \in NodeId
  <2>1. items[old] \in Seq(NodeId)
    BY <1>0, <1>2, <1>4 DEF Memory, TypeOK, NodesOK
  <2> QED  BY <1>0, <2>1
<1>6. new \in Children(old) /\ Placed(new) /\ refs[new] > 0 /\ Sees(owner, t, new)
  <2>1. new \in Children(old)
    BY <1>0 DEF Children
  <2>2. Placed(new)
    BY <1>4, <2>1 DEF Placed
  <2>3. refs[new] > 0
    BY <1>2, <1>5, <2>2, HeldAlive
  <2>4. Sees(owner, t, new)
    BY <1>2, <1>4, <2>1 DEF Sees, Owned, Held
  <2> QED  BY <2>1, <2>2, <2>3, <2>4
<1> HIDE DEF old, new
<1>7. \A n \in NodeId : refs'[n] = refs[n] + One(n = new)
  <2>1. \A n \in NodeId : refs'[n] = IF n = new THEN refs[n] + 1 ELSE refs[n]
    BY <1>0 DEF Counted
  <2> QED  BY <1>2, <2>1, RefsNat DEF One
<1>8. Counts(t, t, Nil, Nil)
  <2> SUFFICES ASSUME NEW m \in NodeId
               PROVE  refs'[m] + Ones(t, t, Nil, Nil, m) = refs[m] + Ones(t, t, Nil, Nil, m)'
    BY DEF Counts
  <2>1. refs'[m] = refs[m] + One(m = new) /\ refs[m] \in Nat /\ m # Nil
    BY <1>2, <1>7, RefsNat, NodePointer
  <2>2. Ones(t, t, Nil, Nil, m) = One(m = old)
    BY <1>2, <2>1, Pointers DEF One, old
  <2>3. Ones(t, t, Nil, Nil, m)' = One(m = old) + One(m = new)
    BY <1>0, <1>2, <1>3, <2>1, Pointers DEF One
  <2>4. One(m = old) \in Nat /\ One(m = new) \in Nat
    BY DEF One
  <2> QED  BY ONLY <2>1, <2>2, <2>3, <2>4
<1>9. Shares
  BY <1>3, TreeAssumption DEF Shares, Handle
<1>10. /\ Sees(owner, t, root'[t]) /\ Sees(owner, t, ptr'[t])
       /\ Sees(owner, t, right'[t]) /\ Sees(owner, t, drop'[t])
  BY <1>0, <1>2, <1>3, <1>6, NodePointer DEF Held, Sees, old
<1>11. Results(t)'
  BY <1>0, <1>2, <1>3 DEF Results
<1>12. \A n \in NodeId :
               \/ refs'[n] = refs[n]
               \/ /\ refs'[n] = refs[n] + 1 /\ Placed(n)
                  /\ persistent[n] \/ (refs'[n] = 2 /\ SharedRoot(t, n)')
  <2> SUFFICES ASSUME NEW n \in NodeId, refs'[n] # refs[n]
               PROVE  /\ refs'[n] = refs[n] + 1 /\ Placed(n)
                      /\ persistent[n] \/ (refs'[n] = 2 /\ SharedRoot(t, n)')
    OBVIOUS
  <2>1. n = new /\ refs'[n] = refs[n] + 1
    BY <1>2, <1>7, RefsNat DEF One
  <2>2. ~persistent[n] => refs[n] = 1
    BY <1>0, <1>6, <2>1, SoleOwner
  <2>3. old \in NodeId /\ depth'[old] > 1 /\ items'[old] = <<n>>
    BY <1>0, <1>4, <1>5, <2>1
  <2>4. SharedRoot(t, n)'
    BY <1>3, <1>4, <2>1, <2>3 DEF SharedRoot, Only
  <2> QED  BY <1>6, <2>1, <2>2, <2>4
<1>13. pc'[t] # "descend" /\ stack'[t] = <<>> /\ marking'[t] = <<>> /\ pc[t] # "persist"
       /\ UNCHANGED <<items, depth, persistent, dying>>
  BY <1>0, <1>2, <1>3
<1> QED
  BY <1>0, <1>3, <1>8, <1>9, <1>10, <1>11, <1>12, <1>13, MovesKept

\* Thread t has a new root r of depth d with array new, and drops the old one.
LEMMA NewRootKept ==
    ASSUME NEW owner \in Owner, MemInv(owner), TypeOK', NEW t \in Transients,
           pc[t] # "persist", ~Busy(t), stack[t] = <<>>,
           NEW r \in NodeId, NEW new, NEW d, Allocates(r, {}),
           items' = [items EXCEPT ![r] = new], Makes({r}, d), refs' = Counted({r}, {}),
           root' = [root EXCEPT ![t] = r],
           UNCHANGED <<at, rightMost, stack, dying, marking>>,
           Waits(t), pc'[t] \in {"done", "idle"}, ptr'[t] = Nil, right'[t] = Nil,
           drop'[t] \in {Nil, root[t]},
           \/ d = 1
           \/ /\ Distinct(new)
              /\ \A k \in 1 .. Len(new) :
                   refs[new[k]] > 0 /\ Sees(owner, t, new[k]) /\ d = depth[new[k]] + 1,
           Counts(t, t, r, r)
    PROVE  \E owner2 \in Owner : MemInv(owner2)'
<1>0. /\ Memory /\ Held(owner, t) /\ Owned(owner) /\ drop[t] = Nil /\ dying[t] = <<>>
      /\ marking[t] = <<>>
  BY HandsEmpty
<1>1. r \in FreeNodes /\ r # Nil
  BY NodePointer DEF Allocates
<1>2. \A m \in NodeId : /\ depth'[m] = IF m = r THEN d ELSE depth[m]
                        /\ persistent'[m] = IF m = r THEN FALSE ELSE persistent[m]
  BY <1>0 DEF Makes, Memory, TypeOK, NodesOK
<1>3. \A m \in NodeId : refs'[m] = IF m = r THEN 1 ELSE refs[m]
  BY DEF Counted
<1>4. /\ \A m \in NodeId : items'[m] = IF m = r THEN new ELSE items[m]
      /\ root'[t] = r /\ \A g \in Handle \ {t} : root'[g] = root[g]
      /\ t \in Handle
  BY <1>0 DEF Memory, TypeOK, NodesOK, TreesOK, Handle
<1>5. Writes(owner, t, {r}, {r})
  <2>1. \A m \in NodeId \ {r} : Kept(m)
    BY <1>2, <1>4 DEF Kept
  <2> QED  BY <1>1, <1>2, <1>3, <2>1 DEF Writes, FreeNodes
<1>6. Forms(owner, t, {r}, {r})
  <2> SUFFICES ASSUME d # 1
               PROVE  /\ Distinct(items'[r])
                      /\ \A c \in Children(r)' :
                           refs[c] > 0 /\ Sees(owner, t, c) /\ depth'[r] = depth[c] + 1
    BY <1>2 DEF Forms
  <2>0. depth'[r] = d /\ items'[r] = new
    BY <1>2, <1>4
  <2>1. Children(r)' = {new[k] : k \in 1 .. Len(new)}
    BY <2>0 DEF Children
  <2>2. \A k \in 1 .. Len(new) : refs[new[k]] > 0 /\ Sees(owner, t, new[k]) /\ d = depth[new[k]] + 1
    OBVIOUS
  <2>3. \A c \in Children(r)' : refs[c] > 0 /\ Sees(owner, t, c) /\ depth'[r] = depth[c] + 1
    BY ONLY <2>0, <2>1, <2>2
  <2> QED  BY <2>0, <2>3
<1>7. Reaches(owner, t, {r})
  <2>1. Found(owner, t, {r}, drop'[t])
    BY <1>0, NodePointer DEF Found, Held, Sees
  <2> QED  BY <1>0, <1>4, <2>1, NodePointer DEF Reaches, Found, Held, Sees
<1>8. Shares
  BY <1>4, TreeAssumption DEF Shares, Handle
<1>9. Works(owner, t, {r}, {r})
  <2>1. refs[r] = 0 /\ \A n \in NodeId : refs[n] \in Nat
    BY <1>0, <1>1, RefsNat DEF FreeNodes
  <2>2. \A n \in NodeId : refs'[n] >= refs[n]
    <3> SUFFICES ASSUME NEW n \in NodeId PROVE refs'[n] >= refs[n]
      OBVIOUS
    <3>1. refs'[n] = (IF n = r THEN 1 ELSE refs[n]) /\ refs[n] \in Nat /\ (n = r => refs[n] = 0)
      BY <1>3, <2>1
    <3> QED  BY ONLY <3>1
  <2>3. \A n \in {r} : refs'[n] > 0 /\ ~persistent'[n]
    <3>1. r \in NodeId /\ refs'[r] = 1 /\ persistent'[r] = FALSE
      BY <1>2, <1>3
    <3> QED  BY ONLY <3>1
  <2>4. \A n \in NodeId \ {r} : refs'[n] = refs[n]
    BY <1>3
  <2>5. marking'[t] = <<>> /\ UNCHANGED dying
    BY <1>0
  <2> QED  BY <1>5, <1>6, <1>7, <1>8, <2>2, <2>3, <2>4, <2>5 DEF Works
<1>10. Results(t)'
  BY <1>0 DEF Results
<1> QED
  BY <1>4, <1>9, <1>10, EmptyPath, WorkKept

\* The counts after such a step: the new root's pointers are those that were held.
LEMMA NewRootCounts ==
    ASSUME NEW owner, MemInv(owner), NEW t \in Transients,
           pc[t] # "persist", ~Busy(t),
           NEW r \in FreeNodes, refs' = Counted({r}, {}),
           root' = [root EXCEPT ![t] = r], ptr'[t] = Nil, right'[t] = Nil,
           \A n \in NodeId : One(root[t] = n) + One(ptr[t] = n) + One(right[t] = n)
                              = One(drop'[t] = n) + One(n \in Children(r)')
    PROVE  Counts(t, t, r, r)
<1>0. Memory /\ drop[t] = Nil
  BY HandsEmpty
<1>1. r \in NodeId /\ Children(r) = {} /\ refs[r] = 0 /\ root'[t] = r
  BY <1>0, FreeFacts DEF Memory, TypeOK, TreesOK, Handle
<1> SUFFICES ASSUME NEW n \in NodeId
             PROVE  refs'[n] + Ones(t, t, r, r, n) = refs[n] + Ones(t, t, r, r, n)'
  BY DEF Counts
<1>2. refs'[n] = (IF n = r THEN 1 ELSE refs[n]) /\ refs[n] \in Nat /\ n # Nil
  BY <1>0, RefsNat, NodePointer DEF Counted
<1>3. refs'[n] = refs[n] + One(r = n)
  BY <1>1, <1>2 DEF One
<1>4. Ones(t, t, r, r, n) = One(root[t] = n) + One(ptr[t] = n) + One(right[t] = n)
  BY <1>0, <1>1, <1>2 DEF Ones, One
<1>5. Ones(t, t, r, r, n)' = One(r = n) + One(drop'[t] = n) + One(n \in Children(r)')
  BY <1>1, <1>2 DEF Ones, One
<1>6. /\ One(r = n) \in Nat /\ One(drop'[t] = n) \in Nat /\ One(n \in Children(r)') \in Nat
      /\ One(root[t] = n) \in Nat /\ One(ptr[t] = n) \in Nat /\ One(right[t] = n) \in Nat
  BY DEF One
<1>7. One(root[t] = n) + One(ptr[t] = n) + One(right[t] = n)
                              = One(drop'[t] = n) + One(n \in Children(r)')
  OBVIOUS
<1> DEFINE A == One(root[t] = n)
           B == One(ptr[t] = n)
           C == One(right[t] = n)
           D == One(drop'[t] = n)
           E == One(n \in Children(r)')
           G == One(r = n)
           Y == refs'[n]
           X == refs[n]
           U == Ones(t, t, r, r, n)
           V == Ones(t, t, r, r, n)'
<1>8. /\ Y = X + G /\ U = A + B + C /\ V = G + D + E /\ A + B + C = D + E
      /\ A \in Nat /\ B \in Nat /\ C \in Nat /\ D \in Nat /\ E \in Nat /\ G \in Nat /\ X \in Nat
  BY <1>2, <1>3, <1>4, <1>5, <1>6, <1>7
<1> HIDE DEF A, B, C, D, E, G, X, Y, U, V
<1>9. Y + U = X + V
  BY ONLY <1>8
<1> QED
  BY <1>9 DEF X, Y, U, V

\* A new empty leaf for a root, and nothing else in hand.
LEMMA EmptyRootKept ==
    ASSUME NEW owner \in Owner, MemInv(owner), TypeOK', NEW t \in Transients,
           pc[t] # "persist", ~Busy(t), stack[t] = <<>>, ptr[t] = Nil, right[t] = Nil,
           NEW r \in NodeId, Allocates(r, {}),
           items' = [items EXCEPT ![r] = <<>>], Makes({r}, 1), refs' = Counted({r}, {}),
           root' = [root EXCEPT ![t] = r], Drops(t, root[t]),
           UNCHANGED <<at, rightMost, stack, dying, marking>>,
           \A u \in Transients \ {t} : pc'[u] = pc[u] /\ ptr'[u] = ptr[u] /\ right'[u] = right[u],
           pc'[t] \in {"done", "idle"}, ptr'[t] = Nil, right'[t] = Nil
    PROVE  \E owner2 \in Owner : MemInv(owner2)'
<1>0. Memory
  BY DEF MemInv
<1>1. drop'[t] = root[t] /\ Waits(t)
  BY <1>0, TreeAssumption DEF Drops, Waits, Memory, TypeOK, TreesOK, ChoresOK, Handle
<1>2. Children(r)' = {} /\ r \in FreeNodes
  BY DEF Makes, Children, Allocates
<1>3. \A n \in NodeId : One(root[t] = n) + One(ptr[t] = n) + One(right[t] = n)
                          = One(drop'[t] = n) + One(n \in Children(r)')
  BY <1>1, <1>2, NodePointer DEF One
<1>4. Counts(t, t, r, r)
  BY <1>2, <1>3, NewRootCounts
<1> QED
  BY <1>1, <1>4, NewRootKept

\* The last element goes: a new empty root.
LEMMA RootEraseKept ==
    ASSUME NEW owner \in Owner, MemInv(owner), TypeOK', NEW t \in Transients,
           RootErase(t)
    PROVE  \E owner2 \in Owner : MemInv(owner2)'
<1>1. PICK r \in NodeId :
         /\ Allocates(r, {})
         /\ items' = [items EXCEPT ![r] = <<>>]
         /\ Makes({r}, 1)
         /\ refs' = Counted({r}, {})
         /\ root' = [root EXCEPT ![t] = r]
  BY DEF RootErase
<1>2. /\ pc[t] = "erase" /\ ~Busy(t) /\ stack[t] = <<>>
      /\ Drops(t, root[t]) /\ Complete(t, "done")
      /\ UNCHANGED <<at, rightMost, stack, dying, marking>>
  BY DEF RootErase, AtRoot
<1>3. Memory /\ ptr[t] = Nil /\ right[t] = Nil
  BY <1>2, HandsEmpty
<1>4. /\ pc'[t] = "done" /\ ptr'[t] = Nil /\ right'[t] = Nil
      /\ \A u \in Transients \ {t} : pc'[u] = pc[u] /\ ptr'[u] = ptr[u] /\ right'[u] = right[u]
  BY <1>2, <1>3 DEF Complete, Memory, TypeOK, ControlOK, ResultOK
<1> QED
  BY <1>1, <1>2, <1>3, <1>4, EmptyRootKept

\* clear: a new empty root.
LEMMA EmptiesKept ==
    ASSUME NEW owner \in Owner, MemInv(owner), TypeOK', NEW t \in Transients,
           Resting(t), Empties(t)
    PROVE  \E owner2 \in Owner : MemInv(owner2)'
<1>1. PICK r \in NodeId :
         /\ Allocates(r, {})
         /\ items' = [items EXCEPT ![r] = <<>>]
         /\ Makes({r}, 1)
         /\ refs' = Counted({r}, {})
         /\ root' = [root EXCEPT ![t] = r]
  BY DEF Empties
<1>2. /\ pc[t] = "idle" /\ ~Busy(t)
      /\ Drops(t, root[t])
      /\ UNCHANGED <<pc, at, rightMost, stack, ptr, right, dying, marking>>
  BY DEF Empties, Resting, control, result
<1>3. Memory /\ ptr[t] = Nil /\ right[t] = Nil /\ stack[t] = <<>>
  BY <1>2, HandsEmpty
<1>4. /\ pc'[t] = "idle" /\ ptr'[t] = Nil /\ right'[t] = Nil
      /\ \A u \in Transients \ {t} : pc'[u] = pc[u] /\ ptr'[u] = ptr[u] /\ right'[u] = right[u]
  BY <1>2, <1>3
<1> QED
  BY <1>1, <1>2, <1>3, <1>4, EmptyRootKept

\* A new root above the halves.
LEMMA RootSplitKept ==
    ASSUME NEW owner \in Owner, MemInv(owner), TypeOK', NEW t \in Transients,
           RootSplit(t)
    PROVE  \E owner2 \in Owner : MemInv(owner2)'
<1>0. PICK left : left = IF ptr[t] = Nil THEN root[t] ELSE ptr[t]
  OBVIOUS
<1>1. PICK r \in NodeId :
         /\ Allocates(r, {})
         /\ items' = [items EXCEPT ![r] = <<left, right[t]>>]
         /\ Makes({r}, depth[root[t]] + 1)
         /\ refs' = Counted({r}, {})
         /\ root' = [root EXCEPT ![t] = r]
  BY <1>0 DEF RootSplit
<1>2. /\ pc[t] = "split" /\ ~Busy(t) /\ stack[t] = <<>>
      /\ Drops(t, IF ptr[t] = Nil THEN Nil ELSE root[t]) /\ Complete(t, "done")
      /\ UNCHANGED <<at, rightMost, stack, dying, marking>>
  BY DEF RootSplit, AtRoot
<1>3. Memory /\ Held(owner, t) /\ Results(t)
  BY <1>2, HandsEmpty
<1>4. /\ pc'[t] = "done" /\ ptr'[t] = Nil /\ right'[t] = Nil
      /\ drop'[t] = (IF ptr[t] = Nil THEN Nil ELSE root[t])
      /\ Waits(t)
  BY <1>1, <1>2, <1>3, TreeAssumption DEF Complete, Drops, Waits, Memory, TypeOK, TreesOK,
     ControlOK, ResultOK, ChoresOK, Handle
<1>5. root[t] \in NodeId /\ right[t] \in NodeId /\ ptr[t] \in Pointer
      /\ depth[root[t]] \in Nat
  <2>1. root[t] \in NodeId
    BY <1>2, <1>3, RootIsNode DEF Memory
  <2> QED  BY <1>2, <1>3, <2>1 DEF Memory, TypeOK, NodesOK, ResultOK, PhaseOK, Pointer
<1>6. Placed(root[t]) /\ refs[root[t]] > 0
  <2>1. Placed(root[t])
    BY DEF Placed, Handle
  <2> QED  BY <1>3, <1>5, <2>1, HeldAlive
<1>7. Height(t) = depth[root[t]]
  BY <1>2, <1>5 DEF Height
<1>8. /\ refs[right[t]] = 1 /\ depth[right[t]] = depth[root[t]] /\ ~Placed(right[t])
      /\ Sees(owner, t, right[t])
  <2>1. refs[right[t]] = 1 /\ depth[right[t]] = depth[root[t]]
    BY <1>3, <1>5, <1>7, NodePointer DEF Results, Fresh
  <2> QED  BY <1>3, <1>5, <2>1, SoleResult DEF Held
<1>9. ptr[t] # Nil => /\ ptr[t] \in NodeId /\ refs[ptr[t]] = 1
                      /\ depth[ptr[t]] = depth[root[t]] /\ ~Placed(ptr[t])
                      /\ ptr[t] # right[t] /\ Sees(owner, t, ptr[t])
  <2> SUFFICES ASSUME ptr[t] # Nil
               PROVE  /\ ptr[t] \in NodeId /\ refs[ptr[t]] = 1
                      /\ depth[ptr[t]] = depth[root[t]] /\ ~Placed(ptr[t])
                      /\ ptr[t] # right[t] /\ Sees(owner, t, ptr[t])
    OBVIOUS
  <2>1. ptr[t] \in NodeId /\ refs[ptr[t]] = 1 /\ depth[ptr[t]] = depth[root[t]]
    BY <1>2, <1>3, <1>5, <1>7 DEF Results, Fresh, Pointer
  <2> QED  BY <1>3, <2>1, SoleResult, SoleBoth DEF Held
<1>10. /\ left \in NodeId /\ left # right[t] /\ refs[left] > 0 /\ Sees(owner, t, left)
       /\ depth[left] = depth[root[t]]
  BY <1>0, <1>3, <1>5, <1>6, <1>8, <1>9 DEF Held
<1>11. PICK new : new = <<left, right[t]>>
  OBVIOUS
<1>12. /\ Len(new) = 2 /\ new[1] = left /\ new[2] = right[t]
       /\ \A k \in 1 .. Len(new) : k = 1 \/ k = 2
  BY <1>11
<1>13. Distinct(new)
  BY <1>10, <1>12 DEF Distinct
<1>14. \A k \in 1 .. Len(new) :
          refs[new[k]] > 0 /\ Sees(owner, t, new[k]) /\ depth[root[t]] + 1 = depth[new[k]] + 1
  BY <1>8, <1>10, <1>12
<1>15. Children(r)' = {left, right[t]}
  <2>1. depth'[r] = depth[root[t]] + 1 /\ depth'[r] # 1 /\ items'[r] = new
    <3>1. depth[root[t]] # 0
      BY <1>3, <1>5 DEF Memory, TypeOK, NodesOK
    <3> QED  BY <1>1, <1>3, <1>5, <1>11, <3>1 DEF Makes, Memory, TypeOK, NodesOK
  <2>2. Children(r)' = {new[k] : k \in 1 .. Len(new)}
    BY <2>1 DEF Children
  <2>3. 1 \in 1 .. Len(new) /\ 2 \in 1 .. Len(new)
    BY <1>12
  <2> QED  BY <1>12, <2>2, <2>3
<1>16. r \in FreeNodes
  BY <1>1 DEF Allocates
<1>17. Counts(t, t, r, r)
  <2>1. ASSUME NEW n \in NodeId
        PROVE  One(root[t] = n) + One(ptr[t] = n) + One(right[t] = n)
                 = One(drop'[t] = n) + One(n \in Children(r)')
    <3>1. n # Nil
      BY NodePointer
    <3>2. One(n \in Children(r)') = One(left = n) + One(right[t] = n)
      BY <1>10, <1>15 DEF One
    <3> QED  BY <1>0, <1>4, <3>1, <3>2 DEF One
  <2> QED  BY <1>1, <1>2, <1>4, <1>16, <2>1, NewRootCounts
<1>18. items' = [items EXCEPT ![r] = new] /\ drop'[t] \in {Nil, root[t]}
       /\ pc[t] # "persist" /\ pc'[t] \in {"done", "idle"}
  BY <1>1, <1>2, <1>4, <1>11
<1> QED
  BY <1>1, <1>2, <1>4, <1>13, <1>14, <1>17, <1>18, NewRootKept

-----------------------------------------------------------------------------
(* The objects *)

\* persistent(), by copy or by move: a second pointer to the root, or the only one.
LEMMA PersistKept ==
    ASSUME NEW owner \in Owner, MemInv(owner), TypeOK', NEW t \in Transients,
           Persist(t) \/ PersistMove(t)
    PROVE  \E owner2 \in Owner : MemInv(owner2)'
<1> DEFINE r == root[t]
<1>0. /\ pc[t] = "idle" /\ ~Busy(t) /\ r # Nil
      /\ ptr' = [ptr EXCEPT ![t] = r]
      /\ marking' = [marking EXCEPT ![t] = <<r>>]
      /\ pc' = [pc EXCEPT ![t] = "persist"]
      /\ UNCHANGED <<items, depth, persistent, at, rightMost, stack, right, drop, dying>>
  BY DEF Persist, PersistMove, StartsMarking, Resting
<1>1. \/ refs' = Counted({}, {r}) /\ root' = root
      \/ refs' = refs /\ root' = [root EXCEPT ![t] = Nil]
  BY DEF Persist, PersistMove
<1>2. /\ Memory /\ Held(owner, t) /\ drop[t] = Nil /\ dying[t] = <<>>
      /\ marking[t] = <<>> /\ right[t] = Nil /\ ptr[t] = Nil /\ stack[t] = <<>>
  BY <1>0, HandsEmpty
<1>3. /\ pc'[t] = "persist" /\ ptr'[t] = r /\ marking'[t] = <<r>> /\ right'[t] = Nil
      /\ drop'[t] = Nil /\ stack'[t] = <<>> /\ dying'[t] = <<>>
      /\ \A g \in Handle \ {t} : root'[g] = root[g]
      /\ root'[t] \in {r, Nil}
      /\ t \in Handle /\ Waits(t)
  <2>1. t \in Handle /\ (\A g \in Handle \ {t} : root'[g] = root[g]) /\ root'[t] \in {r, Nil}
    BY <1>1, <1>2 DEF Memory, TypeOK, TreesOK, Handle
  <2> QED  BY <1>0, <1>2, <2>1 DEF Waits, Memory, TypeOK, ControlOK, ResultOK, ChoresOK, Handle
<1>4. r \in NodeId /\ Placed(r)
  BY <1>0, <1>2, <1>3, RootPointer DEF Memory, Placed
<1>5. ASSUME root' = root, refs' = Counted({}, {r})
      PROVE  /\ Counts(t, t, Nil, Nil)
             /\ \A n \in NodeId :
               \/ refs'[n] = refs[n]
               \/ /\ refs'[n] = refs[n] + 1 /\ Placed(n)
                  /\ persistent[n] \/ (refs'[n] = 2 /\ SharedRoot(t, n)')
  <2>1. ASSUME NEW n \in NodeId PROVE refs'[n] = refs[n] + One(n = r) /\ refs[n] \in Nat
    BY <1>2, <1>5, RefsNat DEF Counted, One
  <2>2. Counts(t, t, Nil, Nil)
    <3> SUFFICES ASSUME NEW n \in NodeId
                 PROVE  refs'[n] + Ones(t, t, Nil, Nil, n) = refs[n] + Ones(t, t, Nil, Nil, n)'
      BY DEF Counts
    <3>1. Ones(t, t, Nil, Nil, n) = One(n = r) /\ Ones(t, t, Nil, Nil, n)' = One(n = r) + One(n = r)
      BY <1>2, <1>3, <1>5, Pointers DEF One
    <3>2. One(n = r) \in Nat
      BY DEF One
    <3>3. refs'[n] = refs[n] + One(n = r) /\ refs[n] \in Nat
      BY <2>1
    <3> QED  BY ONLY <3>1, <3>2, <3>3
  <2>3. ASSUME NEW n \in NodeId, refs'[n] # refs[n]
        PROVE  /\ refs'[n] = refs[n] + 1 /\ Placed(n)
               /\ persistent[n] \/ (refs'[n] = 2 /\ SharedRoot(t, n)')
    <3>1. n = r /\ refs'[n] = refs[n] + 1
      BY <2>1, <2>3 DEF One
    <3>2. ~persistent[n] => refs[n] = 1
      BY <1>0, <1>2, <1>4, <3>1, HeldAlive, SoleOwner DEF Held
    <3>3. SharedRoot(t, n)'
      BY <1>3, <1>5, <3>1 DEF SharedRoot
    <3> QED  BY <1>4, <3>1, <3>2, <3>3
  <2> QED  BY <2>2, <2>3
<1>6. ASSUME root' = [root EXCEPT ![t] = Nil], refs' = refs
      PROVE  Counts(t, t, Nil, Nil)
  <2>1. root'[t] = Nil
    BY <1>2, <1>3, <1>6 DEF Memory, TypeOK, TreesOK
  <2> SUFFICES ASSUME NEW m \in NodeId
               PROVE  Ones(t, t, Nil, Nil, m)' = Ones(t, t, Nil, Nil, m)
    BY <1>6 DEF Counts
  <2> QED  BY <1>2, <1>3, <2>1, Pointers DEF One
<1>7. Shares
  BY <1>3, TreeAssumption DEF Shares, Handle
<1>8. /\ Sees(owner, t, root'[t]) /\ Sees(owner, t, ptr'[t])
      /\ Sees(owner, t, right'[t]) /\ Sees(owner, t, drop'[t])
  BY <1>2, <1>3, NodePointer DEF Held, Sees
<1>9. Results(t)'
  BY <1>0, <1>3 DEF Results, Busy
<1>10. /\ Counts(t, t, Nil, Nil)
       /\ \A n \in NodeId :
               \/ refs'[n] = refs[n]
               \/ /\ refs'[n] = refs[n] + 1 /\ Placed(n)
                  /\ persistent[n] \/ (refs'[n] = 2 /\ SharedRoot(t, n)')
  BY <1>1, <1>5, <1>6
<1>11. pc'[t] # "descend" /\ marking'[t] = <<ptr'[t]>> /\ pc[t] # "persist"
       /\ UNCHANGED <<items, depth, persistent, dying>>
  BY <1>0, <1>3
<1> HIDE DEF r
<1> QED
  BY <1>0, <1>3, <1>7, <1>8, <1>9, <1>10, <1>11, MovesKept

\* A call of thread t that gives objects t and h other roots, the one h is left with
\* dropped.
LEMMA ObjectKept ==
    ASSUME NEW owner \in Owner, MemInv(owner), TypeOK', NEW t \in Transients, Resting(t),
           NEW h \in Handle, \A g \in Handle \ {t, h} : root'[g] = root[g],
           UNCHANGED <<items, depth, persistent, pc, at, rightMost, stack, ptr, right, dying,
                       marking>>,
           \A u \in Transients \ {t} : root'[u] = root[u] /\ drop'[u] = drop[u],
           \A n \in NodeId :
               refs'[n] = refs[n] \/ (refs'[n] = refs[n] + 1 /\ Placed(n) /\ persistent[n]),
           Shares, Sees(owner, t, root'[t]), Sees(owner, t, drop'[t]),
           \A n \in NodeId :
               refs'[n] + One(root[t] = n) + One(h # t /\ root[h] = n)
                 = refs[n] + One(root'[t] = n) + One(h # t /\ root'[h] = n) + One(drop'[t] = n)
    PROVE  \E owner2 \in Owner : MemInv(owner2)'
<1>1. /\ pc[t] = "idle" /\ ~Busy(t)
  BY DEF Resting
<1>2. /\ Memory /\ Held(owner, t) /\ drop[t] = Nil /\ Results(t)
      /\ marking[t] = <<>> /\ right[t] = Nil /\ ptr[t] = Nil /\ stack[t] = <<>>
  BY <1>1, HandsEmpty
<1>3. Waits(t)
  BY DEF Waits
<1>4. Counts(t, h, Nil, Nil)
  <2> SUFFICES ASSUME NEW n \in NodeId
               PROVE  refs'[n] + Ones(t, h, Nil, Nil, n) = refs[n] + Ones(t, h, Nil, Nil, n)'
    BY DEF Counts
  <2> DEFINE A == One(root[t] = n)
             B == One(h # t /\ root[h] = n)
             C == One(root'[t] = n)
             D == One(h # t /\ root'[h] = n)
             E == One(drop'[t] = n)
             Y == refs'[n]
             X == refs[n]
             U == Ones(t, h, Nil, Nil, n)
             V == Ones(t, h, Nil, Nil, n)'
  <2>1. U = A + B
    BY <1>2, Pointers DEF One
  <2>2. V = C + D + E
    BY <1>2, Pointers DEF One
  <2>3. /\ A \in Nat /\ B \in Nat /\ C \in Nat /\ D \in Nat /\ E \in Nat
        /\ Y + A + B = X + C + D + E
    BY DEF One
  <2>4. X \in Nat /\ Y \in Nat
    BY <1>2, RefsNat DEF TypeOK, NodesOK
  <2> HIDE DEF A, B, C, D, E, X, Y, U, V
  <2>5. Y + U = X + V
    BY ONLY <2>1, <2>2, <2>3, <2>4
  <2> QED  BY <2>5 DEF X, Y, U, V
<1>5. Results(t)'
  BY <1>1, <1>2 DEF Results
<1>6. Sees(owner, t, ptr'[t]) /\ Sees(owner, t, right'[t])
  BY <1>2, NodePointer DEF Sees
<1> QED
  BY <1>1, <1>2, <1>3, <1>4, <1>5, <1>6, MovesKept

\* h becomes a copy of Persistent g.
LEMMA CopiesKept ==
    ASSUME NEW owner \in Owner, MemInv(owner), TypeOK', NEW t \in Transients, Resting(t),
           NEW g \in Persistents, NEW h \in {t} \cup Persistents, Copies(t, g, h)
    PROVE  \E owner2 \in Owner : MemInv(owner2)'
<1>0. /\ root[g] # Nil
      /\ root' = [root EXCEPT ![h] = root[g]]
      /\ refs' = Counted({}, {root[g]})
      /\ drop' = [drop EXCEPT ![t] = root[h]]
      /\ UNCHANGED <<items, depth, persistent, pc, at, rightMost, stack, ptr, right, dying,
                     marking>>
  BY DEF Copies, Drops, control, result
<1>1. Memory /\ Held(owner, t) /\ Owned(owner)
  BY HandsEmpty DEF Resting
<1>2. /\ h \in Handle /\ t \in Handle /\ t \notin Persistents
      /\ root'[h] = root[g] /\ drop'[t] = root[h]
      /\ \A x \in Handle \ {h} : root'[x] = root[x]
      /\ \A u \in Transients \ {t} : root'[u] = root[u] /\ drop'[u] = drop[u]
  BY <1>0, <1>1, TreeAssumption DEF Handle, Memory, TypeOK, TreesOK, ChoresOK
<1>3. /\ root[g] \in NodeId /\ Placed(root[g]) /\ persistent[root[g]] /\ owner[root[g]] = NoOne
  BY <1>0, RootShared
<1>4. \A n \in NodeId : refs'[n] = refs[n] + One(root[g] = n) /\ refs[n] \in Nat
  BY <1>0, <1>1, RefsNat DEF Counted, One
<1>5. \A n \in NodeId :
               refs'[n] = refs[n] \/ (refs'[n] = refs[n] + 1 /\ Placed(n) /\ persistent[n])
  BY <1>3, <1>4 DEF One
<1>6. Shares
  BY <1>0, <1>2 DEF Shares, Handle
<1>7. Sees(owner, t, root[h]) /\ Sees(owner, t, root[g])
  <2>1. Sees(owner, t, root[g])
    BY <1>3 DEF Sees
  <2>2. h \in Persistents => Sees(owner, t, root[h])
    BY <1>1 DEF Owned, Sees
  <2> QED  BY <1>1, <2>1, <2>2 DEF Held
<1>8. Sees(owner, t, root'[t]) /\ Sees(owner, t, drop'[t])
  BY <1>1, <1>2, <1>7 DEF Held
<1>9. \A n \in NodeId :
               refs'[n] + One(root[t] = n) + One(h # t /\ root[h] = n)
                 = refs[n] + One(root'[t] = n) + One(h # t /\ root'[h] = n) + One(drop'[t] = n)
  <2> SUFFICES ASSUME NEW n \in NodeId
               PROVE  refs'[n] + One(root[t] = n) + One(h # t /\ root[h] = n)
                       = refs[n] + One(root'[t] = n) + One(h # t /\ root'[h] = n) + One(drop'[t] = n)
    OBVIOUS
  <2>1. refs'[n] = refs[n] + One(root[g] = n) /\ refs[n] \in Nat
    BY <1>4
  <2>2. /\ One(root[t] = n) \in Nat /\ One(h # t /\ root[h] = n) \in Nat
        /\ One(root[g] = n) \in Nat /\ One(root[h] = n) \in Nat
    BY DEF One
  <2>3. CASE h = t
    <3>1. One(h # t /\ root[h] = n) = 0 /\ One(h # t /\ root'[h] = n) = 0
          /\ root'[t] = root[g] /\ drop'[t] = root[t]
      BY <1>2, <2>3 DEF One
    <3> QED  BY ONLY <2>1, <2>2, <3>1
  <2>4. CASE h # t
    <3>1. /\ One(h # t /\ root[h] = n) = One(root[h] = n)
          /\ One(h # t /\ root'[h] = n) = One(root[g] = n)
          /\ root'[t] = root[t] /\ drop'[t] = root[h]
      BY <1>2, <2>4 DEF One
    <3> QED  BY ONLY <2>1, <2>2, <3>1
  <2> QED  BY <2>3, <2>4
<1>10. h \in Handle /\ \A x \in Handle \ {t, h} : root'[x] = root[x]
  BY <1>2
<1>11. \A u \in Transients \ {t} : root'[u] = root[u] /\ drop'[u] = drop[u]
  BY <1>2
<1>12. UNCHANGED <<items, depth, persistent, pc, at, rightMost, stack, ptr, right, dying,
                   marking>>
  BY <1>0
<1> QED
  BY ONLY MemInv(owner), TypeOK', Resting(t), owner \in Owner, t \in Transients,
     <1>5, <1>6, <1>8, <1>9, <1>10, <1>11, <1>12, ObjectKept

\* transient() && takes the root of the Persistent.
LEMMA ThawMoveKept ==
    ASSUME NEW owner \in Owner, MemInv(owner), TypeOK', NEW t \in Transients,
           NEW p \in Persistents, ThawMove(t, p)
    PROVE  \E owner2 \in Owner : MemInv(owner2)'
<1>0. /\ Resting(t) /\ root[t] = Nil /\ root[p] # Nil
      /\ root' = [root EXCEPT ![t] = root[p], ![p] = Nil]
      /\ UNCHANGED <<items, depth, persistent, refs, pc, at, rightMost, stack, ptr, right, drop,
                     dying, marking>>
  BY DEF ThawMove, nodes, control, result, chores
<1>1. Memory /\ Held(owner, t) /\ Owned(owner) /\ drop[t] = Nil
  BY <1>0, HandsEmpty DEF Resting
<1>2. /\ p \in Handle /\ t \in Handle /\ t # p
      /\ root'[t] = root[p] /\ root'[p] = Nil
      /\ \A x \in Handle \ {t, p} : root'[x] = root[x]
      /\ \A u \in Transients \ {t} : root'[u] = root[u]
  BY <1>0, <1>1, TreeAssumption DEF Handle, Memory, TypeOK, TreesOK
<1>3. root[p] \in NodeId /\ owner[root[p]] = NoOne
  BY <1>0, RootShared
<1>4. Shares
  BY <1>2, TreeAssumption DEF Shares, Handle
<1>5. Sees(owner, t, root'[t]) /\ Sees(owner, t, drop'[t])
  BY <1>0, <1>1, <1>2, <1>3 DEF Held, Sees
<1>6. ASSUME NEW n \in NodeId
      PROVE  refs'[n] + One(root[t] = n) + One(p # t /\ root[p] = n)
               = refs[n] + One(root'[t] = n) + One(p # t /\ root'[p] = n) + One(drop'[t] = n)
  <2>1. refs'[n] = refs[n] /\ refs[n] \in Nat /\ n # Nil
    BY <1>0, <1>1, RefsNat, NodePointer
  <2> QED  BY <1>0, <1>1, <1>2, <2>1 DEF One
<1>7. p \in Handle /\ \A x \in Handle \ {t, p} : root'[x] = root[x]
  BY <1>2
<1>8. \A u \in Transients \ {t} : root'[u] = root[u] /\ drop'[u] = drop[u]
  BY <1>0, <1>2
<1>9. UNCHANGED <<items, depth, persistent, pc, at, rightMost, stack, ptr, right, dying,
                  marking>>
  BY <1>0
<1>10. \A n \in NodeId :
               refs'[n] = refs[n] \/ (refs'[n] = refs[n] + 1 /\ Placed(n) /\ persistent[n])
  BY <1>0
<1>11. Resting(t)
  BY <1>0
<1> QED
  BY ONLY MemInv(owner), TypeOK', owner \in Owner, t \in Transients,
     <1>4, <1>5, <1>6, <1>7, <1>8, <1>9, <1>10, <1>11, ObjectKept

\* An object goes, or is assigned.
LEMMA DropKept ==
    ASSUME NEW owner \in Owner, MemInv(owner), TypeOK', NEW t \in Transients,
           NEW h \in {t} \cup Persistents, Drop(t, h)
    PROVE  \E owner2 \in Owner : MemInv(owner2)'
<1>0. /\ Resting(t) /\ root[h] # Nil
      /\ root' = [root EXCEPT ![h] = Nil]
      /\ drop' = [drop EXCEPT ![t] = root[h]]
      /\ UNCHANGED <<items, depth, persistent, refs, pc, at, rightMost, stack, ptr, right,
                     dying, marking>>
  BY DEF Drop, Drops, nodes, control, result
<1>1. Memory /\ Held(owner, t) /\ Owned(owner) /\ drop[t] = Nil
  BY <1>0, HandsEmpty DEF Resting
<1>2. /\ h \in Handle /\ t \in Handle
      /\ root'[h] = Nil /\ drop'[t] = root[h]
      /\ \A x \in Handle \ {h} : root'[x] = root[x]
      /\ \A u \in Transients \ {t} : root'[u] = root[u] /\ drop'[u] = drop[u]
  BY <1>0, <1>1, TreeAssumption DEF Handle, Memory, TypeOK, TreesOK, ChoresOK
<1>3. Shares
  BY <1>2 DEF Shares, Handle
<1>4. Sees(owner, t, root[h])
  BY <1>1 DEF Owned, Held, Sees
<1>5. Sees(owner, t, root'[t]) /\ Sees(owner, t, drop'[t])
  BY <1>1, <1>2, <1>4, NodePointer DEF Held, Sees
<1>6. ASSUME NEW n \in NodeId
      PROVE  refs'[n] + One(root[t] = n) + One(h # t /\ root[h] = n)
               = refs[n] + One(root'[t] = n) + One(h # t /\ root'[h] = n) + One(drop'[t] = n)
  <2>1. refs'[n] = refs[n] /\ refs[n] \in Nat /\ n # Nil
    BY <1>0, <1>1, RefsNat, NodePointer
  <2>2. CASE h = t
    BY <1>2, <2>1, <2>2 DEF One
  <2>3. CASE h # t
    BY <1>2, <2>1, <2>3 DEF One
  <2> QED  BY <2>2, <2>3
<1> QED
  BY <1>0, <1>2, <1>3, <1>5, <1>6, ObjectKept

\* Every call a thread at rest may make.
LEMMA MakeCallKept ==
    ASSUME NEW owner \in Owner, MemInv(owner), TypeOK', NEW t \in Transients, MakeCall(t)
    PROVE  \E owner2 \in Owner : MemInv(owner2)'
<1>1. CASE New(t) \/ Clear(t)
  BY <1>1, EmptiesKept DEF New, Clear
<1>2. CASE Persist(t) \/ PersistMove(t)
  BY <1>2, PersistKept
<1>3. CASE \E p \in Persistents : Thaw(t, p) \/ ThawMove(t, p)
  <2>1. PICK p \in Persistents : Thaw(t, p) \/ ThawMove(t, p)
    BY <1>3
  <2>2. CASE Thaw(t, p)
    BY <2>2, CopiesKept DEF Thaw
  <2>3. CASE ThawMove(t, p)
    BY <2>3, ThawMoveKept
  <2> QED  BY <2>1, <2>2, <2>3
<1>4. CASE \E p, q \in Persistents : Copy(t, p, q)
  BY <1>4, CopiesKept DEF Copy
<1>5. CASE \E h \in {t} \cup Persistents : Drop(t, h)
  BY <1>5, DropKept
<1> QED
  BY <1>1, <1>2, <1>3, <1>4, <1>5 DEF MakeCall

-----------------------------------------------------------------------------
(* make_persistent *)

Lists(s, x) == \E k \in 1 .. Len(s) : s[k] = x

\* What a concatenation lists is what one of its parts lists.
LEMMA ListsConcat ==
    ASSUME NEW S, NEW a \in Seq(S), NEW b \in Seq(S)
    PROVE  \A x : Lists(a \o b, x) <=> Lists(a, x) \/ Lists(b, x)
<1>1. /\ Len(a) \in Nat /\ Len(b) \in Nat /\ Len(a \o b) = Len(a) + Len(b)
      /\ \A i \in 1 .. Len(a) : (a \o b)[i] = a[i]
      /\ \A i \in 1 .. Len(b) : (a \o b)[Len(a) + i] = b[i]
  BY LenProperties, ConcatProperties
<1> DEFINE c == a \o b
<1> HIDE DEF c
<1> SUFFICES ASSUME NEW x PROVE Lists(c, x) <=> Lists(a, x) \/ Lists(b, x)
  BY DEF c
<1>2. ASSUME NEW k \in 1 .. Len(c), c[k] = x PROVE Lists(a, x) \/ Lists(b, x)
  <2>1. CASE k \in 1 .. Len(a)
    BY <1>1, <1>2, <2>1 DEF Lists, c
  <2>2. CASE k \notin 1 .. Len(a)
    <3>1. k - Len(a) \in 1 .. Len(b) /\ k = Len(a) + (k - Len(a))
      BY <1>1, <2>2 DEF c
    <3>2. c[Len(a) + (k - Len(a))] = b[k - Len(a)]
      BY <1>1, <3>1 DEF c
    <3> QED  BY <1>2, <3>1, <3>2 DEF Lists
  <2> QED  BY <2>1, <2>2
<1>3. ASSUME NEW k \in 1 .. Len(a), a[k] = x PROVE Lists(c, x)
  <2>1. k \in 1 .. Len(c) /\ c[k] = a[k]
    BY <1>1 DEF c
  <2> QED  BY <1>3, <2>1 DEF Lists
<1>4. ASSUME NEW k \in 1 .. Len(b), b[k] = x PROVE Lists(c, x)
  <2>1. Len(a) + k \in 1 .. Len(c) /\ c[Len(a) + k] = b[k]
    BY <1>1 DEF c
  <2> QED  BY <1>4, <2>1 DEF Lists
<1> QED
  BY <1>2, <1>3, <1>4 DEF Lists

\* A list that is not empty is its head and the list of the rest.
LEMMA ListsTail ==
    ASSUME NEW S, NEW s \in Seq(S), s # <<>>
    PROVE  /\ Tail(s) \in Seq(S) /\ Head(s) \in S /\ Lists(s, Head(s))
           /\ \A x : Lists(s, x) <=> x = Head(s) \/ Lists(Tail(s), x)
<1>1. /\ Len(s) \in Nat \ {0} /\ Tail(s) \in Seq(S) /\ Head(s) = s[1] /\ Head(s) \in S
      /\ Len(Tail(s)) = Len(s) - 1 /\ \A i \in 1 .. Len(Tail(s)) : Tail(s)[i] = s[i + 1]
  BY HeadTailProperties, LenProperties, EmptySeq
<1> DEFINE r == Tail(s)
<1> HIDE DEF r
<1>2. 1 \in 1 .. Len(s)
  BY <1>1
<1>3. ASSUME NEW x, NEW k \in 1 .. Len(s), s[k] = x PROVE x = Head(s) \/ Lists(r, x)
  <2>1. CASE k = 1
    BY <1>1, <1>3, <2>1
  <2>2. CASE k # 1
    <3>1. k - 1 \in 1 .. Len(r) /\ r[k - 1] = s[(k - 1) + 1] /\ (k - 1) + 1 = k
      BY <1>1, <2>2 DEF r
    <3> QED  BY <1>3, <3>1 DEF Lists
  <2> QED  BY <2>1, <2>2
<1>4. ASSUME NEW k \in 1 .. Len(r) PROVE Lists(s, r[k])
  <2>1. k + 1 \in 1 .. Len(s) /\ r[k] = s[k + 1]
    BY <1>1 DEF r
  <2> QED  BY <2>1 DEF Lists
<1>5. Lists(s, Head(s))
  BY <1>1, <1>2 DEF Lists
<1> QED
  BY <1>1, <1>3, <1>4, <1>5 DEF Lists, r

\* make_persistent marks one node and lists what is below it.
LEMMA MarkKept ==
    ASSUME NEW owner \in Owner, MemInv(owner), TypeOK', NEW t \in Transients, Mark(t)
    PROVE  MemInv(owner)'
<1> DEFINE n == Head(marking[t])
           W == {m \in {n} : ~persistent[m]}
           more == ToMark(n)
           rest == Tail(marking[t])
<1>0. /\ pc[t] = "persist" /\ marking[t] # <<>>
      /\ persistent' = [persistent EXCEPT ![n] = TRUE]
      /\ marking' = [marking EXCEPT ![t] = more \o rest]
      /\ UNCHANGED <<items, depth, refs, root, pc, at, rightMost, stack, ptr, right, drop, dying>>
  BY DEF Mark, trees, control, result
<1>1. /\ Memory /\ Owned(owner) /\ Results(t) /\ Held(owner, t) /\ Marked(owner, t)
  BY DEF MemInv, Threads, Owned
<1>2. /\ ~Busy(t) /\ drop[t] = Nil /\ dying[t] = <<>> /\ ptr[t] # Nil /\ right[t] = Nil
      /\ stack[t] = <<>>
  BY <1>0, <1>1 DEF Results, Busy
<1>3. /\ n \in NodeId /\ Lists(marking[t], n) /\ rest \in Seq(NodeId)
      /\ \A x : Lists(marking[t], x) <=> x = n \/ Lists(rest, x)
  <2>1. marking[t] \in Seq(NodeId)
    BY <1>1 DEF Memory, TypeOK, ChoresOK
  <2> QED  BY <1>0, <2>1, ListsTail
<1>4. more \in Seq(NodeId) /\ (persistent[n] => \A x : ~Lists(more, x))
      /\ (~persistent[n] => \A x : Lists(more, x) <=> x \in Children(n))
  <2>1. CASE persistent[n] \/ depth[n] = 1
    <3>1. more = <<>> /\ (depth[n] = 1 => Children(n) = {})
      BY <2>1 DEF ToMark, Children
    <3>2. \A x : ~Lists(more, x)
      BY <3>1 DEF Lists
    <3>3. more \in Seq(NodeId)
      BY <3>1, EmptySeq
    <3> QED  BY <2>1, <3>1, <3>2, <3>3
  <2>2. CASE ~persistent[n] /\ depth[n] # 1
    <3>1. more = items[n] /\ items[n] \in Seq(NodeId)
      BY <1>1, <1>3, <2>2 DEF ToMark, Memory, TypeOK, NodesOK
    <3>2. Children(n) = {items[n][k] : k \in 1 .. Len(items[n])}
      BY <2>2 DEF Children
    <3>3. \A x : Lists(items[n], x) <=> x \in Children(n)
      BY <3>2 DEF Lists
    <3> QED  BY <2>2, <3>1, <3>3
  <2> QED  BY <2>1, <2>2
<1>5. \A x : Lists(marking'[t], x) <=> Lists(more, x) \/ Lists(rest, x)
  <2>1. marking'[t] = more \o rest
    BY <1>0, <1>1 DEF Memory, TypeOK, ChoresOK
  <2> HIDE DEF more, rest
  <2>2. \A x : Lists(more \o rest, x) <=> Lists(more, x) \/ Lists(rest, x)
    BY <1>3, <1>4, ListsConcat
  <2> QED  BY <2>1, <2>2
<1>6. \A x : Lists(marking[t], x) =>
        x = ptr[t] \/ \E p \in NodeId : owner[p] = t /\ x \in Children(p)
  BY <1>1 DEF Marked, Lists
<1> HIDE DEF n, more, rest
<1>7. /\ \A m \in NodeId \ {n} : persistent'[m] = persistent[m]
      /\ persistent'[n] = TRUE
      /\ \A m \in NodeId : persistent[m] => persistent'[m]
      /\ \A m : Children(m)' = Children(m)
  BY <1>0, <1>1, <1>3 DEF Memory, TypeOK, NodesOK, Children
<1>8. Waits(t)
  BY <1>0, <1>1 DEF Waits, Memory, TypeOK, ChoresOK
<1>9. refs[n] > 0 /\ Sees(owner, t, n) /\ n \notin FreeNodes
  <2>1. CASE n = ptr[t]
    BY <1>1, <1>3, <2>1, HeldAlive DEF Held
  <2>2. CASE \E p \in NodeId : owner[p] = t /\ n \in Children(p)
    <3>1. Placed(n) /\ Sees(owner, t, n)
      BY <1>1, <2>2 DEF Placed, Owned, Sees
    <3> QED  BY <1>1, <1>3, <3>1, HeldAlive
  <2> QED  BY <1>3, <1>6, <2>1, <2>2
<1>10. Writes(owner, t, {}, W)
  <2>1. \A m \in NodeId \ W : Kept(m)
    BY <1>0, <1>7 DEF Kept
  <2>2. \A m \in W : m = n /\ ~persistent[m] /\ depth'[m] = depth[m]
    BY <1>0
  <2>3. \A m \in NodeId : refs'[m] = refs[m]
    BY <1>0
  <2> QED  BY <1>3, <1>9, <2>1, <2>2, <2>3 DEF Writes
<1>11. Forms(owner, t, {}, W)
  <2> SUFFICES ASSUME ~persistent[n], depth[n] # 1
               PROVE  /\ Distinct(items[n])
                      /\ \A c \in Children(n) :
                           refs[c] > 0 /\ Sees(owner, t, c) /\ depth[n] = depth[c] + 1
    BY <1>0, <1>7, <1>9 DEF Forms
  <2>1. n \in Inner /\ items[n] \in Seq(NodeId)
    BY <1>1, <1>3 DEF Inner, Memory, TypeOK, NodesOK
  <2>2. \A c \in Children(n) : c \in NodeId /\ Placed(c)
    BY <1>3, <2>1, ElementOfSeq DEF Children, Placed
  <2>3. \A c \in Children(n) : refs[c] > 0 /\ Sees(owner, t, c)
    BY <1>1, <1>3, <1>9, <2>2, HeldAlive DEF Owned, Sees
  <2> QED  BY <1>1, <2>1, <2>3 DEF Memory, Siblings, Levels
<1>12. Siblings' /\ Levels'
  BY <1>10, <1>11, ShapesKept
<1>13. FreeClean'
  BY <1>0, <1>1, <1>7, <1>9 DEF FreeClean, Memory, FreeNodes, Dying
<1>14. RefExact'
  BY <1>0, <1>1 DEF Memory, RefExact, Owners, PointerSlots, Inner, Dying
<1>15. Exclusive'
  <2>1. ASSUME NEW m \in NodeId, SharedRoot(t, m) PROVE persistent'[m]
    <3>1. marking[t] = <<m>>
      BY <1>2, <2>1, NodePointer DEF SharedRoot
    <3>2. m = n
      BY <3>1 DEF n
    <3> QED  BY <1>7, <3>2
  <2>2. \A m \in NodeId : refs'[m] <= refs[m]
    BY <1>0, <1>1, RefsNat
  <2> QED  BY <1>8, <1>10, <2>1, <2>2, ExclusiveKept
<1>16. Results(t)'
  <2>1. persistent'[ptr[t]]
    <3>1. ptr[t] \in NodeId
      BY <1>1, <1>2 DEF Memory, TypeOK, ResultOK, Pointer
    <3>2. CASE marking[t] = <<ptr[t]>>
      BY <1>7, <3>2 DEF n
    <3>3. CASE persistent[ptr[t]]
      BY <1>7, <3>1, <3>3
    <3> QED  BY <1>0, <1>1, <3>2, <3>3 DEF Results
  <2> QED  BY <1>0, <1>2, <2>1 DEF Results, Busy
<1>17. Threads'
  <2>1. Path(t)'
    BY <1>0, <1>2, EmptyPath
  <2>2. \A u \in Transients \ {t} : Results(u)' /\ Path(u)'
    BY <1>8, <1>10, OthersKept
  <2> QED  BY <1>16, <2>1, <2>2 DEF Threads
<1>18. Marked(owner, t)'
  <2>1. ASSUME NEW m \in NodeId, owner[m] = t, persistent'[m], NEW c \in Children(m)
        PROVE  persistent'[c] \/ Lists(marking'[t], c)
    <3>1. CASE persistent[m]
      <4>1. persistent[c] \/ Lists(marking[t], c)
        BY <1>1, <2>1, <3>1 DEF Marked, Lists
      <4>2. c \in NodeId
        <5>1. depth[m] # 1
          BY DEF Children
        <5>2. items[m] \in Seq(NodeId)
          BY <1>1, <5>1 DEF Memory, TypeOK, NodesOK
        <5> QED  BY <5>1, <5>2, ElementOfSeq DEF Children
      <4> QED  BY <1>3, <1>5, <1>7, <4>1, <4>2
    <3>2. CASE ~persistent[m]
      <4>1. m = n
        BY <1>7, <2>1, <3>2
      <4> QED  BY <1>4, <1>5, <3>2, <4>1
    <3> QED  BY <3>1, <3>2
  <2>2. ASSUME NEW x, Lists(marking'[t], x)
        PROVE  x = ptr[t] \/ \E p \in NodeId : owner[p] = t /\ x \in Children(p)
    <3>1. CASE Lists(more, x)
      <4>1. ~persistent[n] /\ x \in Children(n)
        BY <1>4, <3>1
      <4>2. owner[n] = t
        BY <1>1, <1>3, <1>9, <4>1 DEF Owned, Sees
      <4> QED  BY <1>3, <4>1, <4>2
    <3>2. CASE Lists(rest, x)
      BY <1>3, <1>6, <3>2
    <3> QED  BY <1>5, <2>2, <3>1, <3>2
  <2>3. \A k \in 1 .. Len(marking'[t]) : Lists(marking'[t], marking'[t][k])
    BY DEF Lists
  <2>4. \A m \in NodeId : owner[m] = t /\ persistent'[m] =>
          /\ pc'[t] = "persist"
          /\ \A c \in Children(m)' :
               persistent'[c] \/ \E k \in 1 .. Len(marking'[t]) : marking'[t][k] = c
    BY <1>0, <1>7, <2>1 DEF Lists
  <2>5. \A k \in 1 .. Len(marking'[t]) :
          marking'[t][k] = ptr'[t]
            \/ \E p \in NodeId : owner[p] = t /\ marking'[t][k] \in Children(p)'
    <3> SUFFICES ASSUME NEW k \in 1 .. Len(marking'[t])
                 PROVE  marking'[t][k] = ptr'[t]
                         \/ \E p \in NodeId : owner[p] = t /\ marking'[t][k] \in Children(p)'
      OBVIOUS
    <3> QED  BY <1>0, <1>7, <2>2, <2>3
  <2> QED  BY <2>4, <2>5 DEF Marked
<1>19. Owned(owner)'
  <2>1. Takes(owner, t, {}, owner)
    BY DEF Takes
  <2>2. Reaches(owner, t, {})
    BY <1>0, <1>1 DEF Reaches, Found, Held
  <2>3. Shares
    BY <1>0 DEF Shares
  <2> QED  BY <1>8, <1>10, <1>11, <1>18, <2>1, <2>2, <2>3, OwnedKept
<1> QED
  BY <1>12, <1>13, <1>14, <1>15, <1>17, <1>19 DEF MemInv, Memory

\* The Persistent is there: the nodes marked for it belong to no thread any more.
LEMMA PublishKept ==
    ASSUME NEW owner \in Owner, MemInv(owner), TypeOK', NEW t \in Transients,
           NEW p \in Persistents, Publish(t, p)
    PROVE  \E owner2 \in Owner : MemInv(owner2)'
<1>0. /\ pc[t] = "persist" /\ marking[t] = <<>>
      /\ root' = [root EXCEPT ![p] = ptr[t]]
      /\ ptr' = [ptr EXCEPT ![t] = Nil]
      /\ pc' = [pc EXCEPT ![t] = "idle"]
      /\ drop' = [drop EXCEPT ![t] = root[p]]
      /\ UNCHANGED <<items, depth, persistent, refs, at, rightMost, stack, right, dying, marking>>
  BY DEF Publish, Drops, nodes
<1>1. /\ Memory /\ Owned(owner) /\ Results(t) /\ Held(owner, t) /\ Marked(owner, t) /\ Exclusive
  BY DEF MemInv, Threads, Owned
<1>2. /\ ~Busy(t) /\ drop[t] = Nil /\ dying[t] = <<>> /\ ptr[t] # Nil /\ right[t] = Nil
      /\ stack[t] = <<>>
  BY <1>0, <1>1 DEF Results, Busy
<1>3. /\ ptr[t] \in NodeId /\ persistent[ptr[t]] /\ owner[ptr[t]] \in {t, NoOne}
  <2>1. ptr[t] \in NodeId
    BY <1>1, <1>2 DEF Memory, TypeOK, ResultOK, Pointer
  <2>2. <<>> # <<ptr[t]>>
    OBVIOUS
  <2>3. persistent[ptr[t]]
    BY <1>0, <1>1, <2>2 DEF Results
  <2> QED  BY <1>1, <2>1, <2>3 DEF Held, Sees
<1>4. /\ p \in Handle /\ t \in Handle /\ t # p /\ t \notin Persistents
      /\ root'[p] = ptr[t] /\ ptr'[t] = Nil /\ pc'[t] = "idle" /\ drop'[t] = root[p]
      /\ \A g \in Handle \ {p} : root'[g] = root[g]
      /\ root'[t] = root[t]
      /\ Waits(t)
  BY <1>0, <1>1, TreeAssumption DEF Waits, Memory, TypeOK, TreesOK, ControlOK, ResultOK, ChoresOK,
     Handle
<1>5. PICK owner2 \in Owner :
         \A n \in NodeId :
            owner2[n] = IF owner[n] = t /\ persistent[n] THEN NoOne ELSE owner[n]
  <2> DEFINE o == [n \in NodeId |->
                      IF owner[n] = t /\ persistent[n] THEN NoOne ELSE owner[n]]
  <2>1. o \in Owner
    BY DEF Owner
  <2>2. \A n \in NodeId :
            o[n] = IF owner[n] = t /\ persistent[n] THEN NoOne ELSE owner[n]
    OBVIOUS
  <2> QED  BY <2>1, <2>2
<1>6. Writes(owner, t, {}, {})
  BY <1>0 DEF Writes, Kept
<1>7. Siblings' /\ Levels' /\ FreeClean'
  <2>1. Siblings' /\ Levels'
    BY <1>0, <1>1 DEF Memory, Siblings, Levels, Inner, Children
  <2>2. FreeClean'
    BY <1>0, <1>1 DEF Memory, FreeClean, FreeNodes, Dying
  <2> QED  BY <2>1, <2>2
<1>8. RefExact'
  <2>1. Counts(t, p, Nil, Nil)
    <3> SUFFICES ASSUME NEW n \in NodeId
                 PROVE  refs'[n] + Ones(t, p, Nil, Nil, n) = refs[n] + Ones(t, p, Nil, Nil, n)'
      BY DEF Counts
    <3> DEFINE A == One(root[t] = n)
               B == One(root[p] = n)
               C == One(ptr[t] = n)
    <3>1. n # Nil /\ refs'[n] = refs[n]
      BY <1>0, NodePointer
    <3>2. Ones(t, p, Nil, Nil, n) = A + B + C
      BY <1>2, <1>4, <3>1, Pointers DEF One
    <3>3. Ones(t, p, Nil, Nil, n)' = A + C + B
      BY <1>0, <1>2, <1>4, <3>1, Pointers DEF One
    <3>4. A \in Nat /\ B \in Nat /\ C \in Nat
      BY DEF One
    <3> HIDE DEF A, B, C
    <3> QED  BY ONLY <3>1, <3>2, <3>3, <3>4
  <2>2. \A n \in NodeId : Dying(n)' => refs'[n] = 0
    BY <1>0, <1>1 DEF Dying, Memory, RefExact
  <2>3. \A g \in Handle \ {t, p} : root'[g] = root[g]
    BY <1>4
  <2> QED  BY <1>4, <1>6, <1>7, <2>1, <2>2, <2>3, RefsKept
<1>9. Exclusive'
  <2>1. \A n \in NodeId : ~SharedRoot(t, n)
    BY <1>0, <1>2, NodePointer DEF SharedRoot
  <2>2. \A n \in NodeId : refs'[n] <= refs[n]
    BY <1>0, <1>1, RefsNat
  <2> QED  BY <1>4, <1>6, <2>1, <2>2, ExclusiveKept
<1>10. Threads'
  <2>1. Path(t)'
    BY <1>0, <1>2, <1>4, EmptyPath
  <2>2. \A u \in Transients \ {t} : Results(u)' /\ Path(u)'
    BY <1>4, <1>6, OthersKept
  <2>3. Results(t)'
    BY <1>0, <1>2, <1>4 DEF Results
  <2> QED  BY <2>1, <2>2, <2>3 DEF Threads
<1>11. /\ \A n \in NodeId : owner2[n] # NoOne => owner2[n] = owner[n]
       /\ \A n \in NodeId : owner[n] = NoOne => owner2[n] = NoOne
       /\ \A u \in Transients : \A n : Sees(owner, u, n) => Sees(owner2, u, n)
       /\ \A m : Children(m)' = Children(m)
  BY <1>0, <1>5, NoOneIsNoThread DEF Sees, Children
<1>12. \A n \in NodeId : refs'[n] > 0 /\ ~persistent'[n] => owner2[n] # NoOne
  BY <1>0, <1>1, <1>5 DEF Owned
<1>13. ASSUME NEW q \in Persistents, root'[q] \in NodeId PROVE owner2[root'[q]] = NoOne
  <2>1. CASE q = p
    BY <1>3, <1>4, <1>5, <2>1
  <2>2. CASE q # p
    <3>1. root'[q] = root[q]
      BY <1>4, <2>2 DEF Handle
    <3> QED  BY <1>1, <1>11, <1>13, <3>1 DEF Owned
  <2> QED  BY <2>1, <2>2
<1>14. ASSUME NEW m \in NodeId, NEW c \in Children(m), owner2[c] # NoOne
       PROVE  owner2[m] = owner2[c]
  <2>1. c \in NodeId
    <3>1. depth[m] # 1
      BY DEF Children
    <3>2. items[m] \in Seq(NodeId)
      BY <1>1, <3>1 DEF Memory, TypeOK, NodesOK
    <3> QED  BY <3>1, <3>2, ElementOfSeq DEF Children
  <2>2. owner2[c] = owner[c] /\ owner[m] = owner[c] /\ ~(owner[c] = t /\ persistent[c])
    BY <1>1, <1>5, <1>11, <1>14, <2>1 DEF Owned
  <2>3. owner[m] = t /\ persistent[m] => persistent[c]
    BY <1>0, <1>1 DEF Marked
  <2> QED  BY <1>5, <2>1, <2>2, <2>3
<1>15. ASSUME NEW u \in Transients PROVE Held(owner2, u)' /\ Marked(owner2, u)'
  <2>1. Held(owner, u) /\ Marked(owner, u)
    BY <1>1 DEF Owned
  <2>2. Sees(owner2, t, root[p])
    BY <1>1, <1>11 DEF Owned, Sees
  <2>3. CASE u = t
    <3>1. Held(owner2, u)'
      BY <1>0, <1>2, <1>4, <1>11, <2>1, <2>2, <2>3, NodePointer DEF Held, Sees
    <3>2. \A n \in NodeId : ~(owner2[n] = t /\ persistent[n])
      BY <1>5, NoOneIsNoThread
    <3>3. \A k : k \notin 1 .. Len(marking'[t])
      BY <1>0
    <3> QED  BY <1>0, <2>3, <3>1, <3>2, <3>3 DEF Marked
  <2>4. CASE u # t
    <3>1. /\ pc'[u] = pc[u] /\ at'[u] = at[u] /\ stack'[u] = stack[u] /\ root'[u] = root[u]
          /\ ptr'[u] = ptr[u] /\ right'[u] = right[u] /\ drop'[u] = drop[u]
          /\ dying'[u] = dying[u] /\ marking'[u] = marking[u]
      BY <1>4, <2>4 DEF Waits
    <3>2. Held(owner2, u)'
      BY <1>11, <2>1, <3>1 DEF Held, Sees
    <3>3. \A n \in NodeId : owner2[n] = u <=> owner[n] = u
      BY <1>5, <2>4, NoOneIsNoThread
    <3>4. Marked(owner2, u)'
      BY <1>0, <1>11, <2>1, <3>1, <3>3 DEF Marked
    <3> QED  BY <3>2, <3>4
  <2> QED  BY <2>3, <2>4
<1>16. Owned(owner2)'
  BY <1>11, <1>12, <1>13, <1>14, <1>15 DEF Owned
<1> QED
  BY <1>7, <1>8, <1>9, <1>10, <1>16 DEF MemInv, Memory

-----------------------------------------------------------------------------
(* dec_ref and the destructors *)

\* What a step of a thread does that gives up a pointer, with the dead nodes W.
Gives(owner, t, W) ==
    /\ Busy(t) /\ Waits(t) /\ Writes(owner, t, {}, W) /\ Forms(owner, t, {}, W)
    /\ UNCHANGED <<pc, at, rightMost, stack, root, ptr, right, marking>>
    /\ Sees(owner, t, drop'[t])
    /\ \A k \in 1 .. Len(dying'[t]) : Sees(owner, t, dying'[t][k])
    /\ \A n \in NodeId : Dying(n)' => refs'[n] = 0
    /\ \A n \in NodeId : refs'[n] <= refs[n] /\ (refs[n] = 1 => refs'[n] = 1 \/ drop[t] = n)
    /\ \A n \in NodeId : persistent'[n] => persistent[n]
    /\ \A n \in W : refs[n] = 0 \/ (refs[n] = 1 /\ drop[t] = n)
    /\ \A n \in NodeId : refs[n] = 2 /\ ~persistent[n] /\ SharedRoot(t, n) =>
               refs'[n] <= 1 \/ (refs'[n] = 2 /\ SharedRoot(t, n)')

\* A step that gives a pointer up: the rest of the invariant follows.
LEMMA GivesKept ==
    ASSUME NEW owner \in Owner, MemInv(owner), TypeOK', NEW t \in Transients,
           NEW W, Gives(owner, t, W), FreeClean',
           NEW a, W \subseteq {a}, Counts(t, t, a, a)
    PROVE  MemInv(owner)'
<1>0. /\ Busy(t) /\ Waits(t) /\ Writes(owner, t, {}, W) /\ Forms(owner, t, {}, W)
      /\ UNCHANGED <<pc, at, rightMost, stack, root, ptr, right, marking>>
      /\ \A n \in NodeId : Dying(n)' => refs'[n] = 0
      /\ \A n \in NodeId : refs'[n] <= refs[n] /\ (refs[n] = 1 => refs'[n] = 1 \/ drop[t] = n)
  BY DEF Gives
<1>1. /\ Memory /\ Owned(owner) /\ Results(t) /\ Path(t) /\ Held(owner, t) /\ Exclusive
  BY DEF MemInv, Threads, Owned
<1>2. pc[t] # "persist" /\ marking[t] = <<>> /\ pc[t] # "descend"
  BY <1>0, <1>1 DEF Results
<1>3. Siblings' /\ Levels'
  BY <1>0, ShapesKept
<1>4. RefExact'
  <2>1. t \in Handle /\ W \subseteq {a, a} /\ \A g \in Handle \ {t, t} : root'[g] = root[g]
    BY <1>0 DEF Handle
  <2> QED  BY <1>0, <1>3, <2>1, RefsKept
<1>5. Exclusive'
  <2>1. \A n \in NodeId : refs[n] > 1 /\ ~persistent[n] => refs[n] = 2
    BY <1>1 DEF Exclusive
  <2>2. \A n \in NodeId : refs[n] > 1 /\ ~persistent[n] /\ SharedRoot(t, n) =>
               refs'[n] <= 1 \/ persistent'[n] \/ (refs'[n] = 2 /\ SharedRoot(t, n)')
    BY <2>1 DEF Gives
  <2> QED  BY <1>0, <2>2, ExclusiveKept
<1>6. Owned(owner)'
  <2>1. Takes(owner, t, {}, owner)
    BY DEF Takes
  <2>2. Reaches(owner, t, {})
    BY <1>0, <1>1 DEF Reaches, Found, Held, Gives
  <2>3. Shares
    BY <1>0 DEF Shares
  <2>4. Marked(owner, t)'
    BY <1>0, <1>2, <2>1, MarkedKept DEF Gives
  <2> QED  BY <1>0, <2>1, <2>2, <2>3, <2>4, OwnedKept
<1>7. ASSUME NEW n \in NodeId, refs[n] > 0, refs[n] = 1 => drop[t] # n
      PROVE  Kept(n) /\ (refs[n] = 1 => refs'[n] = 1)
  <2>1. n \notin W
    BY <1>1, <1>7, RefsNat DEF Gives
  <2> QED  BY <1>0, <1>7, <2>1 DEF Writes
<1>8. ASSUME NEW n \in NodeId, Placed(n) PROVE Kept(n)
  <2>1. refs[n] > 0 /\ (refs[n] = 1 => drop[t] # n)
    BY <1>1, <1>8, HeldAlive, SoleDrop
  <2> QED  BY <1>7, <2>1
<1>9. ASSUME NEW n \in NodeId, Fresh(n), ptr[t] = n \/ right[t] = n
      PROVE  Fresh(n)' /\ depth'[n] = depth[n]
  <2>1. refs[n] = 1 /\ drop[t] # n
    BY <1>1, <1>9, SoleResult DEF Fresh
  <2>2. Kept(n) /\ refs'[n] = 1
    BY <1>7, <2>1
  <2> QED  BY <1>9, <2>2 DEF Fresh, Kept
<1>10. /\ root[t] # Nil => Kept(root[t])
       /\ \A k \in 1 .. Len(stack[t]) : Kept(stack[t][k].node)
  BY <1>1, <1>8, PathPlaced
<1>11. Path(t)'
  BY <1>0, <1>1, <1>2, <1>10, PathKept DEF Kept
<1>12. stack[t] # <<>> => persistent'[FrameItem(t)] = persistent[FrameItem(t)]
                           /\ FrameItem(t)' = FrameItem(t)
  <2> SUFFICES ASSUME stack[t] # <<>>
               PROVE  persistent'[FrameItem(t)] = persistent[FrameItem(t)]
                      /\ FrameItem(t)' = FrameItem(t)
    OBVIOUS
  <2>1. /\ FrameItem(t) \in NodeId /\ Placed(FrameItem(t))
        /\ Len(stack[t]) \in 1 .. Len(stack[t]) /\ Frame(t) = stack[t][Len(stack[t])]
    BY <1>1, PathPlaced
  <2>2. Kept(Frame(t).node) /\ Kept(FrameItem(t))
    BY <1>8, <1>10, <2>1
  <2>3. Frame(t)' = Frame(t)
    BY <1>0 DEF Frame
  <2>4. FrameItem(t)' = FrameItem(t)
    BY <2>2, <2>3 DEF FrameItem, Kept
  <2> QED  BY <2>2, <2>4 DEF Kept
<1>13. pc[t] \in {"replace", "split"} => Height(t)' = Height(t)
  <2>1. pc[t] \in {"replace", "split"} => root[t] # Nil
    BY <1>1 DEF Memory, TypeOK, PhaseOK
  <2> QED  BY <1>0, <1>10, <2>1 DEF Height, Kept
<1>14. /\ ptr[t] # Nil => Fresh(ptr[t]) /\ Fresh(ptr[t])' /\ depth'[ptr[t]] = depth[ptr[t]]
       /\ right[t] # Nil => Fresh(right[t])' /\ depth'[right[t]] = depth[right[t]]
  <2>1. ptr[t] \in Pointer /\ right[t] \in Pointer
    BY <1>1 DEF Memory, TypeOK, ResultOK
  <2>2. (ptr[t] # Nil => Fresh(ptr[t])) /\ (right[t] # Nil => Fresh(right[t]))
    BY <1>1, <1>2 DEF Results
  <2>3. ptr[t] # Nil => Fresh(ptr[t])' /\ depth'[ptr[t]] = depth[ptr[t]]
    <3> DEFINE x == ptr[t]
    <3>1. ASSUME x # Nil PROVE x \in NodeId /\ Fresh(x) /\ ptr[t] = x
      BY <2>1, <2>2, <3>1 DEF Pointer
    <3>2. x' = x
      BY <1>0
    <3>3. x # Nil => refs'[x] = 1 /\ ~persistent'[x] /\ depth'[x] = depth[x]
      BY <1>9, <3>1 DEF Fresh
    <3> QED  BY <3>2, <3>3 DEF Fresh
  <2>4. right[t] # Nil => Fresh(right[t])' /\ depth'[right[t]] = depth[right[t]]
    <3> DEFINE x == right[t]
    <3>1. ASSUME x # Nil PROVE x \in NodeId /\ Fresh(x) /\ right[t] = x
      BY <2>1, <2>2, <3>1 DEF Pointer
    <3>2. x' = x
      BY <1>0
    <3>3. x # Nil => refs'[x] = 1 /\ ~persistent'[x] /\ depth'[x] = depth[x]
      BY <1>9, <3>1 DEF Fresh
    <3> QED  BY <3>2, <3>3 DEF Fresh
  <2> QED  BY <2>2, <2>3, <2>4
<1>15. (pc[t] = "split" /\ ptr[t] = Nil /\ stack[t] # <<>> => ~persistent[FrameItem(t)])'
  BY <1>0, <1>1, <1>12 DEF Results
<1>16. Results(t)'
  BY <1>0, <1>1, <1>2, <1>13, <1>14, <1>15 DEF Results
<1>17. Threads'
  <2>1. \A u \in Transients \ {t} : Results(u)' /\ Path(u)'
    BY <1>0, OthersKept
  <2> QED  BY <1>11, <1>16, <2>1 DEF Threads
<1> QED
  BY <1>3, <1>4, <1>5, <1>6, <1>17 DEF MemInv, Memory

\* A thread that gives up a pointer has not marked a node since it began its call.
LEMMA GiverHas ==
    ASSUME NEW owner, MemInv(owner), NEW t \in Transients, Busy(t)
    PROVE  /\ Memory /\ Owned(owner) /\ Held(owner, t) /\ Marked(owner, t) /\ Exclusive
           /\ pc[t] # "persist" /\ marking[t] = <<>>
           /\ drop[t] # Nil => drop[t] \in NodeId /\ refs[drop[t]] > 0 /\ drop[t] \notin FreeNodes
<1>1. Memory /\ Owned(owner) /\ Held(owner, t) /\ Marked(owner, t) /\ Exclusive /\ Results(t)
  BY DEF MemInv, Owned, Threads
<1>2. pc[t] # "persist" /\ marking[t] = <<>>
  BY <1>1 DEF Results
<1>3. drop[t] # Nil => drop[t] \in NodeId
  BY <1>1 DEF Memory, TypeOK, ChoresOK, Pointer
<1> QED
  BY <1>1, <1>2, <1>3, HeldAlive

\* dec_ref: the last pointer of a node starts its destructor.
LEMMA DropReferenceKept ==
    ASSUME NEW owner \in Owner, MemInv(owner), TypeOK', NEW t \in Transients, DropReference(t)
    PROVE  MemInv(owner)'
<1> DEFINE d == drop[t]
<1>0. /\ d # Nil /\ refs[d] > 1
      /\ refs' = [refs EXCEPT ![d] = @ - 1]
      /\ drop' = [drop EXCEPT ![t] = Nil]
      /\ UNCHANGED <<items, depth, persistent, pc, at, rightMost, stack, root, ptr, right, dying,
                     marking>>
  BY DEF DropReference, Drops, trees, control, result
<1>1. Busy(t)
  BY <1>0 DEF Busy
<1>2. /\ Memory /\ Owned(owner) /\ Held(owner, t) /\ Marked(owner, t) /\ Exclusive
      /\ pc[t] # "persist" /\ marking[t] = <<>>
      /\ d \in NodeId /\ d \notin FreeNodes
  BY <1>0, <1>1, GiverHas
<1>3. /\ refs \in [NodeId -> Nat] /\ refs'[d] = refs[d] - 1
      /\ \A n \in NodeId \ {d} : refs'[n] = refs[n]
      /\ drop'[t] = Nil /\ Waits(t) /\ dying'[t] = dying[t]
  BY <1>0, <1>2 DEF Waits, Memory, TypeOK, NodesOK, ChoresOK
<1> HIDE DEF d
<1>4. Writes(owner, t, {}, {})
  <2>1. \A n \in NodeId : refs'[n] = refs[n] \/ drop[t] = n
    BY <1>3 DEF d
  <2> QED  BY <1>0, <2>1 DEF Writes, Kept
<1>5. Forms(owner, t, {}, {})
  BY DEF Forms
<1>6. Sees(owner, t, drop'[t]) /\ \A k \in 1 .. Len(dying'[t]) : Sees(owner, t, dying'[t][k])
  BY <1>2, <1>3, NodePointer DEF Sees, Held
<1>7. \A n \in NodeId : Dying(n)' => refs'[n] = 0
  <2>1. \A n \in NodeId : Dying(n)' => Dying(n)
    BY <1>0 DEF Dying
  <2> QED  BY <1>2, <1>4, <2>1, DyingKept
<1>8. \A n \in NodeId : refs'[n] <= refs[n] /\ (refs[n] = 1 => refs'[n] = 1 \/ drop[t] = n)
  <2> SUFFICES ASSUME NEW n \in NodeId
               PROVE  refs'[n] <= refs[n] /\ (refs[n] = 1 => refs'[n] = 1 \/ drop[t] = n)
    OBVIOUS
  <2>1. CASE n = d
    BY <1>3, <2>1 DEF d
  <2>2. CASE n # d
    BY <1>3, <2>2
  <2> QED  BY <2>1, <2>2
<1>9. ASSUME NEW n \in NodeId, refs[n] = 2, ~persistent[n], SharedRoot(t, n)
      PROVE  refs'[n] <= 1
  <2>1. CASE n = d
    BY <1>3, <1>9, <2>1
  <2>2. CASE n # d
    <3>1. Only(d, n) /\ root[t] = n
      BY <1>0, <1>2, <1>9, <2>2 DEF SharedRoot, d
    <3>2. n \in Children(d)
      BY <1>2, <3>1 DEF Only, Children, Memory, TypeOK, NodesOK
    <3>3. owner[n] = t
      BY <1>2, <1>9, <3>1 DEF Owned, Held, Sees
    <3>4. owner[d] = t
      BY <1>2, <3>2, <3>3, NoOneIsNoThread DEF Owned
    <3>5. ~persistent[d]
      BY <1>2, <3>4 DEF Marked
    <3>6. PICK u \in Transients : SharedRoot(u, d)
      BY <1>0, <1>2, <3>5 DEF Exclusive
    <3>7. root[u] = d /\ u # t
      BY <2>2, <3>1, <3>6 DEF SharedRoot
    <3>8. Sees(owner, u, d)
      BY <1>2, <3>7 DEF Owned, Held
    <3> QED  BY <1>2, <3>4, <3>7, <3>8, NoOneIsNoThread DEF Sees
  <2> QED  BY <2>1, <2>2
<1>10. Gives(owner, t, {})
  BY <1>0, <1>1, <1>3, <1>4, <1>5, <1>6, <1>7, <1>8, <1>9 DEF Gives
<1>11. FreeClean'
  <2> SUFFICES ASSUME NEW n \in NodeId, refs'[n] = 0, ~Dying(n)'
               PROVE  depth'[n] = 1 /\ ~persistent'[n]
    BY DEF FreeClean, FreeNodes
  <2>1. n # d
    BY <1>0, <1>3, <1>2
  <2>2. refs[n] = 0 /\ ~Dying(n)
    BY <1>0, <1>3, <2>1 DEF Dying
  <2> QED  BY <1>0, <1>2, <2>2 DEF Memory, FreeClean, FreeNodes
<1>12. Counts(t, t, Nil, Nil)
  <2> SUFFICES ASSUME NEW n \in NodeId
               PROVE  refs'[n] + Ones(t, t, Nil, Nil, n) = refs[n] + Ones(t, t, Nil, Nil, n)'
    BY DEF Counts
  <2> DEFINE A == One(root[t] = n)
             B == One(ptr[t] = n)
             C == One(right[t] = n)
             D == One(d = n)
             X == refs[n]
             Y == refs'[n]
             U == Ones(t, t, Nil, Nil, n)
             V == Ones(t, t, Nil, Nil, n)'
  <2>1. n # Nil /\ X \in Nat /\ Y + D = X
    BY <1>2, <1>3, NodePointer DEF One
  <2>2. U = A + B + C + D
    BY <2>1, Pointers DEF One, d
  <2>3. V = A + B + C
    BY <1>0, <1>3, <2>1, Pointers DEF One
  <2>4. A \in Nat /\ B \in Nat /\ C \in Nat /\ D \in Nat
    BY DEF One
  <2>5. Y \in Nat
    BY DEF TypeOK, NodesOK
  <2> HIDE DEF A, B, C, D, X, Y, U, V
  <2>6. Y + U = X + V
    BY ONLY <2>1, <2>2, <2>3, <2>4, <2>5
  <2> QED  BY <2>6 DEF X, Y, U, V
<1> QED
  BY <1>10, <1>11, <1>12, GivesKept

\* Dying, in the next state.
LEMMA DyingNext ==
    ASSUME NEW n
    PROVE  Dying(n)' <=> \E u \in Transients : \E k \in 1 .. Len(dying'[u]) : dying'[u][k] = n
  BY DEF Dying

\* The last pointer to a node: a leaf is free at once.
LEMMA DeleteLeafKept ==
    ASSUME NEW owner \in Owner, MemInv(owner), TypeOK', NEW t \in Transients, DeleteNode(t),
           depth[drop[t]] = 1
    PROVE  MemInv(owner)'
<1>a. PICK d : d = drop[t]
  OBVIOUS
<1>0. /\ d # Nil /\ refs[d] = 1
      /\ refs' = [refs EXCEPT ![d] = 0]
      /\ drop' = [drop EXCEPT ![t] = Nil]
      /\ items' = [items EXCEPT ![d] = <<>>]
      /\ Makes({d}, 1)
      /\ UNCHANGED <<pc, at, rightMost, stack, root, ptr, right, dying, marking>>
  BY <1>a DEF DeleteNode, Frees, Drops, trees, control, result
<1>1. Busy(t)
  BY <1>a, <1>0 DEF Busy
<1>2. /\ Memory /\ Owned(owner) /\ Held(owner, t) /\ Marked(owner, t) /\ Exclusive
      /\ pc[t] # "persist" /\ marking[t] = <<>>
      /\ d \in NodeId /\ d \notin FreeNodes /\ depth[d] = 1
  BY <1>a, <1>0, <1>1, GiverHas
<1>3. /\ refs \in [NodeId -> Nat] /\ refs'[d] = 0
      /\ \A n \in NodeId \ {d} : refs'[n] = refs[n] /\ Kept(n)
      /\ depth'[d] = 1 /\ ~persistent'[d]
      /\ drop'[t] = Nil /\ Waits(t) /\ dying'[t] = dying[t]
  <2>1. \A n \in NodeId \ {d} : Kept(n)
    BY <1>0, <1>2 DEF Makes, Kept, Memory, TypeOK, NodesOK
  <2> QED  BY <1>0, <1>2, <2>1 DEF Makes, Waits, Memory, TypeOK, NodesOK, ChoresOK
<1>4. Writes(owner, t, {}, {d})
  <2>1. \A n \in NodeId : refs'[n] = refs[n] \/ drop[t] = n
    BY <1>a, <1>3
  <2>2. Sees(owner, t, d) /\ drop[t] = d
    BY <1>a, <1>2 DEF Held
  <2> QED  BY <1>0, <1>2, <1>3, <2>1, <2>2 DEF Writes
<1>5. Forms(owner, t, {}, {d})
  BY <1>3 DEF Forms, Children
<1>6. Sees(owner, t, drop'[t]) /\ \A k \in 1 .. Len(dying'[t]) : Sees(owner, t, dying'[t][k])
  BY <1>2, <1>3, NodePointer DEF Sees, Held
<1>7. \A n \in NodeId : Dying(n)' => refs'[n] = 0
  <2>1. \A n \in NodeId : Dying(n)' => Dying(n)
    BY <1>0 DEF Dying
  <2> QED  BY <1>2, <1>4, <2>1, DyingKept
<1>8. \A n \in NodeId : refs'[n] <= refs[n] /\ (refs[n] = 1 => refs'[n] = 1 \/ drop[t] = n)
  <2> SUFFICES ASSUME NEW n \in NodeId
               PROVE  refs'[n] <= refs[n] /\ (refs[n] = 1 => refs'[n] = 1 \/ drop[t] = n)
    OBVIOUS
  <2>1. CASE n = d
    BY <1>a, <1>3, <2>1
  <2>2. CASE n # d
    BY <1>3, <2>2
  <2> QED  BY <2>1, <2>2
<1>9. ASSUME NEW n \in NodeId, refs[n] = 2 PROVE ~SharedRoot(t, n)
  <2>1. n # d /\ d # Nil /\ drop[t] = d
    BY <1>a, <1>0, <1>9
  <2>2. ~Only(d, n)
    BY <1>2 DEF Only
  <2> QED  BY <1>2, <2>1, <2>2 DEF SharedRoot
<1>10. Gives(owner, t, {d})
  <2>1. \A n \in NodeId : persistent'[n] => persistent[n]
    BY <1>3 DEF Kept
  <2>2. \A n \in {d} : refs[n] = 0 \/ (refs[n] = 1 /\ drop[t] = n)
    BY <1>a, <1>0
  <2> QED  BY <1>0, <1>1, <1>3, <1>4, <1>5, <1>6, <1>7, <1>8, <1>9, <2>1, <2>2 DEF Gives
<1>11. FreeClean'
  <2> SUFFICES ASSUME NEW n \in NodeId, refs'[n] = 0, ~Dying(n)'
               PROVE  depth'[n] = 1 /\ ~persistent'[n]
    BY DEF FreeClean, FreeNodes
  <2>1. CASE n = d
    BY <1>3, <2>1
  <2>2. CASE n # d
    <3>1. refs[n] = 0 /\ ~Dying(n) /\ Kept(n)
      BY <1>0, <1>3, <2>2 DEF Dying
    <3> QED  BY <1>2, <3>1 DEF Memory, FreeClean, FreeNodes, Kept
  <2> QED  BY <2>1, <2>2
<1>12. Counts(t, t, d, d)
  <2> SUFFICES ASSUME NEW n \in NodeId
               PROVE  refs'[n] + Ones(t, t, d, d, n) = refs[n] + Ones(t, t, d, d, n)'
    BY DEF Counts
  <2> DEFINE A == One(root[t] = n)
             B == One(ptr[t] = n)
             C == One(right[t] = n)
             D == One(d = n)
             X == refs[n]
             Y == refs'[n]
             U == Ones(t, t, d, d, n)
             V == Ones(t, t, d, d, n)'
  <2>0. Children(d) = {} /\ Children(d)' = {}
    BY <1>2, <1>3 DEF Children
  <2>1. n # Nil /\ X \in Nat /\ Y + D = X
    BY <1>0, <1>3, NodePointer DEF One
  <2>2. U = A + B + C + D
    BY <1>a, <2>0, <2>1 DEF One, Ones
  <2>3. V = A + B + C
    BY <1>0, <1>3, <2>0, <2>1 DEF One, Ones
  <2>4. A \in Nat /\ B \in Nat /\ C \in Nat /\ D \in Nat
    BY DEF One
  <2>5. Y \in Nat
    BY DEF TypeOK, NodesOK
  <2> HIDE DEF A, B, C, D, X, Y, U, V
  <2>6. Y + U = X + V
    BY ONLY <2>1, <2>2, <2>3, <2>4, <2>5
  <2> QED  BY <2>6 DEF X, Y, U, V
<1> QED
  BY <1>10, <1>11, <1>12, GivesKept

\* An inner node is on the list of those whose destructors run.
LEMMA DeleteInnerKept ==
    ASSUME NEW owner \in Owner, MemInv(owner), TypeOK', NEW t \in Transients, DeleteNode(t),
           depth[drop[t]] # 1
    PROVE  MemInv(owner)'
<1>a. PICK d : d = drop[t]
  OBVIOUS
<1>0. /\ d # Nil /\ refs[d] = 1
      /\ refs' = [refs EXCEPT ![d] = 0]
      /\ drop' = [drop EXCEPT ![t] = Nil]
      /\ dying' = [dying EXCEPT ![t] = Append(@, d)]
      /\ UNCHANGED <<items, depth, persistent, pc, at, rightMost, stack, root, ptr, right, marking>>
  BY <1>a DEF DeleteNode, Drops, trees, control, result
<1>1. Busy(t)
  BY <1>a, <1>0 DEF Busy
<1>2. /\ Memory /\ Owned(owner) /\ Held(owner, t) /\ Marked(owner, t) /\ Exclusive
      /\ pc[t] # "persist" /\ marking[t] = <<>>
      /\ d \in NodeId /\ d \notin FreeNodes
  BY <1>a, <1>0, <1>1, GiverHas
<1>3. /\ refs \in [NodeId -> Nat] /\ refs'[d] = 0
      /\ \A n \in NodeId \ {d} : refs'[n] = refs[n]
      /\ drop'[t] = Nil /\ Waits(t) /\ dying'[t] = Append(dying[t], d)
      /\ dying[t] \in Seq(NodeId)
      /\ \A u \in Transients \ {t} : dying'[u] = dying[u]
  BY <1>0, <1>2 DEF Waits, Memory, TypeOK, NodesOK, ChoresOK
<1>13. /\ Len(dying[t]) \in Nat /\ Len(dying'[t]) = Len(dying[t]) + 1
       /\ dying'[t][Len(dying'[t])] = d
       /\ \A k \in 1 .. Len(dying[t]) : dying'[t][k] = dying[t][k]
  BY <1>2, <1>3, AppendProperties, LenProperties
<1>14. \A n \in NodeId : Dying(n)' <=> Dying(n) \/ n = d
  <2>1. Dying(d)'
    <3>1. Len(dying'[t]) \in 1 .. Len(dying'[t])
      BY <1>13
    <3> QED  BY <1>13, <3>1, DyingNext
  <2>2. ASSUME NEW n \in NodeId, Dying(n) PROVE Dying(n)'
    <3>0. PICK u \in Transients : \E k \in 1 .. Len(dying[u]) : dying[u][k] = n
      BY <2>2 DEF Dying
    <3>1. PICK k \in 1 .. Len(dying[u]) : dying[u][k] = n
      BY <3>0
    <3>2. k \in 1 .. Len(dying'[u]) /\ dying'[u][k] = n
      <4>1. CASE u = t
        BY <1>13, <3>1, <4>1
      <4>2. CASE u # t
        BY <1>3, <3>1, <4>2
      <4> QED  BY <4>1, <4>2
    <3> QED  BY <3>2, DyingNext
  <2>3. ASSUME NEW n \in NodeId, Dying(n)', n # d PROVE Dying(n)
    <3>0. PICK u \in Transients : \E k \in 1 .. Len(dying'[u]) : dying'[u][k] = n
      BY <2>3, DyingNext
    <3>1. PICK k \in 1 .. Len(dying'[u]) : dying'[u][k] = n
      BY <3>0
    <3>2. k \in 1 .. Len(dying[u]) /\ dying[u][k] = n
      <4>1. CASE u = t
        BY <1>13, <2>3, <3>1, <4>1
      <4>2. CASE u # t
        BY <1>3, <3>1, <4>2
      <4> QED  BY <4>1, <4>2
    <3> QED  BY <3>2 DEF Dying
  <2> QED  BY <2>1, <2>2, <2>3
<1>4. Writes(owner, t, {}, {})
  <2>1. \A n \in NodeId : refs'[n] = refs[n] \/ drop[t] = n
    BY <1>a, <1>3
  <2> QED  BY <1>0, <2>1 DEF Writes, Kept
<1>5. Forms(owner, t, {}, {})
  BY DEF Forms
<1>6. Sees(owner, t, drop'[t]) /\ \A k \in 1 .. Len(dying'[t]) : Sees(owner, t, dying'[t][k])
  <2>1. Sees(owner, t, d)
    BY <1>a, <1>2 DEF Held
  <2>2. ASSUME NEW k \in 1 .. Len(dying'[t]) PROVE Sees(owner, t, dying'[t][k])
    <3>1. k \in 1 .. Len(dying[t]) \/ k = Len(dying'[t])
      BY <1>13
    <3> QED  BY <1>2, <1>13, <2>1, <3>1 DEF Held
  <2> QED  BY <1>3, <2>2, NodePointer DEF Sees
<1>7. \A n \in NodeId : Dying(n)' => refs'[n] = 0
  BY <1>2, <1>3, <1>4, <1>14, DyingKept
<1>8. \A n \in NodeId : refs'[n] <= refs[n] /\ (refs[n] = 1 => refs'[n] = 1 \/ drop[t] = n)
  <2> SUFFICES ASSUME NEW n \in NodeId
               PROVE  refs'[n] <= refs[n] /\ (refs[n] = 1 => refs'[n] = 1 \/ drop[t] = n)
    OBVIOUS
  <2>1. CASE n = d
    BY <1>a, <1>3, <2>1
  <2>2. CASE n # d
    BY <1>3, <2>2
  <2> QED  BY <2>1, <2>2
<1>9. ASSUME NEW n \in NodeId, refs[n] = 2, SharedRoot(t, n)
      PROVE  refs'[n] = 2 /\ SharedRoot(t, n)'
  <2>1. n # d /\ d # Nil /\ drop[t] = d
    BY <1>a, <1>0, <1>9
  <2>2. Only(d, n) /\ root[t] = n
    BY <1>2, <1>9, <2>1 DEF SharedRoot
  <2>3. Only(d, n)' /\ root'[t] = n /\ dying'[t] # <<>>
    BY <1>0, <1>13, <2>2 DEF Only
  <2>4. SharedRoot(t, n)'
    BY <1>3, <1>13, <2>3 DEF SharedRoot
  <2> QED  BY <1>3, <1>9, <2>1, <2>4
<1>10. Gives(owner, t, {})
  BY <1>0, <1>1, <1>3, <1>4, <1>5, <1>6, <1>7, <1>8, <1>9 DEF Gives
<1>11. FreeClean'
  <2> SUFFICES ASSUME NEW n \in NodeId, refs'[n] = 0, ~Dying(n)'
               PROVE  depth'[n] = 1 /\ ~persistent'[n]
    BY DEF FreeClean, FreeNodes
  <2>1. n # d /\ ~Dying(n)
    BY <1>2, <1>14
  <2>2. refs[n] = 0
    BY <1>3, <2>1
  <2> QED  BY <1>0, <1>2, <2>1, <2>2 DEF Memory, FreeClean, FreeNodes
<1>12. Counts(t, t, Nil, Nil)
  <2> SUFFICES ASSUME NEW n \in NodeId
               PROVE  refs'[n] + Ones(t, t, Nil, Nil, n) = refs[n] + Ones(t, t, Nil, Nil, n)'
    BY DEF Counts
  <2> DEFINE A == One(root[t] = n)
             B == One(ptr[t] = n)
             C == One(right[t] = n)
             D == One(d = n)
             X == refs[n]
             Y == refs'[n]
             U == Ones(t, t, Nil, Nil, n)
             V == Ones(t, t, Nil, Nil, n)'
  <2>1. n # Nil /\ X \in Nat /\ Y + D = X
    BY <1>0, <1>3, NodePointer DEF One
  <2>2. U = A + B + C + D
    BY <1>a, <2>1, Pointers DEF One
  <2>3. V = A + B + C
    BY <1>0, <1>3, <2>1, Pointers DEF One
  <2>4. A \in Nat /\ B \in Nat /\ C \in Nat /\ D \in Nat
    BY DEF One
  <2>5. Y \in Nat
    BY DEF TypeOK, NodesOK
  <2> HIDE DEF A, B, C, D, X, Y, U, V
  <2>6. Y + U = X + V
    BY ONLY <2>1, <2>2, <2>3, <2>4, <2>5
  <2> QED  BY <2>6 DEF X, Y, U, V
<1> QED
  BY <1>10, <1>11, <1>12, GivesKept

\* The destructor of an inner node gives up the last child.
LEMMA DestroyChildKept ==
    ASSUME NEW owner \in Owner, MemInv(owner), TypeOK', NEW t \in Transients, DestroyChild(t)
    PROVE  MemInv(owner)'
<1>a. PICK n : n = dying[t][Len(dying[t])]
  OBVIOUS
<1>b. PICK len : len = Len(items[n])
  OBVIOUS
<1>c. PICK c : c = items[n][len]
  OBVIOUS
<1>0. /\ drop[t] = Nil /\ dying[t] # <<>> /\ depth[n] > 1 /\ items[n] # <<>>
      /\ drop' = [drop EXCEPT ![t] = c]
      /\ \/ /\ len > 1
            /\ items' = [items EXCEPT ![n] = SubSeq(@, 1, len - 1)]
            /\ UNCHANGED <<depth, persistent, dying>>
         \/ /\ ~(len > 1)
            /\ items' = [items EXCEPT ![n] = <<>>]
            /\ Makes({n}, 1)
            /\ dying' = [dying EXCEPT ![t] = SubSeq(@, 1, Len(@) - 1)]
      /\ UNCHANGED <<refs, pc, at, rightMost, stack, root, ptr, right, marking>>
  BY <1>a, <1>b, <1>c DEF DestroyChild, Frees, Drops, trees, control, result
<1>1. Busy(t)
  BY <1>0 DEF Busy
<1>2. /\ Memory /\ Owned(owner) /\ Held(owner, t) /\ Marked(owner, t) /\ Exclusive
      /\ pc[t] # "persist" /\ marking[t] = <<>>
  BY <1>1, GiverHas
<1>3. /\ dying[t] \in Seq(NodeId) /\ Len(dying[t]) \in Nat \ {0}
      /\ Len(dying[t]) \in 1 .. Len(dying[t])
  <2>1. dying[t] \in Seq(NodeId)
    BY <1>2 DEF Memory, TypeOK, ChoresOK
  <2> QED  BY <1>0, <2>1, EmptySeq, LenProperties
<1>4. n \in NodeId /\ Dying(n) /\ refs[n] = 0 /\ n \notin FreeNodes /\ Sees(owner, t, n)
  <2>1. n \in NodeId
    BY <1>a, <1>3, ElementOfSeq
  <2>2. Dying(n) /\ Sees(owner, t, n)
    BY <1>a, <1>2, <1>3 DEF Dying, Held
  <2> QED  BY <1>2, <2>1, <2>2 DEF Memory, RefExact, FreeNodes
<1>5. /\ items[n] \in Seq(NodeId) /\ len \in Nat \ {0} /\ len \in 1 .. len
      /\ depth[n] \in Nat /\ depth[n] # 1 /\ Distinct(items[n])
      /\ Children(n) = {items[n][k] : k \in 1 .. len}
  <2>1. items[n] \in Seq(NodeId) /\ depth[n] \in Nat /\ depth[n] # 1 /\ n \in Inner
    BY <1>0, <1>2, <1>4 DEF Memory, TypeOK, NodesOK, Inner
  <2>2. len \in Nat \ {0}
    BY <1>0, <1>b, <2>1, EmptySeq
  <2>3. Distinct(items[n])
    BY <1>2, <2>1 DEF Memory, Siblings
  <2>4. Children(n) = {items[n][k] : k \in 1 .. len}
    BY <1>b, <2>1 DEF Children
  <2> QED  BY <2>1, <2>2, <2>3, <2>4
<1>6. c \in NodeId /\ c \in Children(n) /\ Sees(owner, t, c)
  <2>1. c \in NodeId
    BY <1>b, <1>c, <1>5, ElementOfSeq
  <2>2. c \in Children(n)
    BY <1>c, <1>5
  <2> QED  BY <1>2, <1>4, <2>1, <2>2 DEF Owned, Sees
<1>7. /\ \A m \in NodeId \ {n} : Kept(m)
      /\ drop'[t] = c /\ Waits(t)
      /\ \A u \in Transients \ {t} : dying'[u] = dying[u]
  <2>1. \A m \in NodeId \ {n} : Kept(m)
    BY <1>0, <1>2, <1>4 DEF Makes, Kept, Memory, TypeOK, NodesOK
  <2>2. \A u \in Transients \ {t} : dying'[u] = dying[u]
    BY <1>0, <1>2 DEF Memory, TypeOK, ChoresOK
  <2> QED  BY <1>0, <1>2, <2>1, <2>2 DEF Waits, Memory, TypeOK, ChoresOK
<1>8. /\ \/ /\ len > 1 /\ depth'[n] = depth[n] /\ persistent'[n] = persistent[n]
            /\ Distinct(items'[n])
         \/ len = 1 /\ depth'[n] = 1 /\ persistent'[n] = FALSE
      /\ Children(n)' = Children(n) \ {c}
  <2>1. CASE len > 1
    <3>1. PICK s : s = SubSeq(items[n], 1, len - 1)
      OBVIOUS
    <3>2. Len(s) = len - 1 /\ \A k \in 1 .. len - 1 : s[k] = items[n][k]
      BY <1>b, <1>5, <2>1, <3>1, SubSeqProperties
    <3>3. /\ items'[n] = s /\ depth'[n] = depth[n] /\ persistent'[n] = persistent[n]
      BY <1>0, <1>2, <1>4, <2>1, <3>1 DEF Memory, TypeOK, NodesOK
    <3>4. Children(n)' = {s[k] : k \in 1 .. Len(s)}
      BY <1>5, <3>3 DEF Children
    <3>5. \A k \in 1 .. len : items[n][k] = c => k = len
      BY <1>b, <1>c, <1>5 DEF Distinct
    <3>6. {s[k] : k \in 1 .. Len(s)} = {items[n][k] : k \in 1 .. len - 1}
      BY <3>2
    <3>7. {items[n][k] : k \in 1 .. len - 1} = {items[n][k] : k \in 1 .. len} \ {c}
      <4>1. 1 .. len = (1 .. len - 1) \cup {len} /\ len \notin 1 .. len - 1
        BY <1>5
      <4> QED  BY <1>c, <3>5, <4>1
    <3>8. Distinct(s)
      <4>1. \A k \in 1 .. Len(s) : k \in 1 .. len /\ s[k] = items[n][k]
        BY <1>5, <3>2
      <4> QED  BY <1>b, <1>5, <4>1 DEF Distinct
    <3> QED  BY <1>5, <2>1, <3>3, <3>4, <3>6, <3>7, <3>8
  <2>2. CASE ~(len > 1)
    <3>1. len = 1
      BY <1>5, <2>2
    <3>2. depth'[n] = 1 /\ persistent'[n] = FALSE
      BY <1>0, <1>4, <2>2 DEF Makes
    <3>3. Children(n) = {c}
      <4>1. \A k \in 1 .. len : k = len
        BY <3>1
      <4> QED  BY <1>c, <1>5, <4>1
    <3>4. Children(n)' = {}
      BY <3>2 DEF Children
    <3> QED  BY <3>1, <3>2, <3>3, <3>4
  <2> QED  BY <2>1, <2>2
<1>9. /\ \A m \in NodeId : Dying(m)' => Dying(m)
      /\ \A m \in NodeId : Dying(m) => Dying(m)' \/ (m = n /\ depth'[n] = 1 /\ ~persistent'[n])
      /\ \A k \in 1 .. Len(dying'[t]) : Sees(owner, t, dying'[t][k])
  <2>1. CASE len > 1
    <3>1. dying' = dying
      BY <1>0, <2>1
    <3> QED  BY <1>2, <3>1 DEF Dying, Held
  <2>2. CASE ~(len > 1)
    <3>1. PICK s : s = SubSeq(dying[t], 1, Len(dying[t]) - 1)
      OBVIOUS
    <3>2. Len(s) = Len(dying[t]) - 1 /\ \A k \in 1 .. Len(dying[t]) - 1 : s[k] = dying[t][k]
      BY <1>3, <3>1, SubSeqProperties
    <3>3. dying'[t] = s
      BY <1>0, <1>2, <2>2, <3>1 DEF Memory, TypeOK, ChoresOK
    <3>4. \A k \in 1 .. Len(s) : k \in 1 .. Len(dying[t]) /\ s[k] = dying[t][k]
      BY <1>3, <3>2
    <3>5. \A k \in 1 .. Len(dying[t]) :
             dying[t][k] = n \/ (k \in 1 .. Len(s) /\ s[k] = dying[t][k])
      BY <1>a, <1>3, <3>2
    <3>6. ASSUME NEW m \in NodeId, Dying(m)' PROVE Dying(m)
      <4>0. PICK u \in Transients : \E k \in 1 .. Len(dying'[u]) : dying'[u][k] = m
        BY <3>6, DyingNext
      <4>1. PICK k \in 1 .. Len(dying'[u]) : dying'[u][k] = m
        BY <4>0
      <4>2. k \in 1 .. Len(dying[u]) /\ dying[u][k] = m
        <5>1. CASE u = t
          BY <3>3, <3>4, <4>1, <5>1
        <5>2. CASE u # t
          BY <1>7, <4>1, <5>2
        <5> QED  BY <5>1, <5>2
      <4> QED  BY <4>2 DEF Dying
    <3>7. ASSUME NEW m \in NodeId, Dying(m), m # n PROVE Dying(m)'
      <4>0. PICK u \in Transients : \E k \in 1 .. Len(dying[u]) : dying[u][k] = m
        BY <3>7 DEF Dying
      <4>1. PICK k \in 1 .. Len(dying[u]) : dying[u][k] = m
        BY <4>0
      <4>2. k \in 1 .. Len(dying'[u]) /\ dying'[u][k] = m
        <5>1. CASE u = t
          BY <3>3, <3>5, <3>7, <4>1, <5>1
        <5>2. CASE u # t
          BY <1>7, <4>1, <5>2
        <5> QED  BY <5>1, <5>2
      <4> QED  BY <4>2, DyingNext
    <3>8. depth'[n] = 1 /\ ~persistent'[n]
      BY <1>8, <2>2
    <3>9. \A k \in 1 .. Len(s) : Sees(owner, t, s[k])
      BY <1>2, <3>4 DEF Held
    <3> QED  BY <3>3, <3>6, <3>7, <3>8, <3>9
  <2> QED  BY <2>1, <2>2
<1>10. Writes(owner, t, {}, {n})
  BY <1>0, <1>4, <1>7 DEF Writes
<1>11. Forms(owner, t, {}, {n})
  <2>1. \A x \in Children(n) :
           x \in NodeId /\ refs[x] > 0 /\ Sees(owner, t, x) /\ depth[n] = depth[x] + 1
    <3>1. ASSUME NEW x \in Children(n) PROVE x \in NodeId /\ Placed(x)
      BY <1>b, <1>4, <1>5, ElementOfSeq DEF Placed
    <3>2. n \in Inner
      BY <1>0, <1>4 DEF Inner
    <3> QED  BY <1>2, <1>4, <3>1, <3>2, HeldAlive DEF Memory, Levels, Owned, Sees
  <2>2. CASE depth'[n] = 1
    BY <1>8, <2>2 DEF Forms
  <2>3. CASE depth'[n] # 1
    <3>1. depth'[n] = depth[n] /\ Distinct(items'[n])
      BY <1>8, <2>3
    <3> QED  BY <1>8, <2>1, <3>1 DEF Forms
  <2> QED  BY <2>2, <2>3
<1>12. Gives(owner, t, {n})
  <2>1. Sees(owner, t, drop'[t])
    BY <1>6, <1>7
  <2>2. \A m \in NodeId : Dying(m)' => refs'[m] = 0
    BY <1>0, <1>2, <1>9 DEF Memory, RefExact
  <2>3. \A m \in NodeId : refs'[m] <= refs[m] /\ (refs[m] = 1 => refs'[m] = 1 \/ drop[t] = m)
    BY <1>0, <1>2, RefsNat
  <2>4. \A m \in NodeId : persistent'[m] => persistent[m]
    BY <1>7, <1>8 DEF Kept
  <2>5. ASSUME NEW m \in NodeId, refs[m] = 2, SharedRoot(t, m)
        PROVE  refs'[m] = 2 /\ SharedRoot(t, m)'
    <3>1. Only(n, m) /\ root[t] = m /\ m # Nil
      BY <1>a, <1>0, <1>2, <2>5, NodePointer DEF SharedRoot
    <3>2. c = m
      <4>1. items[n] = <<m>>
        BY <3>1 DEF Only
      <4>2. len = 1
        BY <1>b, <4>1
      <4> QED  BY <1>c, <4>1, <4>2
    <3>3. drop'[t] = m /\ root'[t] = m
      BY <1>0, <1>7, <3>1, <3>2
    <3> QED  BY <1>0, <2>5, <3>3 DEF SharedRoot
  <2> QED  BY <1>0, <1>1, <1>4, <1>7, <1>9, <1>10, <1>11, <2>1, <2>2, <2>3, <2>4, <2>5 DEF Gives
<1>13. FreeClean'
  <2> SUFFICES ASSUME NEW m \in NodeId, refs'[m] = 0, ~Dying(m)'
               PROVE  depth'[m] = 1 /\ ~persistent'[m]
    BY DEF FreeClean, FreeNodes
  <2>1. CASE m = n
    BY <1>4, <1>9, <2>1
  <2>2. CASE m # n
    <3>1. ~Dying(m) /\ refs[m] = 0 /\ Kept(m)
      BY <1>0, <1>7, <1>9, <2>2
    <3> QED  BY <1>2, <3>1 DEF Memory, FreeClean, FreeNodes, Kept
  <2> QED  BY <2>1, <2>2
<1>14. Counts(t, t, n, n)
  <2> SUFFICES ASSUME NEW m \in NodeId
               PROVE  refs'[m] + Ones(t, t, n, n, m) = refs[m] + Ones(t, t, n, n, m)'
    BY DEF Counts
  <2> DEFINE A == One(root[t] = m)
             B == One(ptr[t] = m)
             C == One(right[t] = m)
             D == One(c = m)
             E == One(m \in Children(n) \ {c})
             G == One(m \in Children(n))
             X == refs[m]
             Y == refs'[m]
             U == Ones(t, t, n, n, m)
             V == Ones(t, t, n, n, m)'
  <2>1. m # Nil /\ X \in Nat /\ Y = X /\ G = D + E
    BY <1>0, <1>2, <1>6, RefsNat, NodePointer DEF One
  <2>2. U = A + B + C + G
    BY <1>0, <1>4, <2>1 DEF One, Ones
  <2>3. V = A + B + C + D + E
    BY <1>0, <1>4, <1>7, <1>8 DEF One, Ones
  <2>4. A \in Nat /\ B \in Nat /\ C \in Nat /\ D \in Nat /\ E \in Nat /\ G \in Nat
    BY DEF One
  <2> HIDE DEF A, B, C, D, E, G, X, Y, U, V
  <2>5. Y + U = X + V
    BY ONLY <2>1, <2>2, <2>3, <2>4
  <2> QED  BY <2>5 DEF X, Y, U, V
<1> QED
  BY <1>12, <1>13, <1>14, GivesKept

-----------------------------------------------------------------------------
(* The theorems *)

\* Every continuation.
LEMMA AscendKept ==
    ASSUME NEW owner \in Owner, MemInv(owner), TypeOK', NEW t \in Transients, Ascend(t)
    PROVE  \E owner2 \in Owner : MemInv(owner2)'
  BY InternalReplaceKept, InternalInsertKept, InternalSplitKept, InternalEraseKept,
     InternalEraseOnlyKept, SeekEndKept, LeafKeepKept, RootReplaceKept, CollapseKept,
     RootSplitKept, RootEraseKept, RootSplitTooDeepKept, DiscardLeftKept, ReturnKept DEF Ascend

\* Every step of a call.
LEMMA StepKept ==
    ASSUME NEW owner \in Owner, MemInv(owner), TypeOK', NEW t \in Transients, Step(t)
    PROVE  \E owner2 \in Owner : MemInv(owner2)'
<1>1. CASE \E i \in 0 .. InternalSize - 1 : Descend(t, i)
  BY <1>1, DescendKept
<1>2. CASE \E i \in 0 .. LeafSize, v \in Values : LeafStep(t, i, v)
  BY <1>2, LeafStepKept
<1>3. CASE Ascend(t)
  BY <1>3, AscendKept
<1>4. CASE MakePersistent(t)
  BY <1>4, MarkKept, PublishKept DEF MakePersistent
<1>5. CASE DecRef(t)
  <2>1. CASE DeleteNode(t)
    BY <2>1, DeleteLeafKept, DeleteInnerKept
  <2> QED  BY <1>5, <2>1, DropReferenceKept, DestroyChildKept DEF DecRef
<1> QED
  BY <1>1, <1>2, <1>3, <1>4, <1>5 DEF Step

\* The inductive invariant: the nodes can be divided among the threads.
MemoryInv == \E owner \in Owner : MemInv(owner)

\* Empty trees have it.
LEMMA MemoryInit == Init => MemoryInv
<1> SUFFICES ASSUME Init PROVE MemoryInv
  OBVIOUS
<1> DEFINE o == [n \in NodeId |-> NoOne]
<1>0. o \in Owner /\ \A n \in NodeId : o[n] = NoOne
  BY DEF Owner
<1> HIDE DEF o
<1>1. TypeOK
  BY InitType
<1>2. /\ \A n \in NodeId : items[n] = <<>> /\ depth[n] = 1 /\ ~persistent[n] /\ refs[n] = 0
      /\ \A h \in Handle : root[h] = Nil
      /\ \A t \in Transients :
           /\ pc[t] = "idle" /\ stack[t] = <<>> /\ ptr[t] = Nil /\ right[t] = Nil /\ drop[t] = Nil
           /\ dying[t] = <<>> /\ marking[t] = <<>>
  BY DEF Init
<1>3. Inner = {} /\ \A n \in NodeId : Children(n) = {}
  BY <1>2 DEF Inner, Children
<1>4. Siblings /\ Levels /\ FreeClean
  <2>1. FreeNodes \subseteq NodeId
    BY DEF FreeNodes
  <2> QED  BY <1>2, <1>3, <2>1 DEF Siblings, Levels, FreeClean
<1>5. RefExact
  <2> SUFFICES ASSUME NEW n \in NodeId PROVE refs[n] = Owners(n) /\ (Dying(n) => refs[n] = 0)
    BY DEF RefExact
  <2>1. /\ {h \in Handle : root[h] = n} = {}
        /\ Parents(n) = {}
        /\ {t \in Transients : ptr[t] = n} = {}
        /\ {t \in Transients : right[t] = n} = {}
        /\ {t \in Transients : drop[t] = n} = {}
    BY <1>2, <1>3, NodePointer DEF Parents
  <2>2. Owners(n) = 0 + 0 + 0 + 0 + 0
    BY <1>1, <1>4, <2>1, OwnersCount, FS_EmptySet DEF TypeOK
  <2> QED  BY <1>2, <2>2
<1>6. Threads
  BY <1>2 DEF Threads, Results, Path
<1>7. Owned(o)
  <2>1. ASSUME NEW t \in Transients PROVE Held(o, t) /\ Marked(o, t)
    <3>1. root[t] = Nil
      BY <1>2 DEF Handle
    <3>2. Held(o, t)
      BY <1>2, <3>1, NodePointer DEF Held, Sees
    <3> QED  BY <1>0, <1>2, <3>2, NoOneIsNoThread DEF Marked
  <2> QED  BY <1>0, <1>2, <1>3, <2>1, NodePointer DEF Owned, Handle
<1>8. Exclusive
  BY <1>2 DEF Exclusive
<1> QED
  BY <1>0, <1>1, <1>4, <1>5, <1>6, <1>7, <1>8 DEF MemoryInv, MemInv, Memory

\* Every step keeps it; a step of the specification is one of a thread.
LEMMA MemoryNext == MemoryInv /\ TypeOK' /\ [Next]_vars => MemoryInv'
<1> SUFFICES ASSUME MemoryInv, TypeOK', [Next]_vars PROVE MemoryInv'
  OBVIOUS
<1>1. PICK owner \in Owner : MemInv(owner)
  BY DEF MemoryInv
<1>2. ASSUME NEW owner2 \in Owner, MemInv(owner2)' PROVE MemoryInv'
  BY <1>2 DEF MemoryInv, Owner
<1>3. CASE Next
  <2>1. PICK t \in Transients :
          (\E name \in Operations : Begin(t, name)) \/ MakeCall(t) \/ Step(t)
    BY <1>3 DEF Next
  <2>2. CASE \E name \in Operations : Begin(t, name)
    BY <1>1, <1>2, <2>2, BeginKept
  <2>3. CASE MakeCall(t)
    BY <1>1, <1>2, <2>3, MakeCallKept
  <2>4. CASE Step(t)
    BY <1>1, <1>2, <2>4, StepKept
  <2> QED  BY <2>1, <2>2, <2>3, <2>4
<1>4. CASE UNCHANGED vars
  <2>0. /\ UNCHANGED <<items, depth, persistent, refs, root, pc, at, rightMost, stack>>
        /\ UNCHANGED <<ptr, right, drop, dying, marking>>
    BY <1>4 DEF vars, nodes, trees, control, result, chores
  <2>1. \A n : Children(n)' = Children(n) /\ Dying(n)' = Dying(n)
    BY <2>0 DEF Children, Dying
  <2>2. Memory'
    <3>1. RefExact'
      BY <1>1, <2>0 DEF MemInv, Memory, RefExact, Owners, PointerSlots, Inner, Dying
    <3>2. Siblings' /\ Levels' /\ FreeClean'
      BY <1>1, <2>0, <2>1 DEF MemInv, Memory, Siblings, Levels, Inner, FreeClean, FreeNodes
    <3> QED  BY <3>1, <3>2 DEF Memory
  <2>3. Threads'
    <3>1. \A u \in Transients : Results(u)'
      BY <1>1, <2>0 DEF MemInv, Threads, Results, Fresh, Height, FrameItem, Frame, Busy
    <3>2. ASSUME NEW u \in Transients PROVE Path(u)'
      BY <1>1, <2>0, PathKept DEF MemInv, Threads
    <3> QED  BY <3>1, <3>2 DEF Threads
  <2>4. Owned(owner)'
    <3>1. \A u \in Transients : Held(owner, u)' /\ Marked(owner, u)'
      BY <1>1, <2>0, <2>1 DEF MemInv, Owned, Held, Marked, Sees
    <3> QED  BY <1>1, <2>0, <2>1, <3>1 DEF MemInv, Owned
  <2>5. Exclusive'
    <3>1. \A u \in Transients, n \in NodeId : SharedRoot(u, n) => SharedRoot(u, n)'
      BY <2>0 DEF SharedRoot, Only
    <3> QED  BY <1>1, <2>0, <3>1 DEF MemInv, Exclusive
  <2>6. MemInv(owner)'
    BY <2>2, <2>3, <2>4, <2>5 DEF MemInv
  <2> QED  BY <1>1, <1>2, <2>6
<1> QED
  BY <1>3, <1>4

\* The invariant holds always.
LEMMA MemoryAlways == Spec => []MemoryInv
<1>1. Init => MemoryInv
  BY MemoryInit
<1>2. MemoryInv /\ TypeOK' /\ [Next]_vars => MemoryInv'
  BY MemoryNext
<1> QED
  BY <1>1, <1>2, TypeCorrect, PTL DEF Spec

\* ref_count of a node is, at every step of every thread, the number of NodePtrs to
\* it, and a node whose destructor runs has none: dec_ref deletes a node exactly when
\* the last pointer to it goes.
THEOREM CountsAreOwners == Spec => []RefExact
<1>1. MemoryInv => RefExact
  BY DEF MemoryInv, MemInv, Memory
<1> QED
  BY <1>1, MemoryAlways, PTL

\* A node that is not persistent has one pointer, but for a root that is about to be
\* marked or whose parent is being dropped: what the code trusts when it changes the
\* node in place.
THEOREM InPlaceIsAlone == Spec => []MutableIsExclusive
<1>1. MemoryInv => MutableIsExclusive
  <2> SUFFICES ASSUME NEW owner \in Owner, MemInv(owner),
                      NEW n \in NodeId, refs[n] > 1, ~persistent[n]
               PROVE  /\ refs[n] = 2
                      /\ \E t \in Transients : root[t] = n /\ (marking[t] = <<n>> \/ Busy(t))
    BY DEF MemoryInv, MutableIsExclusive
  <2>1. refs[n] = 2 /\ \E t \in Transients : SharedRoot(t, n)
    BY DEF MemInv, Exclusive
  <2>2. \A t \in Transients :
          SharedRoot(t, n) => root[t] = n /\ (marking[t] = <<n>> \/ Busy(t))
    BY NodePointer DEF SharedRoot, Busy
  <2> QED  BY <2>1, <2>2
<1> QED
  BY <1>1, MemoryAlways, PTL

\* Below a persistent node all nodes are persistent, or listed by the thread that is
\* marking: make_persistent may stop where it meets the mark.
THEOREM MarksGoDown == Spec => []PersistentBelow
<1>1. MemoryInv => PersistentBelow
  <2> SUFFICES ASSUME NEW owner \in Owner, MemInv(owner),
                      NEW n \in NodeId, refs[n] > 0, persistent[n],
                      NEW m \in Children(n), ~persistent[m]
               PROVE  \E t \in Transients : \E k \in 1 .. Len(marking[t]) : marking[t][k] = m
    BY DEF MemoryInv, PersistentBelow
  <2>0. Memory /\ Owned(owner)
    BY DEF MemInv
  <2>1. m \in NodeId /\ Placed(m)
    <3>1. depth[n] # 1
      BY DEF Children
    <3>2. items[n] \in Seq(NodeId)
      BY <2>0, <3>1 DEF Memory, TypeOK, NodesOK
    <3> QED  BY <3>1, <3>2, ElementOfSeq DEF Children, Placed
  <2>2. owner[m] # NoOne
    BY <2>0, <2>1, HeldAlive DEF Owned
  <2>3. owner[n] = owner[m] /\ owner[m] \in Transients
    BY <2>0, <2>1, <2>2 DEF Owned, Owner
  <2> QED  BY <2>0, <2>3 DEF Owned, Marked
<1> QED
  BY <1>1, MemoryAlways, PTL

\* The continuations of a thread that is not giving up a pointer are a path from the
\* root of its tree, whatever the other threads do, and every frame names a child.
THEOREM ContinuationsArePath == Spec => []StackIsPath
<1>1. MemoryInv => StackIsPath
  BY DEF MemoryInv, MemInv, Threads, Path, StackIsPath, OnEdgeTo
<1> QED
  BY <1>1, MemoryAlways, PTL

=============================================================================
