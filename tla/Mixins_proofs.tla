---------------------------- MODULE Mixins_proofs ----------------------------
(***************************************************************************)
(* What the mixins keep is right, and does not change once it is shared.   *)
(*                                                                         *)
(* A tree with mixins is a copy-on-write tree, so all that is proved of    *)
(* CowTree holds of it.  The counts of an inner node are sums, folds over  *)
(* finite sets; what is needed of them follows by induction over the       *)
(* subsets of a finite set.                                                *)
(***************************************************************************)
EXTENDS Mixins, CowShape_proofs

-----------------------------------------------------------------------------
(* Sums *)

\* G is the sum of c over every subset of D.
Sums(D, c, G) ==
    /\ G \in [SUBSET D -> Int] /\ G[{}] = 0
    /\ \A s \in SUBSET D : \A x \in s : G[s] = G[s \ {x}] + c[x]

\* There is one.
LEMMA SumsExist ==
    ASSUME NEW D, IsFiniteSet(D), NEW c, \A x \in D : c[x] \in Int
    PROVE  \E G : Sums(D, c, G)
<1> DEFINE T == {s \in SUBSET D : \E G : Sums(s, c, G)}
<1>1. {} \in T
  <2> DEFINE Z == [s \in SUBSET {} |-> 0]
  <2>1. Sums({}, c, Z)
    BY DEF Sums
  <2> QED  BY <2>1
<1>2. ASSUME NEW s \in SUBSET D, s # {}, \A x \in s : s \ {x} \in T PROVE s \in T
  <2>1. PICK x \in s : TRUE
    BY <1>2
  <2>2. PICK G : Sums(s \ {x}, c, G)
    BY <1>2
  <2> DEFINE more(r) == IF x \in r THEN c[x] ELSE 0
             H == [r \in SUBSET s |-> G[r \ {x}] + more(r)]
  <2>3. c[x] \in Int /\ \A r : more(r) \in Int
    OBVIOUS
  <2>4. \A r \in SUBSET s : r \ {x} \in SUBSET (s \ {x})
    OBVIOUS
  <2>5. H \in [SUBSET s -> Int] /\ H[{}] = 0
    <3>1. \A r \in SUBSET s : H[r] \in Int
      BY <2>2, <2>3, <2>4 DEF Sums
    <3>2. {} \ {x} = {} /\ more({}) = 0
      OBVIOUS
    <3> QED  BY <2>2, <3>1, <3>2 DEF Sums
  <2>6. ASSUME NEW r \in SUBSET s, NEW y \in r PROVE H[r] = H[r \ {y}] + c[y]
    <3>1. r \ {y} \in SUBSET s /\ r \ {x} \in SUBSET (s \ {x})
          /\ (r \ {y}) \ {x} \in SUBSET (s \ {x}) /\ c[y] \in Int
      OBVIOUS
    <3>2. PICK a, b : a = r \ {x} /\ b = (r \ {y}) \ {x}
      OBVIOUS
    <3>3. G[a] \in Int /\ G[b] \in Int
      BY <2>2, <3>1, <3>2 DEF Sums
    <3>4. PICK e, e2 : e = more(r) /\ e2 = more(r \ {y})
      OBVIOUS
    <3>5. H[r] = G[a] + e /\ H[r \ {y}] = G[b] + e2
      BY <3>1, <3>2, <3>4
    <3>6. CASE y = x
      <4>1. b = a /\ e = c[y] /\ e2 = 0
        BY <3>2, <3>4, <3>6
      <4> QED  BY ONLY <3>1, <3>3, <3>5, <4>1
    <3>7. CASE y # x
      <4>1. b = a \ {y} /\ e = e2 /\ y \in a /\ a \in SUBSET (s \ {x})
        BY <3>2, <3>4, <3>7
      <4>2. G[a] = G[b] + c[y]
        BY <2>2, <4>1 DEF Sums
      <4>3. e \in Int
        BY <2>3, <3>4
      <4> QED  BY ONLY <3>1, <3>3, <3>5, <4>1, <4>2, <4>3
    <3> QED  BY <3>6, <3>7
  <2> HIDE DEF H
  <2>7. Sums(s, c, H)
    BY <2>5, <2>6 DEF Sums
  <2> QED  BY <2>7
<1>3. \A s \in SUBSET D : s \in T
  <2> HIDE DEF T
  <2> QED  BY <1>1, <1>2, SubsetInduction
<1> QED
  BY <1>3

\* f takes the elements of A to those of B, each to one of its own,
Renames(f, A, B) ==
    /\ DOMAIN f = A /\ B = {f[x] : x \in A}
    /\ \A x, y \in A : f[x] = f[y] => x = y

\* and the summands d there are the summands c here.
Matches(f, A, c, D, B, d, E) ==
    /\ A \subseteq D /\ B \subseteq E /\ IsFiniteSet(A)
    /\ Renames(f, A, B) /\ \A x \in A : d[f[x]] = c[x]

\* The sum over a set is that over another with the same summands.
LEMMA SumsAlike ==
    ASSUME NEW D, NEW E, NEW c, NEW d, NEW G, NEW H, Sums(D, c, G), Sums(E, d, H),
           NEW A, NEW B, NEW f, Matches(f, A, c, D, B, d, E)
    PROVE  H[B] = G[A]
<1> USE DEF Renames, Matches
<1> DEFINE Image(s) == {f[x] : x \in s}
           T == {s \in SUBSET A : H[Image(s)] = G[s]}
<1>1. {} \in T
  <2>1. Image({}) = {}
    OBVIOUS
  <2> QED  BY <2>1 DEF Sums
<1>2. ASSUME NEW s \in SUBSET A, s # {}, \A x \in s : s \ {x} \in T PROVE s \in T
  <2>1. PICK x \in s : TRUE
    BY <1>2
  <2>2. Image(s) \ {f[x]} = Image(s \ {x}) /\ f[x] \in Image(s) /\ Image(s) \in SUBSET E
    OBVIOUS
  <2>3. H[Image(s \ {x})] = G[s \ {x}]
    BY <1>2
  <2> HIDE DEF Image
  <2>4. H[Image(s)] = H[Image(s) \ {f[x]}] + d[f[x]]
    BY <2>2 DEF Sums
  <2>5. G[s] = G[s \ {x}] + c[x]
    BY DEF Sums
  <2> QED  BY <2>2, <2>3, <2>4, <2>5
<1>3. \A s \in SUBSET A : s \in T
  <2> HIDE DEF T
  <2> QED  BY <1>1, <1>2, SubsetInduction
<1> QED
  BY <1>3

\* The number of elements below an inner node with the metadata ms.
Total(ms) == MapThenSumSet(LAMBDA k : ms[k].children, 1 .. Len(ms))

\* The fold of the community modules is such a sum, in whatever order it goes.
LEMMA TotalSums ==
    ASSUME NEW ms, Len(ms) \in Nat, \A k \in 1 .. Len(ms) : ms[k].children \in Int
    PROVE  LET D == 1 .. Len(ms)
           IN  \E G : /\ Sums(D, [k \in D |-> ms[k].children], G)
                      /\ Total(ms) = G[D]
<1> DEFINE D == 1 .. Len(ms)
           c == [k \in D |-> ms[k].children]
           any(s) == CHOOSE x \in s : TRUE
           Fold(f) == [s \in SUBSET D |-> IF s = {} THEN 0
                                          ELSE ms[any(s)].children + f[s \ {any(s)}]]
           g == CHOOSE f : f = Fold(f)
<1>1. IsFiniteSet(D) /\ \A k \in D : c[k] \in Int
  <2>1. 1 \in Int /\ Len(ms) \in Int
    OBVIOUS
  <2> QED  BY <2>1, FS_Interval
<1>2. PICK G : Sums(D, c, G)
  <2> HIDE DEF D, c
  <2> QED  BY <1>1, SumsExist
<1>3. Total(ms) = g[D]
  BY DEF Total, MapThenSumSet, MapThenFoldSet
<1>4. ASSUME NEW s \in SUBSET D, s # {}
      PROVE  any(s) \in s /\ ms[any(s)].children = c[any(s)]
  <2>1. \E x : x \in s
    BY <1>4
  <2>2. any(s) \in s
    BY ONLY <2>1
  <2> HIDE DEF any
  <2> QED  BY <2>2
<1>5. G = Fold(G)
  <2>1. ASSUME NEW s \in SUBSET D
        PROVE  G[s] = IF s = {} THEN 0 ELSE ms[any(s)].children + G[s \ {any(s)}]
    <3>1. CASE s = {}
      BY <1>2, <3>1 DEF Sums
    <3>2. CASE s # {}
      <4>1. G[s] = G[s \ {any(s)}] + c[any(s)]
        BY <1>2, <1>4, <3>2 DEF Sums
      <4>2. s \ {any(s)} \in SUBSET D /\ c[any(s)] \in Int
        BY <1>1, <1>4, <3>2
      <4>3. G[s \ {any(s)}] \in Int
        BY <1>2, <4>2 DEF Sums
      <4>4. ms[any(s)].children = c[any(s)]
        BY <1>4, <3>2
      <4> HIDE DEF any, c
      <4>5. G[s] = ms[any(s)].children + G[s \ {any(s)}]
        BY ONLY <4>1, <4>2, <4>3, <4>4
      <4> QED  BY <3>2, <4>5
    <3> QED  BY <3>1, <3>2
  <2>2. G = [s \in SUBSET D |-> G[s]]
    BY <1>2 DEF Sums
  <2> HIDE DEF any
  <2> QED  BY <2>1, <2>2
<1>6. g = Fold(g)
  <2> HIDE DEF Fold
  <2> QED  BY <1>5
<1>7. g = G
  <2> DEFINE T == {s \in SUBSET D : g[s] = G[s]}
  <2>0. g = [s \in SUBSET D |-> IF s = {} THEN 0 ELSE ms[any(s)].children + g[s \ {any(s)}]]
        /\ G = [s \in SUBSET D |-> IF s = {} THEN 0 ELSE ms[any(s)].children + G[s \ {any(s)}]]
    BY <1>5, <1>6
  <2> HIDE DEF g
  <2>1. {} \in T
    BY <2>0
  <2>2. ASSUME NEW s \in SUBSET D, s # {}, \A x \in s : s \ {x} \in T PROVE s \in T
    <3>1. any(s) \in s
      BY <1>4, <2>2
    <3> HIDE DEF any
    <3>2. g[s \ {any(s)}] = G[s \ {any(s)}]
      BY <2>2, <3>1
    <3> QED  BY <2>0, <2>2, <3>2
  <2>3. \A s \in SUBSET D : s \in T
    <3> HIDE DEF T, D
    <3> QED  BY <1>1, <2>1, <2>2, SubsetInduction
  <2>4. \A s \in SUBSET D : g[s] = G[s]
    BY <2>3
  <2> HIDE DEF any, T
  <2> QED  BY <2>0, <2>4
<1> QED
  BY <1>2, <1>3, <1>7

\* What is needed of a Total: a sum of the children of its entries.
Adds(ms, G) ==
    /\ Sums(1 .. Len(ms), [k \in 1 .. Len(ms) |-> ms[k].children], G)
    /\ Total(ms) = G[1 .. Len(ms)]

\* The counts of ms are numbers.
Numbers(ms) == Len(ms) \in Nat /\ \A k \in 1 .. Len(ms) : ms[k].children \in Int

\* It is a number.
LEMMA TotalInt ==
    ASSUME NEW ms, Numbers(ms)
    PROVE  Total(ms) \in Int
<1>1. PICK G : Adds(ms, G)
  BY TotalSums DEF Adds, Numbers
<1> QED
  BY <1>1 DEF Adds, Sums

\* The entries A of ms are those B of ns, in whatever order.
Agree(f, A, ms, B, ns) ==
    /\ A \subseteq 1 .. Len(ms) /\ B \subseteq 1 .. Len(ns)
    /\ Renames(f, A, B) /\ \A x \in A : ns[f[x]].children = ms[x].children

\* Two totals whose entries but some are the same, in whatever order.
LEMMA TotalsAlike ==
    ASSUME NEW ms, NEW ns, NEW G, NEW H, Adds(ms, G), Adds(ns, H), Len(ms) \in Nat,
           NEW A, NEW B, NEW f, Agree(f, A, ms, B, ns)
    PROVE  H[B] = G[A]
<1> USE DEF Agree
<1>0. PICK D, E, c, d :
        /\ D = 1 .. Len(ms) /\ c = [k \in D |-> ms[k].children]
        /\ E = 1 .. Len(ns) /\ d = [k \in E |-> ns[k].children]
  OBVIOUS
<1>1. IsFiniteSet(A)
  <2>1. 1 \in Int /\ Len(ms) \in Int
    OBVIOUS
  <2> QED  BY <2>1, FS_Interval, FS_Subset
<1>2. Sums(D, c, G) /\ Sums(E, d, H)
  BY <1>0 DEF Adds
<1>3. A \in SUBSET D /\ B \in SUBSET E
  BY <1>0
<1>4. \A x \in A : d[f[x]] = c[x]
  BY <1>0, <1>3 DEF Renames
<1>5. Matches(f, A, c, D, B, d, E)
  BY <1>1, <1>3, <1>4 DEF Matches
<1> QED
  BY <1>2, <1>5, SumsAlike

\* A has the entry x of ms besides those of B.
Besides(ms, A, x, B) == A \subseteq 1 .. Len(ms) /\ x \in A /\ B = A \ {x}

\* One entry is taken out of a sum.
LEMMA AddsBut ==
    ASSUME NEW ms, NEW G, Adds(ms, G), Numbers(ms), NEW A, NEW x, NEW B, Besides(ms, A, x, B)
    PROVE  /\ G[A] = G[B] + ms[x].children
           /\ G[A] \in Int /\ G[B] \in Int /\ ms[x].children \in Int
  BY DEF Adds, Sums, Numbers, Besides

\* replace_element: one count is another.
LEMMA TotalReplace ==
    ASSUME NEW ms, NEW ns, Numbers(ms), Numbers(ns), NEW x \in 1 .. Len(ms),
           Len(ns) = Len(ms),
           \A k \in 1 .. Len(ms) : k # x => ns[k].children = ms[k].children
    PROVE  Total(ns) = Total(ms) - ms[x].children + ns[x].children
<1>0. PICK D, A, f : D = 1 .. Len(ms) /\ A = D \ {x} /\ f = [k \in A |-> k]
  OBVIOUS
<1>1. PICK G, H : Adds(ms, G) /\ Adds(ns, H)
  BY TotalSums DEF Adds, Numbers
<1>2. /\ Len(ms) \in Nat /\ x \in D
      /\ D \in SUBSET (1 .. Len(ms)) /\ D \in SUBSET (1 .. Len(ns))
      /\ A \in SUBSET (1 .. Len(ms)) /\ A \in SUBSET (1 .. Len(ns))
  BY <1>0 DEF Numbers
<1>3. Agree(f, A, ms, A, ns)
  BY <1>0, <1>2 DEF Renames, Agree
<1>4. H[A] = G[A]
  BY <1>1, <1>2, <1>3, TotalsAlike
<1>5. Besides(ms, D, x, A) /\ Besides(ns, D, x, A)
  BY <1>0, <1>2 DEF Besides
<1>6. /\ G[D] = G[A] + ms[x].children /\ G[A] \in Int /\ ms[x].children \in Int
      /\ H[D] = H[A] + ns[x].children /\ ns[x].children \in Int
  BY <1>1, <1>5, AddsBut
<1>7. Total(ms) = G[D] /\ Total(ns) = H[D]
  BY <1>0, <1>1 DEF Adds
<1> QED
  BY ONLY <1>4, <1>6, <1>7

\* erase: one count goes, and the ones after it move down.
LEMMA TotalErase ==
    ASSUME NEW ms, NEW ns, Numbers(ms), Numbers(ns), NEW x \in 1 .. Len(ms),
           Len(ns) = Len(ms) - 1,
           \A k \in 1 .. Len(ns) :
               ns[k].children = IF k < x THEN ms[k].children ELSE ms[k + 1].children
    PROVE  Total(ns) = Total(ms) - ms[x].children
<1>0. PICK D, E, A, f :
        /\ D = 1 .. Len(ms) /\ E = 1 .. Len(ns) /\ A = D \ {x}
        /\ f = [k \in A |-> IF k < x THEN k ELSE k - 1]
  OBVIOUS
<1> USE <1>0
<1>1. PICK G, H : Adds(ms, G) /\ Adds(ns, H)
  BY TotalSums DEF Adds, Numbers
<1>2. Len(ms) \in Nat /\ Len(ns) \in Nat /\ D \in SUBSET (1 .. Len(ms)) /\ x \in D
      /\ A \in SUBSET (1 .. Len(ms)) /\ E \in SUBSET (1 .. Len(ns))
  BY DEF Numbers
<1>3. (\A k \in A : f[k] \in E) /\ DOMAIN f = A
      /\ (\A j, k \in A : f[j] = f[k] => j = k)
  BY <1>2
<1>4. \A k \in A : ns[f[k]].children = ms[k].children
  <2> SUFFICES ASSUME NEW k \in A PROVE ns[f[k]].children = ms[k].children
    OBVIOUS
  <2>1. CASE k < x
    <3>1. f[k] = k /\ k \in 1 .. Len(ns)
      BY <1>2, <2>1
    <3> QED  BY <2>1, <3>1
  <2>2. CASE k > x
    <3>1. f[k] = k - 1 /\ k - 1 \in 1 .. Len(ns) /\ ~(k - 1 < x) /\ (k - 1) + 1 = k
      BY <1>2, <2>2
    <3> QED  BY <3>1
  <2> QED  BY <1>2, <2>1, <2>2
<1>5. Renames(f, A, E)
  <2>2. ASSUME NEW j \in E PROVE \E k \in A : f[k] = j
    <3>1. CASE j < x
      <4>1. j \in A /\ f[j] = j
        BY <1>2, <3>1
      <4> QED  BY <4>1
    <3>2. CASE ~(j < x)
      <4>1. j + 1 \in A /\ f[j + 1] = j
        BY <1>2, <3>2
      <4> QED  BY <4>1
    <3> QED  BY <3>1, <3>2
  <2> QED  BY ONLY <1>3, <2>2 DEF Renames
<1>6. H[E] = G[A]
  <2>1. Agree(f, A, ms, E, ns)
    BY ONLY <1>2, <1>4, <1>5 DEF Agree
  <2> QED  BY ONLY <1>1, <1>2, <2>1, TotalsAlike
<1>7. G[D] = G[A] + ms[x].children /\ G[A] \in Int /\ ms[x].children \in Int
  <2>1. Besides(ms, D, x, A)
    BY <1>2 DEF Besides
  <2> QED  BY <1>1, <2>1, AddsBut
<1>8. Total(ms) = G[D] /\ Total(ns) = H[E]
  BY <1>1 DEF Adds
<1> QED
  BY ONLY <1>6, <1>7, <1>8

\* insert_split: two counts take the place of one, and the ones after it move up.
LEMMA TotalSplit ==
    ASSUME NEW ms, NEW ns, Numbers(ms), Numbers(ns), NEW x \in 1 .. Len(ms),
           Len(ns) = Len(ms) + 1,
           \A k \in 1 .. Len(ns) : k # x /\ k # x + 1 =>
               ns[k].children = IF k < x THEN ms[k].children ELSE ms[k - 1].children
    PROVE  Total(ns) = Total(ms) - ms[x].children + ns[x].children + ns[x + 1].children
<1>0. PICK D, E, A, B, C, f :
        /\ D = 1 .. Len(ms) /\ E = 1 .. Len(ns) /\ A = D \ {x} /\ B = E \ {x}
        /\ C = B \ {x + 1} /\ f = [k \in A |-> IF k < x THEN k ELSE k + 1]
  OBVIOUS
<1> USE <1>0
<1>1. PICK G, H : Adds(ms, G) /\ Adds(ns, H)
  BY TotalSums DEF Adds, Numbers
<1>2. Len(ms) \in Nat /\ Len(ns) \in Nat /\ D \in SUBSET (1 .. Len(ms)) /\ x \in D
      /\ E \in SUBSET (1 .. Len(ns)) /\ x \in E /\ x + 1 \in B /\ B \in SUBSET (1 .. Len(ns))
      /\ A \in SUBSET (1 .. Len(ms)) /\ C \in SUBSET (1 .. Len(ns))
  BY DEF Numbers
<1>3. (\A k \in A : f[k] \in C) /\ DOMAIN f = A
      /\ (\A j, k \in A : f[j] = f[k] => j = k)
  BY <1>2
<1>4. \A k \in A : ns[f[k]].children = ms[k].children
  <2> SUFFICES ASSUME NEW k \in A PROVE ns[f[k]].children = ms[k].children
    OBVIOUS
  <2>1. CASE k < x
    <3>1. f[k] = k /\ k \in 1 .. Len(ns) /\ k # x /\ k # x + 1
      BY <1>2, <2>1
    <3> QED  BY <2>1, <3>1
  <2>2. CASE k > x
    <3>1. f[k] = k + 1 /\ k + 1 \in 1 .. Len(ns) /\ ~(k + 1 < x) /\ (k + 1) - 1 = k
          /\ k + 1 # x /\ k + 1 # x + 1
      BY <1>2, <2>2
    <3> QED  BY <3>1
  <2> QED  BY <1>2, <2>1, <2>2
<1>5. Renames(f, A, C)
  <2>2. ASSUME NEW j \in C PROVE \E k \in A : f[k] = j
    <3>1. CASE j < x
      <4>1. j \in A /\ f[j] = j
        BY <1>2, <3>1
      <4> QED  BY <4>1
    <3>2. CASE ~(j < x)
      <4>1. j - 1 \in A /\ f[j - 1] = j
        BY <1>2, <3>2
      <4> QED  BY <4>1
    <3> QED  BY <3>1, <3>2
  <2> QED  BY ONLY <1>3, <2>2 DEF Renames
<1>6. H[C] = G[A]
  <2>1. Agree(f, A, ms, C, ns)
    BY ONLY <1>2, <1>4, <1>5 DEF Agree
  <2> QED  BY ONLY <1>1, <1>2, <2>1, TotalsAlike
<1>7. Besides(ms, D, x, A) /\ Besides(ns, E, x, B) /\ Besides(ns, B, x + 1, C)
  BY <1>2 DEF Besides
<1>8. /\ G[D] = G[A] + ms[x].children /\ G[A] \in Int /\ ms[x].children \in Int
      /\ H[E] = H[B] + ns[x].children /\ H[B] \in Int /\ ns[x].children \in Int
  BY <1>1, <1>7, AddsBut
<1>9. H[B] = H[C] + ns[x + 1].children /\ ns[x + 1].children \in Int
  BY <1>1, <1>7, AddsBut
<1>10. Total(ms) = G[D] /\ Total(ns) = H[E]
  BY <1>1 DEF Adds
<1> QED
  BY ONLY <1>6, <1>8, <1>9, <1>10

-----------------------------------------------------------------------------
(* A tree with mixins is a tree *)

\* What is erased is a value.
LEMMA ErasesValue ==
    ASSUME TypeOK, NEW t \in Transients, NEW i, LeafErase(t, i) \/ LeafEraseOnly(t, i)
    PROVE  \E v \in Values : TRUE
<1>1. AtLeaf(t, {"erase", "pop_back"}) /\ (Len(items[at[t]]) > 1 \/ Len(items[at[t]]) = 1)
  BY DEF LeafErase, LeafEraseOnly
<1>2. items[at[t]] \in Seq(Values) /\ Len(items[at[t]]) \in Nat
  BY <1>1, LeafItems
<1>3. 1 \in 1 .. Len(items[at[t]])
  BY ONLY <1>1, <1>2
<1> QED
  BY <1>2, <1>3, ElementOfSeq

\* Every step of a tree with mixins is one of CowTree.
LEMMA MixinStep == TypeOK /\ [MNext]_<<vars, mixinVars>> => [Next]_vars
<1>1. ASSUME TypeOK, MNext PROVE Next
  <2>1. PICK t \in Transients :
           \/ \E i \in 0 .. LeafSize :
                 \/ \E v \in Values : MLeafInsert(t, i, v) \/ MLeafAssign(t, i, v)
                 \/ MLeafErase(t, i)
           \/ MAscend(t)
           \/ MAtObject(t)
           \/ (\E name \in Operations : Begin(t, name)) \/ MakeCall(t)
           \/ \E i \in 0 .. InternalSize - 1 : Descend(t, i)
           \/ LeafKeep(t) \/ Return(t) \/ MakePersistent(t) \/ DecRef(t)
    BY <1>1 DEF MNext
  <2>2. ASSUME NEW i \in 0 .. LeafSize, NEW v \in Values,
               MLeafInsert(t, i, v) \/ MLeafAssign(t, i, v)
        PROVE  Step(t)
    BY <2>2 DEF MLeafInsert, MLeafAssign, LeafStep, Step
  <2>3. ASSUME NEW i \in 0 .. LeafSize, MLeafErase(t, i) PROVE Step(t)
    <3>1. LeafErase(t, i) \/ LeafEraseOnly(t, i)
      BY <2>3 DEF MLeafErase
    <3>2. \E v \in Values : LeafStep(t, i, v)
      BY <1>1, <3>1, ErasesValue DEF LeafStep
    <3> QED  BY <3>2 DEF Step
  <2>4. MAscend(t) \/ MAtObject(t) \/ LeafKeep(t) \/ Return(t) => Step(t)
    BY DEF MAscend, MAtObject, Ascend, Step
  <2>5. (\E i \in 0 .. InternalSize - 1 : Descend(t, i)) \/ MakePersistent(t) \/ DecRef(t)
           => Step(t)
    BY DEF Step
  <2> QED  BY <2>1, <2>2, <2>3, <2>4, <2>5 DEF Next
<1>2. UNCHANGED <<vars, mixinVars>> => UNCHANGED vars
  OBVIOUS
<1> QED
  BY <1>1, <1>2

\* So all that is proved of CowTree holds of it.
THEOREM MixinsImplementTree == MSpec => Spec
<1>1. MInit => Init
  BY DEF MInit
<1>2. Init => TypeOK
  BY InitType
<1>3. TypeOK /\ [Next]_vars => TypeOK'
  BY NextType
<1> QED
  BY <1>1, <1>2, <1>3, MixinStep, PTL DEF MSpec, Spec

-----------------------------------------------------------------------------
(* What the mixins keep of a node that may be shared *)

\* Every node has its arrays, and every thread what it tells.
MetaOK ==
    /\ meta = [n \in NodeId |-> meta[n]]
    /\ delta = [t \in Transients |-> delta[t]]
    /\ rightInfo = [t \in Transients |-> rightInfo[t]]

\* A step that changes the arrays at some nodes and what thread t tells.
MetaStep(t) ==
    /\ \E new : delta' = [delta EXCEPT ![t] = new]
    /\ \/ UNCHANGED rightInfo
       \/ \E new : rightInfo' = [rightInfo EXCEPT ![t] = new]
    /\ \/ UNCHANGED meta
       \/ \E n, ms : meta' = [meta EXCEPT ![n] = ms]
       \/ \E n, ms, r, rs : meta' = [meta EXCEPT ![n] = ms, ![r] = rs]

\* Every step is one, of one thread.
LEMMA MetaSteps ==
    ASSUME MetaOK, MNext
    PROVE  \E t \in Transients : MetaStep(t)
<1>1. PICK t \in Transients :
        \/ \E i \in 0 .. LeafSize :
              \/ \E v \in Values : MLeafInsert(t, i, v) \/ MLeafAssign(t, i, v)
              \/ MLeafErase(t, i)
        \/ MAscend(t)
        \/ MAtObject(t)
        \/ UNCHANGED mixinVars
  BY DEF MNext
<1>2. delta = [delta EXCEPT ![t] = delta[t]]
  BY DEF MetaOK
<1>3. ASSUME NEW i, NEW v, MLeafInsert(t, i, v) \/ MLeafAssign(t, i, v) \/ MLeafErase(t, i)
      PROVE  MetaStep(t)
  <2>1. CASE MLeafInsert(t, i, v)
    BY <2>1 DEF MLeafInsert, TellsHalves, Tells, MetaStep
  <2>2. CASE MLeafAssign(t, i, v)
    BY <2>2 DEF MLeafAssign, Tells, MetaStep
  <2>3. CASE MLeafErase(t, i)
    BY <1>2, <2>3 DEF MLeafErase, Tells, MetaStep, mixinVars
  <2> QED  BY <1>3, <2>1, <2>2, <2>3
<1>4. CASE MAscend(t)
  <2>1. CASE \E n, ms, d : Keeps(t, n, ms, d)
    BY <2>1 DEF Keeps, Tells, MetaStep
  <2>2. CASE \E n, ms, r, rs :
               meta' = [meta EXCEPT ![n] = ms, ![r] = rs] /\ \E m : TellsHalves(t, m)
    <3>1. /\ \E new : delta' = [delta EXCEPT ![t] = new]
          /\ \E new : rightInfo' = [rightInfo EXCEPT ![t] = new]
      BY <2>2 DEF TellsHalves, Tells
    <3>2. \E n, ms, r, rs : meta' = [meta EXCEPT ![n] = ms, ![r] = rs]
      BY <2>2
    <3> QED  BY <3>1, <3>2 DEF MetaStep
  <2>3. CASE UNCHANGED mixinVars
    BY <1>2, <2>3 DEF mixinVars, MetaStep
  <2> QED  BY <1>4, <2>1, <2>2, <2>3 DEF MAscend
<1>5. CASE MAtObject(t)
  BY <1>2, <1>5 DEF MAtObject, Tells, MetaStep, mixinVars
<1>6. CASE UNCHANGED mixinVars
  BY <1>2, <1>6 DEF mixinVars, MetaStep
<1> QED
  BY <1>1, <1>3, <1>4, <1>5, <1>6

\* The arrays stay arrays.
LEMMA MetaType == MSpec => []MetaOK
<1>1. MInit => MetaOK
  BY DEF MInit, MetaOK
<1>2. MetaOK /\ [MNext]_<<vars, mixinVars>> => MetaOK'
  <2> SUFFICES ASSUME MetaOK, [MNext]_<<vars, mixinVars>> PROVE MetaOK'
    OBVIOUS
  <2>1. CASE MNext
    <3>1. PICK t \in Transients : MetaStep(t)
      BY <2>1, MetaSteps
    <3> QED  BY <3>1 DEF MetaOK, MetaStep
  <2>2. CASE UNCHANGED mixinVars
    BY <2>2 DEF MetaOK, mixinVars
  <2> QED  BY <2>1, <2>2
<1> QED
  BY <1>1, <1>2, PTL DEF MSpec

\* The new version of node n is where its items were written to.
LEMMA NewVersionIs ==
    ASSUME TypeOK, NEW t \in Transients, NEW n, NEW dst \in NodeId, NEW taken,
           Rewrites(n, dst, taken), ptr' = [ptr EXCEPT ![t] = Changed(n, dst)]
    PROVE  NewVersion(t, n) = dst
<1>1. ptr'[t] = Changed(n, dst)
  BY DEF TypeOK, ResultOK
<1>2. dst # Nil
  BY NodePointer
<1> QED
  BY <1>1, <1>2 DEF NewVersion, Changed, Rewrites

\* It is not a node that may be shared.
LEMMA RewriteSpares ==
    ASSUME NEW n, NEW dst \in NodeId, NEW taken, Rewrites(n, dst, taken)
    PROVE  dst \in FreeNodes \/ ~persistent[dst]
  BY DEF Rewrites, Allocates

\* Frozen, for the arrays.
MetaSpared ==
    \A n \in NodeId :
        refs[n] > 0 /\ ~Dying(n) /\ persistent[n] /\ refs'[n] > 0 => meta'[n] = meta[n]

\* A continuation writes only to arrays of nodes that cannot be shared.
LEMMA AscendSpares ==
    ASSUME TypeOK, MetaOK, NEW t \in Transients, MAscend(t)
    PROVE  MetaSpared
<1> DEFINE n == Frame(t).node
           Spare(m) == m \in FreeNodes \/ ~persistent[m]
<1>0. ASSUME NEW m \in NodeId, Spare(m) PROVE ~(refs[m] > 0 /\ persistent[m])
  BY <1>0 DEF FreeNodes
<1>1. ASSUME NEW ms, NEW d, Keeps(t, n, ms, d),
             InternalReplace(t) \/ InternalInsert(t) \/ InternalErase(t)
      PROVE  MetaSpared
  <2>1. PICK dst \in NodeId :
            Rewrites(n, dst, {}) /\ \E c : CallReplace(t, Changed(n, dst), c)
    BY <1>1 DEF InternalReplace, InternalInsert, InternalErase
  <2>2. NewVersion(t, n) = dst /\ Spare(dst)
    BY <2>1, NewVersionIs, RewriteSpares DEF CallReplace
  <2>3. \A m \in NodeId \ {dst} : meta'[m] = meta[m]
    BY <1>1, <2>2 DEF Keeps, MetaOK
  <2> QED  BY <1>0, <2>2, <2>3 DEF MetaSpared
<1>2. CASE InternalSplit(t) /\ \E ms, rs : meta' = [meta EXCEPT ![NewVersion(t, n)] = ms,
                                                               ![right'[t]] = rs]
  <2>1. PICK r \in NodeId, dst \in NodeId :
            /\ Allocates(r, {}) /\ Rewrites(n, dst, {r})
            /\ \E inLeft : CallSplit(t, Changed(n, dst), r, inLeft)
    BY <1>2 DEF InternalSplit
  <2>2. NewVersion(t, n) = dst /\ Spare(dst)
    BY <2>1, NewVersionIs, RewriteSpares DEF CallSplit
  <2>3. right'[t] = r /\ Spare(r)
    BY <2>1 DEF CallSplit, Allocates, TypeOK, ResultOK
  <2>4. \A m \in NodeId \ {dst, r} : meta'[m] = meta[m]
    BY <1>2, <2>2, <2>3 DEF MetaOK
  <2> QED  BY <1>0, <2>2, <2>3, <2>4 DEF MetaSpared
<1>3. CASE UNCHANGED meta
  BY <1>3 DEF MetaSpared
<1> QED
  BY <1>1, <1>2, <1>3 DEF MAscend, mixinVars

\* So does every step.
LEMMA MetaNextSpares == TypeOK /\ MetaOK /\ MNext => MetaSpared
<1> SUFFICES ASSUME TypeOK, MetaOK, MNext PROVE MetaSpared
  OBVIOUS
<1>1. PICK t \in Transients : MAscend(t) \/ MAtObject(t) \/ UNCHANGED meta
  BY DEF MNext, MLeafInsert, MLeafAssign, MLeafErase, mixinVars
<1>2. CASE MAtObject(t)
  <2>1. CASE RootSplit(t) /\ \E ms : meta' = [meta EXCEPT ![root'[t]] = ms]
    <3>1. PICK r \in NodeId : Allocates(r, {}) /\ root' = [root EXCEPT ![t] = r]
      BY <2>1 DEF RootSplit
    <3>2. root'[t] = r /\ refs[r] = 0
      BY <3>1 DEF TypeOK, TreesOK, Handle, Allocates, FreeNodes
    <3> QED  BY <2>1, <3>2 DEF MetaOK, MetaSpared
  <2>2. CASE UNCHANGED meta
    BY <2>2 DEF MetaSpared
  <2> QED  BY <1>2, <2>1, <2>2 DEF MAtObject, mixinVars
<1>3. CASE UNCHANGED meta
  BY <1>3 DEF MetaSpared
<1> QED
  BY <1>1, <1>2, <1>3, AscendSpares

\* What a node knows of its children does not change from when it is marked
\* persistent until it is deleted: a Persistent answers as it did when it was made.
THEOREM AnswersFrozen == MSpec => MetaFrozen
<1>1. TypeOK /\ MetaOK /\ [MNext]_<<vars, mixinVars>> => [MetaSpared]_<<vars, mixinVars>>
  BY MetaNextSpares
<1>2. MSpec => [][MetaSpared]_<<vars, mixinVars>>
  BY <1>1, MixinsImplementTree, TypeCorrect, MetaType, PTL DEF MSpec
<1> QED
  BY <1>2, PTL DEF MetaFrozen, MetaSpared

-----------------------------------------------------------------------------
(* The counts *)

\* The number of elements below a node, from its own array.
Count(n) == IF depth[n] = 1 THEN Len(items[n]) ELSE Total(meta[n])

\* Slot k of node n has the count of the child there.
Known(n, k) == meta[n][k].children = Count(items[n][k])

\* Thread t is about to call the continuation that brings slot k of n up to date.
Due(t, n, k) ==
    /\ pc[t] \in {"replace", "split"} /\ stack[t] # <<>>
    /\ Frame(t).node = n /\ Frame(t).index = k - 1

\* The entries of an array of metadata are those of a sequence, and number.
Entries(ms) == (\E S : ms \in Seq(S)) /\ Numbers(ms)

Arrayed(n) == Entries(meta[n]) /\ Len(meta[n]) = Len(items[n])

\* Every slot has the right count, or belongs to a call that will set it right.
Arrays ==
    \A n \in NodeId : refs[n] > 0 /\ depth[n] > 1 =>
        /\ Arrayed(n)
        /\ \A k \in 1 .. Len(items[n]) :
             Known(n, k) \/ (~persistent[n] /\ \E t \in Transients : Due(t, n, k))

\* The node that the results of thread t tell of.
Tip(t) == IF ptr[t] # Nil THEN ptr[t]
          ELSE IF stack[t] = <<>> THEN root[t] ELSE FrameItem(t)

\* What thread t is told is right: it makes up for what its frame does not know,
\* or says how many there are in both halves.
Truthful(t) ==
    /\ delta[t].children \in Int /\ rightInfo[t].children \in Int
    /\ pc[t] = "replace" /\ stack[t] # <<>> =>
         meta[Frame(t).node][Frame(t).index + 1].children + delta[t].children = Count(Tip(t))
    /\ pc[t] = "split" =>
         delta[t].children = Count(Tip(t)) /\ rightInfo[t].children = Count(right[t])

CountInv == Arrays /\ \A t \in Transients : Truthful(t)

-----------------------------------------------------------------------------
(* What a step leaves as it is *)

\* A step of t writes to the nodes W: what is its own, or no one's.
Changes(owner, t, W) ==
    /\ W \subseteq NodeId
    /\ \A n \in NodeId \ W :
         items'[n] = items[n] /\ depth'[n] = depth[n] /\ meta'[n] = meta[n]
    /\ \A n \in W : owner[n] = t \/ Loose(n)
    /\ \A n \in NodeId \ W : refs'[n] > 0 => refs[n] > 0
    /\ \A n \in NodeId \ W : persistent'[n] => persistent[n] \/ owner[n] = t

\* The slots above what it writes, and those it was to set right, are right or due.
Settles(t, W) ==
    \A n \in NodeId \ W : refs[n] > 0 /\ depth[n] > 1 =>
        \A k \in 1 .. Len(items[n]) :
            (Due(t, n, k) /\ ~persistent[n]) \/ items[n][k] \in W =>
               Known(n, k)' \/ (Due(t, n, k)' /\ ~persistent'[n])

\* The arrays it writes are right.
Fills(W) ==
    \A n \in W : refs'[n] > 0 /\ depth'[n] > 1 =>
        Arrayed(n)' /\ \A k \in 1 .. Len(items'[n]) : Known(n, k)'

\* What the others were told is theirs.
Listens(t) ==
    \A u \in Transients \ {t} : delta'[u] = delta[u] /\ rightInfo'[u] = rightInfo[u]

\* The count of a node that is not written stays.
LEMMA CountKept ==
    ASSUME NEW owner, NEW t, NEW W, Changes(owner, t, W), NEW n \in NodeId \ W
    PROVE  Count(n)' = Count(n)
  BY DEF Changes, Count

\* The nodes thread u walks on, and what it holds, are not written by another.
LEMMA OthersSpared ==
    ASSUME NEW owner, MemInv(owner), NEW t \in Transients, NEW W, Changes(owner, t, W),
           NEW u \in Transients \ {t}
    PROVE  /\ \A n \in NodeId : n = root[u] \/ n = ptr[u] \/ n = right[u] => n \notin W
           /\ stack[u] # <<>> =>
                /\ Frame(u).node \in NodeId \ W /\ FrameItem(u) \in NodeId \ W
                /\ Sees(owner, u, Frame(u).node)
<1>1. Memory /\ Path(u) /\ Held(owner, u) /\ Owned(owner)
  BY DEF MemInv, Threads, Owned
<1>2. ASSUME NEW n \in NodeId, Sees(owner, u, n), n \in W PROVE Loose(n)
  <2>1. owner[n] # t
    BY <1>2, NoOneIsNoThread DEF Sees
  <2> QED  BY <1>2, <2>1 DEF Changes
<1>3. ASSUME NEW n \in NodeId, n = root[u] \/ n = ptr[u] \/ n = right[u] PROVE n \notin W
  <2>1. Sees(owner, u, n)
    BY <1>1, <1>3 DEF Held
  <2>2. ~Loose(n)
    BY <1>3 DEF Loose, Placed, Handle
  <2> QED  BY <1>2, <2>1, <2>2
<1>4. ASSUME stack[u] # <<>>
      PROVE  /\ Frame(u).node \in NodeId \ W /\ FrameItem(u) \in NodeId \ W
             /\ Sees(owner, u, Frame(u).node)
  <2>1. PICK k \in 1 .. Len(stack[u]) : Frame(u) = stack[u][k]
    BY <1>1, <1>4, PathPlaced
  <2>2. /\ Frame(u).node \in NodeId /\ Placed(Frame(u).node) /\ Sees(owner, u, Frame(u).node)
    BY <1>1, <2>1, PathPlaced DEF Held
  <2>3. FrameItem(u) \in Children(Frame(u).node) /\ FrameItem(u) \in NodeId
        /\ Placed(FrameItem(u))
    BY <1>1, <1>4, PathPlaced
  <2>4. Sees(owner, u, FrameItem(u))
    BY <1>1, <2>2, <2>3 DEF Owned, Sees
  <2> QED  BY <1>2, <2>2, <2>3, <2>4 DEF Loose
<1> QED
  BY <1>3, <1>4

\* What thread u was told stays right if what it tells of is not written.
LEMMA TruthSame ==
    ASSUME NEW owner, NEW t, NEW W, Changes(owner, t, W), Memory, NEW u \in Transients, Truthful(u),
           UNCHANGED <<pc[u], stack[u], root[u], ptr[u], right[u], delta[u], rightInfo[u]>>,
           \A n \in NodeId : n = root[u] \/ n = ptr[u] \/ n = right[u] => n \notin W,
           stack[u] # <<>> => Frame(u).node \in NodeId \ W /\ FrameItem(u) \in NodeId \ W
    PROVE  Truthful(u)'
<1>1. /\ root[u] \in Pointer /\ ptr[u] \in Pointer /\ right[u] \in Pointer
      /\ (pc[u] \in {"replace", "split"} => root[u] # Nil) /\ (pc[u] = "split" => right[u] # Nil)
  BY DEF Memory, TypeOK, TreesOK, ResultOK, PhaseOK, Handle
<1>2. Frame(u)' = Frame(u)
  BY DEF Frame
<1>3. stack[u] # <<>> =>
        FrameItem(u)' = FrameItem(u) /\ meta'[Frame(u).node] = meta[Frame(u).node]
  BY <1>2 DEF FrameItem, Changes
<1>4. Tip(u)' = Tip(u)
  BY <1>3 DEF Tip
<1>5. pc[u] \in {"replace", "split"} => Tip(u) \in NodeId \ W
  BY <1>1 DEF Tip, Pointer
<1>6. pc[u] \in {"replace", "split"} => Count(Tip(u))' = Count(Tip(u))
  <2> SUFFICES ASSUME pc[u] \in {"replace", "split"} PROVE Count(Tip(u))' = Count(Tip(u))
    OBVIOUS
  <2>1. PICK n \in NodeId \ W : n = Tip(u)
    BY <1>5
  <2>2. Count(n)' = Count(n)
    BY CountKept
  <2>3. Count(Tip(u))' = Count(n)'
    BY <1>4, <2>1 DEF Count
  <2> QED  BY <2>1, <2>2, <2>3
<1>7. pc[u] = "split" => Count(right[u])' = Count(right[u])
  <2> SUFFICES ASSUME pc[u] = "split" PROVE Count(right[u])' = Count(right[u])
    OBVIOUS
  <2>1. PICK n \in NodeId \ W : n = right[u]
    BY <1>1 DEF Pointer
  <2>2. Count(n)' = Count(n)
    BY CountKept
  <2>3. Count(right[u])' = Count(n)'
    BY <2>1 DEF Count
  <2> QED  BY <2>1, <2>2, <2>3
<1> QED
  BY <1>2, <1>3, <1>6, <1>7 DEF Truthful

\* What the others were told stays right.
LEMMA TruthKept ==
    ASSUME NEW owner, MemInv(owner), CountInv, NEW t \in Transients,
           NEW W, Changes(owner, t, W), Waits(t), Listens(t), NEW u \in Transients \ {t}
    PROVE  Truthful(u)'
<1>1. Memory /\ Truthful(u)
  BY DEF MemInv, CountInv
<1>2. UNCHANGED <<pc[u], stack[u], root[u], ptr[u], right[u], delta[u], rightInfo[u]>>
  BY DEF Waits, Listens
<1>3. \A n \in NodeId : n = root[u] \/ n = ptr[u] \/ n = right[u] => n \notin W
  BY OthersSpared
<1>4. stack[u] # <<>> => Frame(u).node \in NodeId \ W /\ FrameItem(u) \in NodeId \ W
  BY OthersSpared
<1> QED
  BY <1>1, <1>2, <1>3, <1>4, TruthSame

\* A step that writes to nodes W, once its thread is done.
LEMMA CountStep ==
    ASSUME NEW owner, MemInv(owner), CountInv, NEW t \in Transients, NEW W,
           Changes(owner, t, W), Settles(t, W), Fills(W), Waits(t), Listens(t), Truthful(t)'
    PROVE  CountInv'
<1>1. \A u \in Transients : Truthful(u)'
  BY TruthKept
<1>2. ASSUME NEW n \in NodeId, n \notin W, refs'[n] > 0, depth'[n] > 1
      PROVE  /\ Arrayed(n)'
             /\ \A k \in 1 .. Len(items'[n]) :
                  Known(n, k)' \/ (~persistent'[n] /\ \E u \in Transients : Due(u, n, k)')
  <2>1. /\ items'[n] = items[n] /\ meta'[n] = meta[n] /\ depth[n] > 1 /\ refs[n] > 0
        /\ (persistent'[n] => persistent[n] \/ owner[n] = t)
    BY <1>2 DEF Changes
  <2>2. Arrayed(n) /\ \A k \in 1 .. Len(items[n]) :
          Known(n, k) \/ (~persistent[n] /\ \E u \in Transients : Due(u, n, k))
    BY <2>1 DEF CountInv, Arrays
  <2>3. Arrayed(n)'
    BY <2>1, <2>2 DEF Arrayed
  <2>4. ASSUME NEW k \in 1 .. Len(items[n])
        PROVE  Known(n, k)' \/ (~persistent'[n] /\ \E u \in Transients : Due(u, n, k)')
    <3>1. CASE (Due(t, n, k) /\ ~persistent[n]) \/ items[n][k] \in W
      BY <1>2, <2>1, <3>1 DEF Settles
    <3>2. CASE ~persistent[n] /\ \E u \in Transients \ {t} : Due(u, n, k)
      <4>1. PICK u \in Transients \ {t} : Due(u, n, k)
        BY <3>2
      <4>2. Sees(owner, u, n)
        BY <4>1, OthersSpared DEF Due
      <4>3. owner[n] # t
        BY <4>2, NoOneIsNoThread DEF Sees
      <4>4. Due(u, n, k)'
        BY <4>1 DEF Due, Waits, Frame
      <4> QED  BY <2>1, <3>2, <4>3, <4>4
    <3>3. CASE Known(n, k) /\ items[n][k] \notin W
      <4>1. items[n][k] \in NodeId \ W
        <5>1. items[n] \in Seq(NodeId)
          BY <2>1 DEF MemInv, Memory, TypeOK, NodesOK
        <5> QED  BY <3>3, <5>1, ElementOfSeq
      <4>2. PICK c \in NodeId \ W : c = items[n][k]
        BY <4>1
      <4>3. Count(c)' = Count(c)
        BY CountKept
      <4>4. Known(n, k)' <=> meta'[n][k].children = Count(c)'
        BY <2>1, <4>2 DEF Known, Count
      <4> QED  BY <2>1, <3>3, <4>2, <4>3, <4>4 DEF Known
    <3> QED  BY <2>2, <3>1, <3>2, <3>3
  <2> QED  BY <2>1, <2>3, <2>4
<1>3. ASSUME NEW n \in W, refs'[n] > 0, depth'[n] > 1
      PROVE  Arrayed(n)' /\ \A k \in 1 .. Len(items'[n]) : Known(n, k)'
  BY <1>3 DEF Fills
<1>4. Arrays'
  BY <1>2, <1>3 DEF Arrays
<1> QED
  BY <1>1, <1>4 DEF CountInv

-----------------------------------------------------------------------------
(* A level that is through *)

\* A slot of a node that thread t may write to is right, if t is not to set it right.
LEMMA KnownHere ==
    ASSUME NEW owner, MemInv(owner), CountInv, NEW t \in Transients,
           NEW n \in NodeId, refs[n] > 0, depth[n] > 1, Sees(owner, t, n),
           NEW k \in 1 .. Len(items[n]), ~Due(t, n, k)
    PROVE  Known(n, k)
<1> SUFFICES ASSUME ~persistent[n], NEW u \in Transients, Due(u, n, k) PROVE FALSE
  BY DEF CountInv, Arrays
<1>1. Memory /\ Path(u) /\ Held(owner, u) /\ Owned(owner)
  BY DEF MemInv, Threads, Owned
<1>2. Sees(owner, u, n)
  <2>1. PICK j \in 1 .. Len(stack[u]) : Frame(u) = stack[u][j]
    BY <1>1, PathPlaced DEF Due
  <2> QED  BY <1>1, <2>1 DEF Held, Due
<1>3. owner[n] # NoOne
  BY <1>1 DEF Owned
<1>4. u = t
  BY <1>2, <1>3 DEF Sees
<1> QED
  BY <1>4

\* The frame whose continuation is called next, of slot k of p, is above node n.
Above(owner, t, n, p, k) ==
    /\ p \in NodeId /\ refs[p] > 0 /\ depth[p] > 1 /\ depth[p] # depth[n]
    /\ Sees(owner, t, p)
    /\ k \in 1 .. Len(items[p]) /\ items[p][k] = n /\ Known(p, k)
    /\ Frame(t)'.node = p /\ Frame(t)'.index = k - 1 /\ Frame(t)'.index + 1 = k

\* It is told how many there are in node n's new version dst.
Tidings(t, n, dst) ==
    /\ delta'[t].children \in Int /\ rightInfo'[t].children \in Int
    /\ \/ pc'[t] = "replace" /\ Count(n) + delta'[t].children = Count(dst)'
       \/ /\ pc'[t] = "split" /\ delta'[t].children = Count(dst)'
          /\ rightInfo'[t].children = Count(right[t])'

\* Thread t calls the continuation above node n, which it is through with.
Stands(owner, t, n) ==
    /\ pc[t] # "persist" /\ ~Busy(t)
    /\ n \in NodeId /\ refs[n] > 0 /\ Sees(owner, t, n)
    /\ pc[t] \in {"replace", "split"} => Frame(t).node = n
    /\ stack'[t] = <<>> => root[t] = n
    /\ stack'[t] # <<>> => \E p, k : Above(owner, t, n, p, k)

\* It has written node n's new version dst, and with it the nodes R.
Climbed(t, n, dst, R, K) ==
    /\ Rewritten(n, dst, R, K)
    /\ \A m \in NodeId \ ({dst} \cup R) : meta'[m] = meta[m]
    /\ UNCHANGED <<root, op>> /\ Waits(t) /\ Listens(t) /\ ptr'[t] = Changed(n, dst)

\* What is written is the thread's own, or was no one's; a slot of n's parent is not.
LEMMA ClimbWrites ==
    ASSUME NEW owner, MemInv(owner), NEW t \in Transients, NEW n, Stands(owner, t, n),
           NEW dst, NEW R, NEW K, Climbed(t, n, dst, R, K),
           NEW W, W = {dst} \cup R
    PROVE  /\ Changes(owner, t, W)
           /\ persistent[n] => dst \in FreeNodes /\ dst # n
           /\ ~persistent[n] => dst = n /\ owner[n] = t
           /\ \A m \in W : (m = n /\ ~persistent[n]) \/ (m \in FreeNodes /\ Loose(m))
           /\ \A m \in NodeId \ W : persistent'[m] <=> persistent[m]
           /\ \A p, k : Above(owner, t, n, p, k) =>
                /\ n \in Children(p) /\ p \in NodeId \ W /\ (persistent[p] => persistent[n])
                /\ items'[p] = items[p] /\ meta'[p] = meta[p]
                /\ (persistent'[p] <=> persistent[p])
<1> USE DEF Stands, Climbed
<1>0. /\ R \subseteq FreeNodes /\ dst \in NodeId /\ Rewrites(n, dst, R)
      /\ Makes(W, depth[n]) /\ K \subseteq Children(n)
      /\ \A m \in NodeId \ W : items'[m] = items[m] /\ meta'[m] = meta[m]
      /\ refs' = IF persistent[n] THEN Counted(W, K) ELSE Counted(R, {})
  BY DEF Rewritten
<1>1. /\ persistent[n] => dst \in FreeNodes /\ dst # n
      /\ ~persistent[n] => dst = n /\ owner[n] = t
  BY <1>0, RewriteSplits
<1>2. Memory /\ W \subseteq NodeId
  BY <1>0 DEF MemInv, FreeNodes
<1>3. ASSUME NEW m \in NodeId \ W
      PROVE  /\ depth'[m] = depth[m] /\ (refs'[m] > 0 => refs[m] > 0)
             /\ (persistent'[m] <=> persistent[m])
  <2>1. m \in K => refs[m] > 0
    BY <1>0, <1>2, AliveNow DEF Placed
  <2>2. refs'[m] > 0 => refs[m] > 0
    BY <1>0, <2>1, <1>3 DEF Counted
  <2> QED  BY <1>0, <1>3, <2>2 DEF Makes
<1>4. ASSUME NEW m \in W 
      PROVE  (m = n /\ ~persistent[n] /\ owner[m] = t) \/ (m \in FreeNodes /\ Loose(m))
  <2>1. m \in FreeNodes => Loose(m)
    BY <1>2, FreeFacts DEF Loose
  <2> QED  BY <1>0, <1>1, <2>1
<1>5. Changes(owner, t, W)
  BY <1>0, <1>2, <1>3, <1>4 DEF Changes
<1>7. ASSUME NEW p, NEW k, Above(owner, t, n, p, k)
      PROVE  /\ n \in Children(p) /\ p \in NodeId \ W /\ (persistent[p] => persistent[n])
             /\ items'[p] = items[p] /\ meta'[p] = meta[p] /\ (persistent'[p] <=> persistent[p])
  <2>1. /\ p \in NodeId /\ refs[p] > 0 /\ depth[p] > 1 /\ k \in 1 .. Len(items[p])
        /\ items[p][k] = n /\ p # n
    BY <1>7 DEF Above
  <2>2. n \in Children(p)
    BY <2>1 DEF Children
  <2>3. p \notin W
    <3>1. p \notin FreeNodes
      BY <2>1 DEF FreeNodes
    <3> QED  BY <1>4, <2>1, <3>1
  <2>4. persistent[p] => persistent[n]
    BY <1>7, <2>1, <2>2, SharedChildren DEF Above
  <2> QED  BY <1>0, <1>3, <2>1, <2>2, <2>3, <2>4
<1> QED
  BY <1>1, <1>3, <1>4, <1>5, <1>7

\* What it tells is of node n's new version.
LEMMA TipAfter ==
    ASSUME NEW owner, MemInv(owner), NEW t \in Transients, NEW n, Stands(owner, t, n),
           NEW dst, NEW R, NEW K, Climbed(t, n, dst, R, K)
    PROVE  Tip(t)' = dst
<1> USE DEF Stands, Climbed
<1>0. PICK W : W = {dst} \cup R
  OBVIOUS
<1>1. /\ ~persistent[n] => dst = n
      /\ \A p, k : Above(owner, t, n, p, k) =>
           /\ n \in Children(p) /\ p \in NodeId \ W /\ (persistent[p] => persistent[n])
           /\ items'[p] = items[p]
  <2> HIDE DEF Stands, Climbed
  <2> QED  BY <1>0, ClimbWrites
<1>2. CASE persistent[n]
  <2>1. ptr'[t] = dst /\ dst # Nil
    BY <1>2, NodePointer DEF Changed, Rewritten
  <2> QED  BY <2>1 DEF Tip
<1>3. CASE ~persistent[n]
  <2>1. ptr'[t] = Nil /\ dst = n
    BY <1>1, <1>3 DEF Changed
  <2>2. CASE stack'[t] = <<>>
    BY <2>1, <2>2 DEF Tip
  <2>3. CASE stack'[t] # <<>>
    <3>1. PICK p, k : Above(owner, t, n, p, k)
      BY <2>3
    <3>2. FrameItem(t)' = n
      BY <1>1, <3>1 DEF FrameItem, Above
    <3> QED  BY <2>1, <2>3, <3>2 DEF Tip
  <2> QED  BY <2>2, <2>3
<1> QED
  BY <1>2, <1>3

\* A level of a call is through with node n, and its arrays are right.
LEMMA CountClimb ==
    ASSUME NEW owner, MemInv(owner), CountInv, NEW t \in Transients, NEW n, Stands(owner, t, n),
           NEW dst, NEW R, NEW K, Climbed(t, n, dst, R, K),
           Fills({dst} \cup R), Tidings(t, n, dst)
    PROVE  CountInv'
<1> USE DEF Stands, Climbed
<1> DEFINE W == {dst} \cup R
<1>0. PICK V : V = W
  OBVIOUS
<1>1. /\ Changes(owner, t, V)
      /\ persistent[n] => dst # n
      /\ ~persistent[n] => dst = n /\ owner[n] = t
      /\ \A m \in V : (m = n /\ ~persistent[n]) \/ (m \in FreeNodes /\ Loose(m))
      /\ \A m \in NodeId \ V : persistent'[m] <=> persistent[m]
      /\ \A p, k : Above(owner, t, n, p, k) =>
           /\ n \in Children(p) /\ p \in NodeId \ V /\ (persistent[p] => persistent[n])
           /\ meta'[p] = meta[p] /\ (persistent'[p] <=> persistent[p])
  BY <1>0, ClimbWrites
<1>2. Memory /\ V \subseteq NodeId
  BY <1>1 DEF MemInv, Changes
<1>3. Changes(owner, t, W) /\ dst \in W
  BY <1>0, <1>1
<1> HIDE DEF W
<1>6. ASSUME NEW m \in NodeId, Placed(m), m \in W PROVE m = n /\ ~persistent[n] /\ dst = n
  BY <1>0, <1>1, <1>6 DEF Loose
<1>8. Settles(t, W)
  <2> SUFFICES ASSUME NEW m \in NodeId \ W, refs[m] > 0, depth[m] > 1,
                      NEW j \in 1 .. Len(items[m]),
                      (Due(t, m, j) /\ ~persistent[m]) \/ items[m][j] \in W
               PROVE  Due(t, m, j)' /\ ~persistent'[m]
    BY DEF Settles
  <2>1. ~(Due(t, m, j) /\ ~persistent[m])
    BY <1>1, <1>3 DEF Due
  <2>2. items[m][j] \in W
    BY <2>1
  <2>3. PICK c : c = items[m][j]
    OBVIOUS
  <2>4. c \in Children(m) /\ c \in NodeId /\ Placed(c)
    <3>1. c \in Children(m)
      BY <2>3 DEF Children
    <3> QED  BY <1>0, <1>2, <2>2, <2>3, <3>1 DEF Placed
  <2>5. c = n /\ ~persistent[n] /\ dst = n
    BY <1>6, <2>2, <2>3, <2>4
  <2>6. refs[n] = 1
    BY <2>5, SoleOwner
  <2>7. \A q \in NodeId : n \in Children(q) => q = m
    BY <1>2, <2>4, <2>5, <2>6, SoleParent
  <2>8. \A h \in Handle : root[h] # n
    BY <1>2, <2>4, <2>5, <2>6, SoleParent
  <2>9. stack'[t] # <<>>
    BY <2>8 DEF Handle
  <2>10. PICK p, k : Above(owner, t, n, p, k)
    BY <2>9
  <2>11. p = m /\ ~persistent[m] /\ (persistent'[m] <=> persistent[m])
    BY <1>1, <2>5, <2>7, <2>10
  <2>12. k = j
    <3>1. Distinct(items[m])
      BY <1>2 DEF Memory, Siblings, Inner
    <3> QED  BY <2>3, <2>5, <2>10, <2>11, <3>1 DEF Above, Distinct
  <2>13. pc'[t] \in {"replace", "split"}
    BY DEF Tidings
  <2> QED  BY <2>9, <2>10, <2>11, <2>12, <2>13 DEF Due, Above
<1>9. Tip(t)' = dst
  BY TipAfter
<1>10. Truthful(t)'
  <2>1. Count(Tip(t))' = Count(dst)'
    BY <1>9 DEF Count
  <2>2. ASSUME pc'[t] = "replace", stack'[t] # <<>>
        PROVE  meta'[Frame(t)'.node][Frame(t)'.index + 1].children + delta'[t].children
                 = Count(Tip(t))'
    <3>1. PICK p, k : Above(owner, t, n, p, k)
      BY <2>2
    <3>2. Frame(t)'.node = p /\ Frame(t)'.index + 1 = k /\ meta[p][k].children = Count(n)
      BY <3>1 DEF Above, Known
    <3>3. meta'[p] = meta[p]
      BY <1>1, <3>1
    <3>4. Count(n) + delta'[t].children = Count(dst)'
      BY <2>2 DEF Tidings
    <3> QED  BY <2>1, <3>2, <3>3, <3>4
  <2> QED  BY <2>1, <2>2 DEF Tidings, Truthful
<1>11. Fills(W)
  BY DEF W
<1> QED
  BY <1>3, <1>8, <1>10, <1>11, CountStep

-----------------------------------------------------------------------------
(* The arrays of an inner node *)

\* A sequence is one of a larger set.
LEMMA SeqGrows ==
    ASSUME NEW S, NEW T, S \subseteq T, NEW s \in Seq(S)
    PROVE  s \in Seq(T)
<1>1. Len(s) \in Nat /\ s \in [1 .. Len(s) -> S]
  OBVIOUS
<1>2. s \in [1 .. Len(s) -> T]
  BY <1>1
<1> QED
  BY <1>1, <1>2

\* replace_element changes one item; an item replaced by itself is no change.
LEMMA ReplaceNothing ==
    ASSUME NEW S, NEW s \in Seq(S), NEW i \in 0 .. Len(s) - 1
    PROVE  ReplaceItem(s, i, s[i + 1]) = s
<1>1. Len(s) \in Nat /\ s \in [1 .. Len(s) -> S] /\ i + 1 \in 1 .. Len(s)
  OBVIOUS
<1> QED
  BY <1>1 DEF ReplaceItem

\* The items of a node one of whose children has split.
LEMMA SplitChildItems ==
    ASSUME NEW S, NEW s \in Seq(S), NEW i \in 0 .. Len(s) - 1, NEW l \in S, NEW r \in S
    PROVE  \A k \in 1 .. Len(s) + 1 :
             SplitChild(s, i, l, r)[k] =
               IF k = i + 1 THEN l ELSE IF k = i + 2 THEN r
               ELSE IF k < i + 1 THEN s[k] ELSE s[k - 1]
<1>1. PICK m : m = ReplaceItem(s, i, l)
  OBVIOUS
<1>2. m \in Seq(S) /\ Len(m) = Len(s) /\ Len(s) \in Nat
      /\ \A k \in 1 .. Len(s) : m[k] = IF k = i + 1 THEN l ELSE s[k]
  <2>1. ReplaceItem(s, i, l) \in Seq(S) /\ Len(ReplaceItem(s, i, l)) = Len(s)
    BY ReplaceItemProperties, SMTT(30)
  <2>2. \A k \in 1 .. Len(s) : ReplaceItem(s, i, l)[k] = IF k = i + 1 THEN l ELSE s[k]
    BY ReplaceItemProperties, SMTT(30)
  <2> QED  BY <1>1, <2>1, <2>2, LenProperties
<1>3. i + 1 \in 0 .. Len(m)
  BY <1>2
<1>4. \A k \in 1 .. Len(m) + 1 :
        InsertItem(m, i + 1, r)[k] =
          IF k <= i + 1 THEN m[k] ELSE IF k = (i + 1) + 1 THEN r ELSE m[k - 1]
  <2>1. PICK j : j = i + 1
    OBVIOUS
  <2>2. m \in Seq(S) /\ j \in 0 .. Len(m) /\ r \in S
    BY <1>2, <1>3, <2>1
  <2>3. \A k \in 1 .. Len(m) + 1 :
          InsertItem(m, j, r)[k] = IF k <= j THEN m[k] ELSE IF k = j + 1 THEN r ELSE m[k - 1]
    BY ONLY <2>2, InsertItemProperties, SMTT(30)
  <2> QED  BY <2>1, <2>3
<1>5. SplitChild(s, i, l, r) = InsertItem(m, i + 1, r)
  BY <1>1 DEF SplitChild
<1> SUFFICES ASSUME NEW k \in 1 .. Len(s) + 1
             PROVE  InsertItem(m, i + 1, r)[k] =
                      IF k = i + 1 THEN l ELSE IF k = i + 2 THEN r
                      ELSE IF k < i + 1 THEN s[k] ELSE s[k - 1]
  BY <1>5
<1>6. CASE k <= i + 1
  <2>1. k \in 1 .. Len(s) /\ k # i + 2 /\ (k = i + 1 \/ k < i + 1)
    BY <1>2, <1>6
  <2> QED  BY <1>2, <1>4, <1>6, <2>1
<1>7. CASE k = i + 2
  <2>1. ~(k <= i + 1) /\ k = (i + 1) + 1 /\ k # i + 1
    BY <1>2, <1>7
  <2> QED  BY <1>2, <1>4, <1>7, <2>1
<1>8. CASE k > i + 2
  <2>1. ~(k <= i + 1) /\ k # (i + 1) + 1 /\ k # i + 1 /\ ~(k < i + 1)
        /\ k - 1 \in 1 .. Len(s) /\ k - 1 # i + 1
    BY <1>2, <1>8
  <2> QED  BY <1>2, <1>4, <1>8, <2>1
<1> QED
  BY <1>2, <1>6, <1>7, <1>8

\* The counts q are those of the children s, which are of C; but for number x.
Tallies(C, s, q, x) ==
    /\ s \in Seq(C) /\ Entries(q) /\ Len(q) = Len(s)
    /\ \A k \in 1 .. Len(s) : k # x => q[k].children = Count(s[k])

\* An entry for a child.
Tally(C, c, e) == c \in C /\ e.children \in Int /\ e.children = Count(c)

\* The child and the count of number x are replaced.
LEMMA TallyReplace ==
    ASSUME NEW C, NEW s, NEW q, NEW i, i \in 0 .. Len(s) - 1, Tallies(C, s, q, i + 1),
           NEW c, NEW e, Tally(C, c, e)
    PROVE  /\ Tallies(C, ReplaceItem(s, i, c), ReplaceItem(q, i, e), 0)
           /\ Total(ReplaceItem(q, i, e)) = Total(q) - q[i + 1].children + e.children
<1>1. PICK S : q \in Seq(S)
  BY DEF Tallies, Entries
<1>2. PICK T : T = S \cup {e}
  OBVIOUS
<1>3. /\ q \in Seq(T) /\ e \in T /\ Len(q) = Len(s) /\ Len(s) \in Nat
      /\ i \in 0 .. Len(q) - 1 /\ s \in Seq(C) /\ Numbers(q)
  BY <1>1, <1>2, SeqGrows, LenProperties DEF Tallies, Entries
<1>4. PICK a, b : a = ReplaceItem(s, i, c) /\ b = ReplaceItem(q, i, e)
  OBVIOUS
<1>5. /\ b \in Seq(T) /\ Len(b) = Len(q)
      /\ \A k \in 1 .. Len(q) : b[k] = IF k = i + 1 THEN e ELSE q[k]
  <2>1. q \in Seq(T) /\ i \in 0 .. Len(q) - 1 /\ e \in T
    BY <1>3
  <2>2. ReplaceItem(q, i, e) \in Seq(T) /\ Len(ReplaceItem(q, i, e)) = Len(q)
    BY ONLY <2>1, ReplaceItemProperties, SMTT(30)
  <2>3. \A k \in 1 .. Len(q) : ReplaceItem(q, i, e)[k] = IF k = i + 1 THEN e ELSE q[k]
    BY ONLY <2>1, ReplaceItemProperties, SMTT(30)
  <2> QED  BY <1>4, <2>2, <2>3
<1>6. /\ a \in Seq(C) /\ Len(a) = Len(s)
      /\ \A k \in 1 .. Len(s) : a[k] = IF k = i + 1 THEN c ELSE s[k]
  <2>0. c \in C
    BY DEF Tally
  <2>1. s \in Seq(C) /\ i \in 0 .. Len(s) - 1 /\ c \in C
    BY <1>3, <2>0
  <2>2. ReplaceItem(s, i, c) \in Seq(C) /\ Len(ReplaceItem(s, i, c)) = Len(s)
    BY ONLY <2>1, ReplaceItemProperties, SMTT(30)
  <2>3. \A k \in 1 .. Len(s) : ReplaceItem(s, i, c)[k] = IF k = i + 1 THEN c ELSE s[k]
    BY ONLY <2>1, ReplaceItemProperties, SMTT(30)
  <2> QED  BY <1>4, <2>2, <2>3
<1>7. Numbers(b)
  BY <1>3, <1>5 DEF Numbers, Tally
<1>8. \A k \in 1 .. Len(a) : b[k].children = Count(a[k])
  BY <1>3, <1>5, <1>6 DEF Tallies, Tally
<1>9. Tallies(C, a, b, 0)
  BY <1>3, <1>5, <1>6, <1>7, <1>8 DEF Tallies, Entries
<1>10. Total(b) = Total(q) - q[i + 1].children + e.children
  <2>1. i + 1 \in 1 .. Len(q)
    BY <1>3
  <2>2. b[i + 1] = e
    BY <1>5, <2>1
  <2>3. \A k \in 1 .. Len(q) : k # i + 1 => b[k].children = q[k].children
    BY <1>5
  <2>4. Total(b) = Total(q) - q[i + 1].children + b[i + 1].children
    BY <1>3, <1>5, <1>7, <2>1, <2>3, TotalReplace
  <2> QED  BY <2>2, <2>4
<1> QED
  BY <1>4, <1>9, <1>10

\* Two children and their counts take the place of one.
LEMMA TallySplit ==
    ASSUME NEW C, NEW s, NEW q, NEW i, i \in 0 .. Len(s) - 1, Tallies(C, s, q, i + 1),
           NEW l, NEW e, Tally(C, l, e), NEW r, NEW f, Tally(C, r, f)
    PROVE  /\ Tallies(C, SplitChild(s, i, l, r), SplitChild(q, i, e, f), 0)
           /\ Total(SplitChild(q, i, e, f))
                = Total(q) - q[i + 1].children + e.children + f.children
<1>1. PICK S : q \in Seq(S)
  BY DEF Tallies, Entries
<1>2. PICK T : T = S \cup {e, f}
  OBVIOUS
<1>3. /\ q \in Seq(T) /\ e \in T /\ f \in T /\ Len(q) = Len(s) /\ Len(s) \in Nat
      /\ i \in 0 .. Len(q) - 1 /\ s \in Seq(C) /\ Numbers(q)
  BY <1>1, <1>2, SeqGrows, LenProperties DEF Tallies, Entries
<1>4. PICK a, b : a = SplitChild(s, i, l, r) /\ b = SplitChild(q, i, e, f)
  OBVIOUS
<1>5. /\ b \in Seq(T) /\ Len(b) = Len(q) + 1
      /\ \A k \in 1 .. Len(q) + 1 :
           b[k] = IF k = i + 1 THEN e ELSE IF k = i + 2 THEN f
                  ELSE IF k < i + 1 THEN q[k] ELSE q[k - 1]
  <2>1. q \in Seq(T) /\ i \in 0 .. Len(q) - 1 /\ e \in T /\ f \in T
    BY <1>3
  <2>2. SplitChild(q, i, e, f) \in Seq(T) /\ Len(SplitChild(q, i, e, f)) = Len(q) + 1
    BY ONLY <2>1, SplitChildProperties, SMTT(30)
  <2>3. \A k \in 1 .. Len(q) + 1 :
          SplitChild(q, i, e, f)[k] =
            IF k = i + 1 THEN e ELSE IF k = i + 2 THEN f
            ELSE IF k < i + 1 THEN q[k] ELSE q[k - 1]
    BY ONLY <2>1, SplitChildItems, SMTT(30)
  <2> QED  BY <1>4, <2>2, <2>3
<1>6. /\ a \in Seq(C) /\ Len(a) = Len(s) + 1
      /\ \A k \in 1 .. Len(s) + 1 :
           a[k] = IF k = i + 1 THEN l ELSE IF k = i + 2 THEN r
                  ELSE IF k < i + 1 THEN s[k] ELSE s[k - 1]
  <2>0. l \in C /\ r \in C
    BY DEF Tally
  <2>1. s \in Seq(C) /\ i \in 0 .. Len(s) - 1 /\ l \in C /\ r \in C
    BY <1>3, <2>0
  <2>2. SplitChild(s, i, l, r) \in Seq(C) /\ Len(SplitChild(s, i, l, r)) = Len(s) + 1
    BY ONLY <2>1, SplitChildProperties, SMTT(30)
  <2>3. \A k \in 1 .. Len(s) + 1 :
          SplitChild(s, i, l, r)[k] =
            IF k = i + 1 THEN l ELSE IF k = i + 2 THEN r
            ELSE IF k < i + 1 THEN s[k] ELSE s[k - 1]
    BY ONLY <2>1, SplitChildItems, SMTT(30)
  <2> QED  BY <1>4, <2>2, <2>3
<1>7. ASSUME NEW k \in 1 .. Len(b)
      PROVE  b[k].children \in Int /\ b[k].children = Count(a[k])
  <2>1. CASE k = i + 1 \/ k = i + 2
    BY <1>3, <1>5, <1>6, <1>7, <2>1 DEF Tally
  <2>2. CASE k < i + 1
    <3>1. k \in 1 .. Len(q) /\ k # i + 1 /\ k # i + 2
      BY <1>3, <1>5, <2>2
    <3>2. b[k] = q[k] /\ a[k] = s[k]
      BY <1>3, <1>5, <1>6, <2>2, <3>1
    <3> QED  BY <1>3, <3>1, <3>2 DEF Tallies, Numbers
  <2>3. CASE k > i + 2
    <3>1. k - 1 \in 1 .. Len(q) /\ k - 1 # i + 1 /\ k # i + 1 /\ k # i + 2 /\ ~(k < i + 1)
      BY <1>3, <1>5, <2>3
    <3>2. b[k] = q[k - 1] /\ a[k] = s[k - 1]
      BY <1>3, <1>5, <1>6, <3>1
    <3> QED  BY <1>3, <3>1, <3>2 DEF Tallies, Numbers
  <2> QED  BY <1>3, <2>1, <2>2, <2>3
<1>8. Numbers(b)
  BY <1>3, <1>5, <1>7 DEF Numbers
<1>9. Tallies(C, a, b, 0)
  BY <1>3, <1>5, <1>6, <1>7, <1>8 DEF Tallies, Entries
<1>10. Total(b) = Total(q) - q[i + 1].children + e.children + f.children
  <2>1. i + 1 \in 1 .. Len(q) /\ i + 1 \in 1 .. Len(q) + 1 /\ i + 2 \in 1 .. Len(q) + 1
        /\ (i + 1) + 1 = i + 2 /\ i + 2 # i + 1
    BY <1>3
  <2>2. b[i + 1] = e /\ b[i + 2] = f
    BY <1>5, <2>1
  <2>3. \A k \in 1 .. Len(b) : k # i + 1 /\ k # (i + 1) + 1 =>
          b[k].children = IF k < i + 1 THEN q[k].children ELSE q[k - 1].children
    BY <1>5, <2>1
  <2>4. Total(b) = Total(q) - q[i + 1].children + b[i + 1].children + b[(i + 1) + 1].children
    BY <1>3, <1>5, <1>8, <2>1, <2>3, TotalSplit
  <2> QED  BY <2>1, <2>2, <2>4
<1> QED
  BY <1>4, <1>9, <1>10

\* A child goes with its count.
LEMMA TallyErase ==
    ASSUME NEW C, NEW s, NEW q, NEW i, i \in 0 .. Len(s) - 1, Tallies(C, s, q, i + 1)
    PROVE  /\ Tallies(C, EraseItem(s, i), EraseItem(q, i), 0)
           /\ Total(EraseItem(q, i)) = Total(q) - q[i + 1].children
<1>1. PICK S : q \in Seq(S)
  BY DEF Tallies, Entries
<1>3. /\ Len(q) = Len(s) /\ Len(s) \in Nat /\ i \in 0 .. Len(q) /\ i \in 0 .. Len(s)
      /\ Len(s) > 0 /\ Len(q) > 0 /\ s \in Seq(C) /\ Numbers(q)
  BY <1>1, LenProperties DEF Tallies, Entries
<1>4. PICK a, b : a = EraseItem(s, i) /\ b = EraseItem(q, i)
  OBVIOUS
<1>5. /\ b \in Seq(S) /\ Len(b) = Len(q) - 1
      /\ \A k \in 1 .. Len(q) - 1 : b[k] = IF k <= i THEN q[k] ELSE q[k + 1]
  BY ONLY <1>1, <1>3, <1>4, EraseItemProperties
<1>6. /\ a \in Seq(C) /\ Len(a) = Len(s) - 1
      /\ \A k \in 1 .. Len(s) - 1 : a[k] = IF k <= i THEN s[k] ELSE s[k + 1]
  BY ONLY <1>3, <1>4, EraseItemProperties
<1>7. ASSUME NEW k \in 1 .. Len(b)
      PROVE  b[k].children \in Int /\ b[k].children = Count(a[k])
  <2>1. CASE k <= i
    <3>1. k \in 1 .. Len(q) /\ k # i + 1
      BY <1>3, <1>5, <2>1
    <3>2. b[k] = q[k] /\ a[k] = s[k]
      BY <1>3, <1>5, <1>6, <2>1
    <3> QED  BY <1>3, <3>1, <3>2 DEF Tallies, Numbers
  <2>2. CASE ~(k <= i)
    <3>1. k + 1 \in 1 .. Len(q) /\ k + 1 # i + 1
      BY <1>3, <1>5, <2>2
    <3>2. b[k] = q[k + 1] /\ a[k] = s[k + 1]
      BY <1>3, <1>5, <1>6, <2>2
    <3> QED  BY <1>3, <3>1, <3>2 DEF Tallies, Numbers
  <2> QED  BY <2>1, <2>2
<1>8. Numbers(b)
  BY <1>3, <1>5, <1>7 DEF Numbers
<1>9. Tallies(C, a, b, 0)
  BY <1>3, <1>5, <1>6, <1>7, <1>8 DEF Tallies, Entries
<1>10. Total(b) = Total(q) - q[i + 1].children
  <2>1. i + 1 \in 1 .. Len(q)
    BY <1>3
  <2>2. \A k \in 1 .. Len(b) :
          b[k].children = IF k < i + 1 THEN q[k].children ELSE q[k + 1].children
    BY <1>3, <1>5
  <2> QED  BY <1>3, <1>5, <1>8, <2>1, <2>2, TotalErase
<1> QED
  BY <1>4, <1>9, <1>10

\* Both halves of a node that splits.
LEMMA TallyParts ==
    ASSUME NEW C, NEW s, NEW q, Tallies(C, s, q, 0), NEW sp \in 0 .. Len(s)
    PROVE  /\ Tallies(C, LeftPart(s, sp), LeftPart(q, sp), 0)
           /\ Tallies(C, RightPart(s, sp), RightPart(q, sp), 0)
<1>1. PICK S : q \in Seq(S)
  BY DEF Tallies, Entries
<1>2. /\ Len(q) = Len(s) /\ Len(s) \in Nat /\ s \in Seq(C) /\ Numbers(q) /\ sp \in 0 .. Len(q)
  BY <1>1, LenProperties DEF Tallies, Entries
<1>3. ASSUME NEW D, NEW z \in Seq(D), Len(z) = Len(s)
      PROVE  /\ LeftPart(z, sp) \in Seq(D) /\ Len(LeftPart(z, sp)) = sp
             /\ RightPart(z, sp) \in Seq(D) /\ Len(RightPart(z, sp)) = Len(s) - sp
             /\ \A k \in 1 .. sp : LeftPart(z, sp)[k] = z[k]
             /\ \A k \in 1 .. Len(s) - sp : RightPart(z, sp)[k] = z[k + sp]
  <2>1. sp \in 0 .. Len(z)
    BY <1>3
  <2>2. /\ LeftPart(z, sp) \in Seq(D) /\ Len(LeftPart(z, sp)) = sp
        /\ RightPart(z, sp) \in Seq(D) /\ Len(RightPart(z, sp)) = Len(s) - sp
    BY <1>3, <2>1, SplitKeepsItems
  <2>3. \A k \in 1 .. sp : LeftPart(z, sp)[k] = z[k]
    BY <1>2, <1>3, SubSeqProperties, ElementOfSeq DEF LeftPart
  <2>4. \A k \in 1 .. Len(s) - sp : RightPart(z, sp)[k] = z[k + sp]
    BY <1>2, <1>3, SubSeqProperties, ElementOfSeq DEF RightPart
  <2> QED  BY <2>2, <2>3, <2>4
<1>4. ASSUME NEW a, NEW b, NEW o \in Nat, a \in Seq(C), b \in Seq(S), Len(a) = Len(b),
             o + Len(a) <= Len(s),
             \A k \in 1 .. Len(a) : a[k] = s[k + o] /\ b[k] = q[k + o]
      PROVE  Tallies(C, a, b, 0)
  <2>1. Len(a) \in Nat
    BY <1>4, LenProperties
  <2>2. ASSUME NEW k \in 1 .. Len(a)
        PROVE  b[k].children \in Int /\ b[k].children = Count(a[k])
    <3>1. k + o \in 1 .. Len(s) /\ k + o # 0
      BY <1>2, <1>4, <2>1
    <3> QED  BY <1>2, <1>4, <3>1 DEF Tallies, Numbers
  <2>3. Numbers(b)
    BY <1>4, <2>1, <2>2 DEF Numbers
  <2> QED  BY <1>4, <2>2, <2>3 DEF Tallies, Entries
<1>5. Tallies(C, LeftPart(s, sp), LeftPart(q, sp), 0)
  <2>1. PICK a, b : a = LeftPart(s, sp) /\ b = LeftPart(q, sp)
    OBVIOUS
  <2>2. /\ a \in Seq(C) /\ Len(a) = sp /\ \A k \in 1 .. sp : a[k] = s[k]
        /\ b \in Seq(S) /\ Len(b) = sp /\ \A k \in 1 .. sp : b[k] = q[k]
    BY <1>1, <1>2, <1>3, <2>1
  <2>3. 0 \in Nat /\ 0 + Len(a) <= Len(s)
        /\ \A k \in 1 .. Len(a) : a[k] = s[k + 0] /\ b[k] = q[k + 0]
    BY <1>2, <2>2
  <2>4. Tallies(C, a, b, 0)
    BY <1>4, <2>2, <2>3
  <2> QED  BY <2>1, <2>4
<1>6. Tallies(C, RightPart(s, sp), RightPart(q, sp), 0)
  <2>1. PICK a, b : a = RightPart(s, sp) /\ b = RightPart(q, sp)
    OBVIOUS
  <2>2. /\ a \in Seq(C) /\ Len(a) = Len(s) - sp
        /\ b \in Seq(S) /\ Len(b) = Len(s) - sp
        /\ \A k \in 1 .. Len(s) - sp : a[k] = s[k + sp] /\ b[k] = q[k + sp]
    BY <1>1, <1>2, <1>3, <2>1
  <2>3. sp \in Nat /\ sp + Len(a) <= Len(s) /\ Len(a) = Len(b)
        /\ \A k \in 1 .. Len(a) : a[k] = s[k + sp] /\ b[k] = q[k + sp]
    BY <1>2, <2>2
  <2>4. Tallies(C, a, b, 0)
    BY <1>4, <2>2, <2>3
  <2> QED  BY <2>1, <2>4
<1> QED
  BY <1>5, <1>6

\* The children that node n may have once the continuation that takes the result
\* of thread t is through with it.
Kin(t, n) == Children(n) \cup {c \in {ptr[t], right[t]} : c # Nil}

\* What a node knows of its children when its continuation is called: all but
\* the count of the child the call has gone through.
LEMMA FrameTallies ==
    ASSUME NEW owner, MemInv(owner), CountInv, NEW t \in Transients,
           NEW phase \in {"replace", "split", "erase"}, AtNode(t, phase),
           NEW n, n = Frame(t).node, NEW i, i = Frame(t).index
    PROVE  /\ Tallies(Kin(t, n), items[n], meta[n], i + 1)
           /\ i \in 0 .. Len(items[n]) - 1 /\ Count(n) = Total(meta[n])
           /\ Total(meta[n]) \in Int /\ meta[n][i + 1].children \in Int
<1>1. /\ n \in NodeId /\ items[n] \in Seq(NodeId) /\ Len(items[n]) \in Nat
      /\ i \in 0 .. Len(items[n]) - 1 /\ Children(n) = Content(items[n]) /\ depth[n] # 1
  BY FrameItems
<1>2. refs[n] > 0 /\ Sees(owner, t, n)
  BY FrameHeld
<1>3. depth[n] > 1
  BY InnerHeld
<1>4. Entries(meta[n]) /\ Len(meta[n]) = Len(items[n])
  BY <1>1, <1>2, <1>3 DEF CountInv, Arrays, Arrayed
<1>5. items[n] \in Seq(Kin(t, n))
  <2>1. \A k \in 1 .. Len(items[n]) : items[n][k] \in Kin(t, n)
    BY <1>1 DEF Kin, Content
  <2>2. items[n] \in [1 .. Len(items[n]) -> Kin(t, n)]
    BY <1>1, <2>1
  <2> QED  BY <1>1, <2>2
<1>6. ASSUME NEW k \in 1 .. Len(items[n]), k # i + 1 PROVE Known(n, k)
  <2>1. ~Due(t, n, k)
    BY <1>1, <1>6 DEF Due
  <2> QED  BY <1>1, <1>2, <1>3, <2>1, KnownHere
<1>7. Tallies(Kin(t, n), items[n], meta[n], i + 1)
  BY <1>4, <1>5, <1>6 DEF Tallies, Known
<1>8. Numbers(meta[n]) /\ i + 1 \in 1 .. Len(meta[n])
  BY <1>1, <1>4 DEF Entries
<1>9. Total(meta[n]) \in Int /\ meta[n][i + 1].children \in Int
  BY <1>8, TotalInt DEF Numbers
<1> QED
  BY <1>1, <1>7, <1>9 DEF Count

\* A continuation of an inner node stands below the next.
LEMMA InnerStands ==
    ASSUME NEW owner, MemInv(owner), CountInv, NEW t \in Transients,
           NEW phase \in {"replace", "split", "erase"}, AtNode(t, phase),
           NEW n, n = Frame(t).node, Pops(t), UNCHANGED root
    PROVE  Stands(owner, t, n)
<1>0. /\ Memory /\ Path(t) /\ Held(owner, t) /\ pc[t] = phase /\ ~Busy(t) /\ stack[t] # <<>>
      /\ root[t] \in NodeId /\ n \in NodeId /\ refs[n] > 0 /\ Sees(owner, t, n)
      /\ Frame(t) = stack[t][Len(stack[t])] /\ Len(stack[t]) \in Nat \ {0}
      /\ \A k \in 1 .. Len(stack[t]) - 1 : depth[stack[t][k].node] # depth[n]
  BY FrameHeld
<1>7. /\ stack'[t] = SubSeq(stack[t], 1, Len(stack[t]) - 1)
      /\ Len(stack'[t]) = Len(stack[t]) - 1
      /\ \A k \in 1 .. Len(stack'[t]) : k \in 1 .. Len(stack[t]) /\ stack'[t][k] = stack[t][k]
  BY <1>0, PoppedFrames
<1>a. Len(stack[t]) \in Nat \ {0} /\ Len(stack'[t]) = Len(stack[t]) - 1
  BY <1>0, <1>7
<1>8. stack'[t] = <<>> => root[t] = n
  <2>1. stack'[t] = <<>> => Len(stack[t]) = 1
    BY ONLY <1>a
  <2> QED  BY <1>0, <2>1 DEF Path
<1>9. ASSUME stack'[t] # <<>> PROVE \E p, k : Above(owner, t, n, p, k)
  <2>0. stack[t] \in Seq(FrameSet)
    BY <1>0 DEF Memory, TypeOK, ControlOK
  <2>1. PICK j \in Nat : j = Len(stack[t]) - 1
    BY ONLY <1>a
  <2>2. j > 0 /\ Len(stack'[t]) = j /\ j \in 1 .. Len(stack[t]) /\ j + 1 \in 1 .. Len(stack[t])
        /\ j + 1 > 1 /\ (j + 1) - 1 = j /\ j \in 1 .. Len(stack[t]) - 1
        /\ Len(stack[t]) = j + 1 /\ j \in 1 .. Len(stack'[t])
    <3>1. Len(stack'[t]) # 0
      <4>1. stack'[t] \in Seq(FrameSet)
        BY <1>0, <1>7, <2>0
      <4> QED  BY <1>9, <4>1, EmptySeq
    <3> QED  BY <1>0, <1>7, <2>1, <3>1
  <2>3. PICK f : f = stack[t][j]
    OBVIOUS
  <2>4. /\ f \in FrameSet /\ f.node \in NodeId /\ Placed(f.node) /\ Sees(owner, t, f.node)
        /\ depth[f.node] # depth[n]
    <3>1. f \in FrameSet
      BY <2>0, <2>2, <2>3, ElementOfSeq
    <3> QED  BY <1>0, <2>2, <2>3, <3>1, PathPlaced DEF Held
  <2>5. /\ depth[f.node] > 1 /\ f.index < Len(items[f.node])
        /\ n = items[f.node][f.index + 1]
    <3>1. depth[f.node] > 1 /\ f.index < Len(items[f.node])
      BY <1>0, <2>2, <2>3 DEF Path
    <3>2. stack[t][j + 1].node = items[f.node][f.index + 1]
      BY <1>0, <2>2, <2>3 DEF Path
    <3>3. n = stack[t][j + 1].node
      BY <1>0, <2>2
    <3> QED  BY <3>1, <3>2, <3>3
  <2>6. refs[f.node] > 0
    BY <1>0, <2>4, AliveNow
  <2>7. f.index \in Nat /\ f.index + 1 \in 1 .. Len(items[f.node])
        /\ f.index = (f.index + 1) - 1
    <3>1. items[f.node] \in Seq(NodeId)
      BY <1>0, <2>4, <2>5 DEF Memory, TypeOK, NodesOK
    <3> QED  BY <2>4, <2>5, <3>1, LenProperties DEF FrameSet
  <2>8. Known(f.node, f.index + 1)
    <3>1. ~Due(t, f.node, f.index + 1)
      BY <2>4 DEF Due
    <3> QED  BY <2>4, <2>5, <2>6, <2>7, <3>1, KnownHere
  <2>9. Frame(t)' = f
    BY <1>7, <2>2, <2>3 DEF Frame
  <2> QED  BY <2>4, <2>5, <2>6, <2>7, <2>8, <2>9 DEF Above
<1> QED
  BY <1>0, <1>8, <1>9 DEF Stands

\* A continuation of an inner node is through.
LEMMA InnerCount ==
    ASSUME NEW owner, MemInv(owner), CountInv, NEW t \in Transients,
           NEW phase \in {"replace", "split", "erase"}, AtNode(t, phase),
           NEW n, n = Frame(t).node, Stands(owner, t, n),
           NEW R, NEW dst, NEW K, Climbed(t, n, dst, R, K),
           \A m \in {dst} \cup R : Tallies(Kin(t, n), items'[m], meta'[m], 0),
           Tidings(t, n, dst)
    PROVE  CountInv'
<1>0. Memory /\ n \in NodeId /\ refs[n] > 0 /\ Sees(owner, t, n)
  BY FrameHeld
<1>1. /\ \A c \in Children(n) : c \in NodeId /\ refs[c] > 0 /\ depth[n] = depth[c] + 1
      /\ \A c \in NodeId : c = ptr[t] \/ c = right[t] =>
           refs[c] = 1 /\ depth[n] = depth[c] + 1
      /\ ptr[t] \in Pointer /\ right[t] \in Pointer
      /\ depth[n] \in Nat /\ depth[n] > 1
  BY InnerHeld
<1> DEFINE W == {dst} \cup R
<1>2. /\ R \subseteq FreeNodes /\ dst \in NodeId /\ Rewrites(n, dst, R)
      /\ Makes(W, depth[n])
      /\ \A m \in NodeId \ W : items'[m] = items[m] /\ meta'[m] = meta[m]
  BY DEF Climbed, Rewritten
<1>3. /\ persistent[n] => dst \in FreeNodes /\ dst # n
      /\ ~persistent[n] => dst = n /\ owner[n] = t
  BY <1>0, <1>2, RewriteSplits
<1>4. W \subseteq NodeId /\ \A m \in W : depth'[m] = depth[n]
  BY <1>2 DEF Makes, FreeNodes
<1>5. ASSUME NEW c \in Kin(t, n) PROVE c \in NodeId \ W /\ Count(c)' = Count(c)
  <2>1. c \in NodeId /\ refs[c] > 0 /\ depth[n] = depth[c] + 1
    BY <1>1 DEF Kin, Pointer
  <2>2. depth[c] \in Nat
    BY <1>0, <2>1 DEF Memory, TypeOK, NodesOK
  <2>3. c # n
    BY <1>1, <2>1, <2>2
  <2>4. c \notin W
    BY <1>2, <1>3, <2>1, <2>3 DEF FreeNodes
  <2>5. items'[c] = items[c] /\ meta'[c] = meta[c] /\ depth'[c] = depth[c]
    BY <1>2, <2>1, <2>4 DEF Makes
  <2> QED  BY <2>1, <2>4, <2>5 DEF Count
<1>6. Fills(W)
  <2> SUFFICES ASSUME NEW m \in W
               PROVE  Arrayed(m)' /\ \A k \in 1 .. Len(items'[m]) : Known(m, k)'
    BY DEF Fills
  <2>1. Tallies(Kin(t, n), items'[m], meta'[m], 0)
    OBVIOUS
  <2> HIDE DEF W
  <2>2. Arrayed(m)'
    BY <2>1 DEF Tallies, Arrayed, Entries, Numbers
  <2>3. ASSUME NEW k \in 1 .. Len(items'[m]) PROVE Known(m, k)'
    <3>1. PICK c : c = items'[m][k]
      OBVIOUS
    <3>2. c \in Kin(t, n)
      BY <2>1, <3>1, ElementOfSeq DEF Tallies
    <3>3. meta'[m][k].children = Count(c)
      <4>1. k # 0
        BY <2>1, LenProperties DEF Tallies
      <4> QED  BY <2>1, <3>1, <4>1 DEF Tallies
    <3>4. Count(c)' = Count(c)
      BY <1>5, <3>2
    <3>5. Count(items[m][k])' = Count(c)'
      BY <3>1 DEF Count
    <3> QED  BY <3>3, <3>4, <3>5 DEF Known
  <2> QED  BY <2>2, <2>3
<1>7. Fills({dst} \cup R)
  BY <1>6
<1> HIDE DEF W
<1> QED
  BY <1>7, CountClimb

\* What thread t says is heard of by no other.
LEMMA Told ==
    ASSUME MetaOK, NEW t \in Transients, NEW d, NEW e,
           delta' = [delta EXCEPT ![t] = d], rightInfo' = [rightInfo EXCEPT ![t] = e]
    PROVE  delta'[t] = d /\ rightInfo'[t] = e /\ Listens(t)
  BY DEF MetaOK, Listens

\* A continuation that does not split: its arrays are new and ms, and it tells d.
InnerReplaced(t, n, dst, K, new, ms, d) ==
    /\ Climbed(t, n, dst, {}, K) /\ Pops(t)
    /\ items'[dst] = new /\ meta'[dst] = ms /\ depth'[dst] = depth[n]
    /\ pc'[t] = "replace" /\ delta'[t] = d /\ rightInfo'[t] = NoInfo

LEMMA InnerReplaceClimbs ==
    ASSUME NEW owner, MemInv(owner), CountInv, MetaOK, NEW t \in Transients,
           NEW phase \in {"replace", "split", "erase"}, AtNode(t, phase),
           NEW n, n = Frame(t).node, NEW K, K \subseteq Children(n),
           NEW dst \in NodeId, Rewrites(n, dst, {}), Makes({dst}, depth[n]),
           NEW new, items' = [items EXCEPT ![dst] = new],
           refs' = IF persistent[n] THEN Counted({dst}, K) ELSE Counted({}, {}),
           NEW c, CallReplace(t, Changed(n, dst), c),
           \A u \in Transients \ {t} : at'[u] = at[u],
           NEW p, Drops(t, p), Pops(t), UNCHANGED <<root, op, rightMost, dying, marking>>,
           NEW ms, NEW d, Keeps(t, n, ms, d)
    PROVE  InnerReplaced(t, n, dst, K, new, ms, d) /\ Stands(owner, t, n)
<1>1. PICK R : R = {}
  OBVIOUS
<1>2. R \subseteq FreeNodes /\ {dst} \cup R = {dst}
  BY <1>1
<1>3. /\ \A m \in NodeId \ {dst} : items'[m] = items[m]
      /\ items'[dst] = new
  BY DEF MemInv, Memory, TypeOK, NodesOK
<1>4. Rewritten(n, dst, R, K)
  BY <1>1, <1>2, <1>3 DEF Rewritten
<1>5. /\ Waits(t) /\ UNCHANGED root /\ ptr'[t] = Changed(n, dst) /\ pc'[t] = "replace"
  BY DEF CallReplace, Drops, Pops, Waits, MemInv, Memory, TypeOK, ControlOK, ResultOK, ChoresOK
<1>6. NewVersion(t, n) = dst
  BY NewVersionIs DEF CallReplace, MemInv, Memory
<1>7. /\ \A m \in NodeId \ {dst} : meta'[m] = meta[m]
      /\ meta'[dst] = ms
  BY <1>6 DEF Keeps, MetaOK
<1>8. delta'[t] = d /\ rightInfo'[t] = NoInfo /\ Listens(t)
  BY Told DEF Keeps, Tells
<1>9. Climbed(t, n, dst, R, K)
  BY <1>2, <1>4, <1>5, <1>7, <1>8 DEF Climbed
<1>10. depth'[dst] = depth[n]
  BY DEF Makes
<1>11. Stands(owner, t, n)
  BY InnerStands
<1> QED
  BY <1>1, <1>3, <1>5, <1>7, <1>8, <1>9, <1>10, <1>11 DEF InnerReplaced

\* Its arrays are right, and so is what it tells of how many there are.
LEMMA InnerReplaceCount ==
    ASSUME NEW owner, MemInv(owner), CountInv, NEW t \in Transients,
           NEW phase \in {"replace", "split", "erase"}, AtNode(t, phase),
           NEW n, n = Frame(t).node, Stands(owner, t, n),
           NEW dst, NEW K, NEW new, NEW ms, NEW d, InnerReplaced(t, n, dst, K, new, ms, d),
           Tallies(Kin(t, n), new, ms, 0),
           d.children \in Int, Total(ms) = Total(meta[n]) + d.children
    PROVE  CountInv'
<1>1. PICK R : R = {}
  OBVIOUS
<1>2. Climbed(t, n, dst, R, K)
  BY <1>1 DEF InnerReplaced
<1>3. \A m \in {dst} \cup R : Tallies(Kin(t, n), items'[m], meta'[m], 0)
  BY <1>1 DEF InnerReplaced
<1>4. Tidings(t, n, dst)
  <2>1. depth[n] # 1 /\ n \in NodeId
    BY FrameItems
  <2>2. Count(n) = Total(meta[n]) /\ Count(dst)' = Total(ms)
    BY <2>1 DEF Count, InnerReplaced
  <2>3. NoInfo.children \in Int
    BY DEF NoInfo, Info
  <2> QED  BY <2>2, <2>3 DEF Tidings, InnerReplaced
<1> QED
  BY <1>2, <1>3, <1>4, InnerCount

\* InternalNode::replace: the child is the one the call tells of, with what it adds.
LEMMA InternalReplaceClimbs ==
    ASSUME NEW owner, MemInv(owner), CountInv, MetaOK, NEW t \in Transients,
           NEW n, n = Frame(t).node, NEW i, i = Frame(t).index, NEW u, u = delta[t],
           InternalReplace(t),
           Keeps(t, n, ReplaceItem(meta[n], i, Added(meta[n][i + 1], u)),
                 ReplaceDelta(n, i, u))
    PROVE  /\ AtNode(t, "replace") /\ Stands(owner, t, n) /\ Tip(t) \in Kin(t, n)
           /\ \E dst, K :
                InnerReplaced(t, n, dst, K, ReplaceItem(items[n], i, Tip(t)),
                              ReplaceItem(meta[n], i, Added(meta[n][i + 1], u)),
                              ReplaceDelta(n, i, u))
<1>1. PICK new : new = IF ptr[t] = Nil THEN items[n] ELSE ReplaceItem(items[n], i, ptr[t])
  OBVIOUS
<1>2. /\ AtNode(t, "replace") /\ Pops(t) /\ Drops(t, Replaced(t, n, i))
      /\ UNCHANGED <<root, op, rightMost, at, dying, marking>>
  BY DEF InternalReplace, trees
<1>3. PICK dst \in NodeId :
          /\ Rewrites(n, dst, {}) /\ items' = [items EXCEPT ![dst] = new]
          /\ Makes({dst}, depth[n])
          /\ refs' = IF ptr[t] = Nil /\ persistent[n]
                       THEN Counted({dst}, Children(n))
                       ELSE CountedCopy(n, dst, i, {})
          /\ \E c : CallReplace(t, Changed(n, dst), c)
  BY <1>1 DEF InternalReplace
<1>4. /\ items[n] \in Seq(NodeId) /\ Len(items[n]) \in Nat /\ i \in 0 .. Len(items[n]) - 1
      /\ Children(n) = Content(items[n]) /\ FrameItem(t) = items[n][i + 1]
      /\ FrameItem(t) \in Children(n)
  BY <1>2, FrameItems
<1>5. PICK K : K = IF ptr[t] = Nil THEN Children(n) ELSE OtherChildren(n, i)
  OBVIOUS
<1>6. K \subseteq Children(n)
      /\ refs' = IF persistent[n] THEN Counted({dst}, K) ELSE Counted({}, {})
  <2>1. K \subseteq Children(n)
    BY <1>4, <1>5 DEF OtherChildren, Content
  <2>2. {dst} \cup {} = {dst}
    OBVIOUS
  <2> QED  BY <1>3, <1>5, <2>1, <2>2 DEF CountedCopy
<1>8. stack[t] # <<>>
  BY <1>2 DEF AtNode
<1>12. Tip(t) \in Kin(t, n)
  BY <1>4, <1>8 DEF Tip, Kin
<1>14. new = ReplaceItem(items[n], i, Tip(t))
  <2>1. CASE ptr[t] = Nil
    <3>1. Tip(t) = items[n][i + 1]
      BY <1>4, <1>8, <2>1 DEF Tip
    <3> QED  BY <1>1, <1>4, <2>1, <3>1, ReplaceNothing
  <2>2. CASE ptr[t] # Nil
    BY <1>1, <2>2 DEF Tip
  <2> QED  BY <2>1, <2>2
<1>15. PICK ms, d : ms = ReplaceItem(meta[n], i, Added(meta[n][i + 1], u))
                    /\ d = ReplaceDelta(n, i, u)
  OBVIOUS
<1>18. \A x \in Transients \ {t} : at'[x] = at[x]
  BY <1>2
<1>19. InnerReplaced(t, n, dst, K, new, ms, d) /\ Stands(owner, t, n)
  <2>1. PICK phase : phase = "replace" /\ phase \in {"replace", "split", "erase"}
    OBVIOUS
  <2>2. AtNode(t, phase) /\ Keeps(t, n, ms, d)
    BY <1>2, <1>15, <2>1
  <2> QED  BY <1>2, <1>3, <1>6, <1>18, <2>1, <2>2, InnerReplaceClimbs
<1> QED
  BY <1>2, <1>12, <1>14, <1>15, <1>19

\* The count of the child changes by what it says it does, and so does that of the node.
LEMMA InternalReplaceCount ==
    ASSUME NEW owner, MemInv(owner), CountInv, MetaOK, NEW t \in Transients,
           NEW n, n = Frame(t).node, NEW i, i = Frame(t).index, NEW u, u = delta[t],
           InternalReplace(t),
           Keeps(t, n, ReplaceItem(meta[n], i, Added(meta[n][i + 1], u)),
                 ReplaceDelta(n, i, u))
    PROVE  CountInv'
<1>1. /\ AtNode(t, "replace") /\ Stands(owner, t, n) /\ Tip(t) \in Kin(t, n)
      /\ \E dst, K :
           InnerReplaced(t, n, dst, K, ReplaceItem(items[n], i, Tip(t)),
                         ReplaceItem(meta[n], i, Added(meta[n][i + 1], u)),
                         ReplaceDelta(n, i, u))
  BY InternalReplaceClimbs
<1>2. PICK new, ms, d : /\ new = ReplaceItem(items[n], i, Tip(t))
                        /\ ms = ReplaceItem(meta[n], i, Added(meta[n][i + 1], u))
                        /\ d = ReplaceDelta(n, i, u)
  OBVIOUS
<1>3. PICK dst, K : InnerReplaced(t, n, dst, K, new, ms, d)
  BY <1>1, <1>2
<1>7. /\ Tallies(Kin(t, n), items[n], meta[n], i + 1) /\ i \in 0 .. Len(items[n]) - 1
      /\ Total(meta[n]) \in Int /\ meta[n][i + 1].children \in Int
  BY <1>1, FrameTallies
<1>8. stack[t] # <<>> /\ pc[t] = "replace"
  BY <1>1 DEF AtNode
<1>9. /\ u.children \in Int
      /\ meta[n][i + 1].children + u.children = Count(Tip(t))
  BY <1>8 DEF CountInv, Truthful
<1>10. PICK e : e = Added(meta[n][i + 1], u)
  OBVIOUS
<1>11. e.children = meta[n][i + 1].children + u.children
  BY <1>10 DEF Added, Info
<1>12. Tally(Kin(t, n), Tip(t), e)
  BY <1>1, <1>7, <1>9, <1>11 DEF Tally
<1>13. /\ Tallies(Kin(t, n), ReplaceItem(items[n], i, Tip(t)), ReplaceItem(meta[n], i, e), 0)
       /\ Total(ReplaceItem(meta[n], i, e))
            = Total(meta[n]) - meta[n][i + 1].children + e.children
  BY <1>7, <1>12, TallyReplace
<1>16. d.children = u.children
  BY <1>2 DEF ReplaceDelta, Info
<1>17. /\ Tallies(Kin(t, n), new, ms, 0) /\ d.children \in Int
       /\ Total(ms) = Total(meta[n]) + d.children
  BY <1>2, <1>7, <1>9, <1>10, <1>11, <1>13, <1>16
<1>18. "replace" \in {"replace", "split", "erase"}
  OBVIOUS
<1> QED
  BY <1>1, <1>3, <1>17, <1>18, InnerReplaceCount

\* The arrays of a node one of whose children has split.
LEMMA SplitTallies ==
    ASSUME NEW owner, MemInv(owner), CountInv, NEW t \in Transients, AtNode(t, "split"),
           NEW n, n = Frame(t).node, NEW i, i = Frame(t).index
    PROVE  /\ Tallies(Kin(t, n), SplitChild(items[n], i, SplitLeft(t, n, i), right[t]),
                      Halves(t), 0)
           /\ delta[t].children \in Int /\ rightInfo[t].children \in Int
           /\ Total(meta[n]) \in Int /\ meta[n][i + 1].children \in Int
           /\ Total(Halves(t)) = Total(meta[n]) - meta[n][i + 1].children
                                   + delta[t].children + rightInfo[t].children
<1>1. stack[t] # <<>> /\ pc[t] = "split"
  BY DEF AtNode
<1>2. /\ FrameItem(t) = items[n][i + 1] /\ FrameItem(t) \in Children(n)
  BY FrameItems
<1>3. /\ Tallies(Kin(t, n), items[n], meta[n], i + 1) /\ i \in 0 .. Len(items[n]) - 1
      /\ Total(meta[n]) \in Int /\ meta[n][i + 1].children \in Int
  BY FrameTallies
<1>4. right[t] # Nil
  BY <1>1 DEF MemInv, Memory, TypeOK, PhaseOK
<1>5. Tip(t) = SplitLeft(t, n, i)
  BY <1>1, <1>2 DEF Tip, SplitLeft
<1>6. Tally(Kin(t, n), SplitLeft(t, n, i), delta[t]) /\ Tally(Kin(t, n), right[t], rightInfo[t])
  <2>1. SplitLeft(t, n, i) \in Kin(t, n) /\ right[t] \in Kin(t, n)
    BY <1>2, <1>4 DEF SplitLeft, Kin
  <2>2. Truthful(t)
    BY DEF CountInv
  <2> QED  BY <1>1, <1>5, <2>1, <2>2 DEF Tally, Truthful
<1>7. Halves(t) = SplitChild(meta[n], i, delta[t], rightInfo[t])
  BY DEF Halves
<1>8. delta[t].children \in Int /\ rightInfo[t].children \in Int
  BY <1>6 DEF Tally
<1>9. PICK l : l = SplitLeft(t, n, i)
  OBVIOUS
<1>10. /\ Tallies(Kin(t, n), SplitChild(items[n], i, l, right[t]),
                  SplitChild(meta[n], i, delta[t], rightInfo[t]), 0)
       /\ Total(SplitChild(meta[n], i, delta[t], rightInfo[t]))
            = Total(meta[n]) - meta[n][i + 1].children + delta[t].children
                + rightInfo[t].children
  BY <1>3, <1>6, <1>9, TallySplit
<1> QED
  BY <1>3, <1>7, <1>8, <1>9, <1>10

\* InternalNode::insert with room for the right half: two items for one.
LEMMA InternalInsertClimbs ==
    ASSUME NEW owner, MemInv(owner), CountInv, MetaOK, NEW t \in Transients,
           NEW n, n = Frame(t).node, NEW i, i = Frame(t).index,
           InternalInsert(t),
           Keeps(t, n, Halves(t), SplitDelta(n, i, delta[t], rightInfo[t]))
    PROVE  /\ AtNode(t, "split") /\ Stands(owner, t, n)
           /\ \E dst, K :
                InnerReplaced(t, n, dst, K, SplitChild(items[n], i, SplitLeft(t, n, i), right[t]),
                              Halves(t), SplitDelta(n, i, delta[t], rightInfo[t]))
<1>0. PICK lost, K, all : SplitOf(t, n, i, lost, K, all)
  BY DEF SplitOf
<1>1. /\ all = SplitChild(items[n], i, SplitLeft(t, n, i), right[t])
      /\ K \subseteq Children(n)
  BY <1>0 DEF SplitOf
<1>2. /\ AtNode(t, "split") /\ Pops(t) /\ Drops(t, Replaced(t, n, i))
      /\ UNCHANGED <<root, op, rightMost, at, dying, marking>>
  BY DEF InternalInsert, trees
<1>3. PICK dst \in NodeId :
          /\ Rewrites(n, dst, {}) /\ items' = [items EXCEPT ![dst] = all]
          /\ Makes({dst}, depth[n])
          /\ refs' = CountedCopy(n, dst, i, {})
          /\ CallReplace(t, Changed(n, dst), FALSE)
  BY <1>1 DEF InternalInsert
<1>4. K = OtherChildren(n, i) \/ ~persistent[n]
  BY <1>0, <1>2, SplitHeld
<1>5. refs' = IF persistent[n] THEN Counted({dst}, K) ELSE Counted({}, {})
  <2>1. {dst} \cup {} = {dst}
    OBVIOUS
  <2> QED  BY <1>3, <1>4, <2>1 DEF CountedCopy
<1>7. PICK ms, d : ms = Halves(t) /\ d = SplitDelta(n, i, delta[t], rightInfo[t])
  OBVIOUS
<1>9. Keeps(t, n, ms, d)
  BY <1>7
<1>10. "split" \in {"replace", "split", "erase"} /\ \A u \in Transients \ {t} : at'[u] = at[u]
  BY <1>2
<1>11. InnerReplaced(t, n, dst, K, all, ms, d) /\ Stands(owner, t, n)
  BY <1>1, <1>2, <1>3, <1>5, <1>9, <1>10, InnerReplaceClimbs
<1> QED
  BY <1>1, <1>2, <1>7, <1>11

\* Two counts for one.
LEMMA InternalInsertCount ==
    ASSUME NEW owner, MemInv(owner), CountInv, MetaOK, NEW t \in Transients,
           NEW n, n = Frame(t).node, NEW i, i = Frame(t).index,
           InternalInsert(t),
           Keeps(t, n, Halves(t), SplitDelta(n, i, delta[t], rightInfo[t]))
    PROVE  CountInv'
<1>1. /\ AtNode(t, "split") /\ Stands(owner, t, n)
      /\ \E dst, K :
           InnerReplaced(t, n, dst, K, SplitChild(items[n], i, SplitLeft(t, n, i), right[t]),
                         Halves(t), SplitDelta(n, i, delta[t], rightInfo[t]))
  BY InternalInsertClimbs
<1>2. PICK all, ms, d : /\ all = SplitChild(items[n], i, SplitLeft(t, n, i), right[t])
                        /\ ms = Halves(t) /\ d = SplitDelta(n, i, delta[t], rightInfo[t])
  OBVIOUS
<1>3. PICK dst, K : InnerReplaced(t, n, dst, K, all, ms, d)
  BY <1>1, <1>2
<1>6. /\ Tallies(Kin(t, n), all, ms, 0)
      /\ delta[t].children \in Int /\ rightInfo[t].children \in Int
      /\ Total(meta[n]) \in Int /\ meta[n][i + 1].children \in Int
      /\ Total(ms) = Total(meta[n]) - meta[n][i + 1].children
                       + delta[t].children + rightInfo[t].children
  BY <1>1, <1>2, SplitTallies
<1>8. d.children = delta[t].children + rightInfo[t].children - meta[n][i + 1].children
  BY <1>2 DEF SplitDelta, Info
<1>9. d.children \in Int /\ Total(ms) = Total(meta[n]) + d.children
  BY <1>6, <1>8
<1>10. "split" \in {"replace", "split", "erase"}
  OBVIOUS
<1> QED
  BY <1>1, <1>3, <1>6, <1>9, <1>10, InnerReplaceCount

\* InternalNode::erase: the child goes with what is known of it.
LEMMA InternalEraseClimbs ==
    ASSUME NEW owner, MemInv(owner), CountInv, MetaOK, NEW t \in Transients,
           NEW n, n = Frame(t).node, NEW i, i = Frame(t).index,
           InternalErase(t),
           Keeps(t, n, EraseItem(meta[n], i), EraseInnerDelta(n, i))
    PROVE  /\ AtNode(t, "erase") /\ Stands(owner, t, n) /\ Len(items[n]) > 1
           /\ \E dst, K :
                InnerReplaced(t, n, dst, K, EraseItem(items[n], i), EraseItem(meta[n], i),
                              EraseInnerDelta(n, i))
<1>1. PICK new : new = EraseItem(items[n], i)
  OBVIOUS
<1>2. /\ AtNode(t, "erase") /\ Pops(t) /\ Drops(t, Overwritten(n, i)) /\ Len(items[n]) > 1
      /\ UNCHANGED <<root, op, rightMost, dying, marking>>
  BY DEF InternalErase, trees
<1>3. PICK dst \in NodeId :
          /\ Rewrites(n, dst, {}) /\ items' = [items EXCEPT ![dst] = new]
          /\ Makes({dst}, depth[n])
          /\ refs' = CountedCopy(n, dst, i, {})
          /\ \E c : CallReplace(t, Changed(n, dst), c)
          /\ \E p : at' = [at EXCEPT ![t] = p]
  BY <1>1 DEF InternalErase
<1>4. Children(n) = Content(items[n])
  BY <1>2, FrameItems
<1>5. PICK K : K = OtherChildren(n, i)
  OBVIOUS
<1>6. K \subseteq Children(n)
      /\ refs' = IF persistent[n] THEN Counted({dst}, K) ELSE Counted({}, {})
  <2>1. K \subseteq Children(n)
    BY <1>4, <1>5 DEF OtherChildren, Content
  <2>2. {dst} \cup {} = {dst}
    OBVIOUS
  <2> QED  BY <1>3, <1>5, <2>1, <2>2 DEF CountedCopy
<1>8. PICK ms, d : ms = EraseItem(meta[n], i) /\ d = EraseInnerDelta(n, i)
  OBVIOUS
<1>11. Keeps(t, n, ms, d)
  BY <1>8
<1>12. "erase" \in {"replace", "split", "erase"} /\ \A u \in Transients \ {t} : at'[u] = at[u]
  BY <1>3 DEF MemInv, Memory, TypeOK, ControlOK
<1>13. InnerReplaced(t, n, dst, K, new, ms, d) /\ Stands(owner, t, n)
  BY <1>2, <1>3, <1>6, <1>11, <1>12, InnerReplaceClimbs
<1> QED
  BY <1>1, <1>2, <1>8, <1>13

\* The count goes with the child.
LEMMA InternalEraseCount ==
    ASSUME NEW owner, MemInv(owner), CountInv, MetaOK, NEW t \in Transients,
           NEW n, n = Frame(t).node, NEW i, i = Frame(t).index,
           InternalErase(t),
           Keeps(t, n, EraseItem(meta[n], i), EraseInnerDelta(n, i))
    PROVE  CountInv'
<1>1. /\ AtNode(t, "erase") /\ Stands(owner, t, n)
      /\ \E dst, K :
           InnerReplaced(t, n, dst, K, EraseItem(items[n], i), EraseItem(meta[n], i),
                         EraseInnerDelta(n, i))
  BY InternalEraseClimbs
<1>2. PICK new, ms, d : /\ new = EraseItem(items[n], i)
                        /\ ms = EraseItem(meta[n], i) /\ d = EraseInnerDelta(n, i)
  OBVIOUS
<1>3. PICK dst, K : InnerReplaced(t, n, dst, K, new, ms, d)
  BY <1>1, <1>2
<1>7. /\ Tallies(Kin(t, n), items[n], meta[n], i + 1) /\ i \in 0 .. Len(items[n]) - 1
      /\ Total(meta[n]) \in Int /\ meta[n][i + 1].children \in Int
  BY <1>1, FrameTallies
<1>9. Tallies(Kin(t, n), new, ms, 0) /\ Total(ms) = Total(meta[n]) - meta[n][i + 1].children
  BY <1>2, <1>7, TallyErase
<1>10. d.children = -meta[n][i + 1].children
  BY <1>2 DEF EraseInnerDelta, Info
<1>11. d.children \in Int /\ Total(ms) = Total(meta[n]) + d.children
  BY <1>7, <1>9, <1>10
<1>12. "erase" \in {"replace", "split", "erase"}
  OBVIOUS
<1> QED
  BY <1>1, <1>3, <1>9, <1>11, <1>12, InnerReplaceCount

\* The count of an inner node that is looked through.
LEMMA SummaryInner ==
    ASSUME NEW n, NEW its, NEW deps, NEW ms, deps[n] # 1
    PROVE  Summary(n, its, deps, ms).children = Total(ms[n])
  BY DEF Summary, InnerSummary, Info, Total, Slots

\* A continuation that splits its node: the arrays of the two halves of all and ams.
InnerHalved(t, n, dst, r, K, all, ams, sp) ==
    /\ Climbed(t, n, dst, {r}, K) /\ Pops(t) /\ dst # r /\ r \in NodeId
    /\ items'[dst] = LeftPart(all, sp) /\ items'[r] = RightPart(all, sp)
    /\ meta'[dst] = LeftPart(ams, sp) /\ meta'[r] = RightPart(ams, sp)
    /\ depth'[dst] = depth[n] /\ depth'[r] = depth[n]
    /\ pc'[t] = "split" /\ right'[t] = r
    /\ delta'[t] = Summary(dst, items', depth', meta')
    /\ rightInfo'[t] = Summary(r, items', depth', meta')

\* InternalNode::insert in a full node: both halves are looked through.
LEMMA InternalSplitClimbs ==
    ASSUME NEW owner, MemInv(owner), CountInv, MetaOK, NEW t \in Transients,
           NEW n, n = Frame(t).node, NEW i, i = Frame(t).index,
           InternalSplit(t),
           LET sp == InternalSplitPoint(i, Frame(t).rightMost)
           IN  meta' = [meta EXCEPT ![NewVersion(t, n)] = LeftPart(Halves(t), sp),
                                    ![right'[t]] = RightPart(Halves(t), sp)],
           TellsHalves(t, n)
    PROVE  /\ AtNode(t, "split") /\ Stands(owner, t, n)
           /\ \E dst, r, K, sp :
                /\ sp \in 1 .. Len(items[n])
                /\ InnerHalved(t, n, dst, r, K,
                               SplitChild(items[n], i, SplitLeft(t, n, i), right[t]),
                               Halves(t), sp)
<1>0. PICK lost, K, all : SplitOf(t, n, i, lost, K, all)
  BY DEF SplitOf
<1>1. /\ all = SplitChild(items[n], i, SplitLeft(t, n, i), right[t])
      /\ K \subseteq Children(n)
  BY <1>0 DEF SplitOf
<1>2. PICK sp : sp = InternalSplitPoint(i, Frame(t).rightMost)
  OBVIOUS
<1>3. /\ AtNode(t, "split") /\ Pops(t) /\ Drops(t, Replaced(t, n, i))
      /\ Len(items[n]) = InternalSize
      /\ UNCHANGED <<root, op, rightMost, at, dying, marking>>
  BY DEF InternalSplit, trees
<1>4. PICK r \in NodeId, dst \in NodeId :
          /\ Allocates(r, {}) /\ Rewrites(n, dst, {r})
          /\ items' = [items EXCEPT ![dst] = LeftPart(all, sp), ![r] = RightPart(all, sp)]
          /\ Makes({dst, r}, depth[n])
          /\ refs' = CountedCopy(n, dst, i, {r})
          /\ \E inLeft : CallSplit(t, Changed(n, dst), r, inLeft)
  BY <1>1, <1>2 DEF InternalSplit
<1>5. PICK R : R = {r}
  OBVIOUS
<1>6. R \subseteq FreeNodes /\ {dst} \cup R = {dst, r}
  BY <1>4, <1>5 DEF Allocates
<1>7. K = OtherChildren(n, i) \/ ~persistent[n]
  BY <1>0, <1>3, SplitHeld
<1>8. /\ n \in NodeId /\ i \in 0 .. Len(items[n]) - 1 /\ Len(items[n]) \in Nat
      /\ refs[n] > 0
  <2>1. n \in NodeId /\ i \in 0 .. Len(items[n]) - 1 /\ Len(items[n]) \in Nat
    BY <1>3, FrameItems
  <2>2. refs[n] > 0
    BY <1>3, FrameHeld
  <2> QED  BY <2>1, <2>2
<1>10. sp \in 1 .. Len(items[n])
  <2>1. Frame(t).rightMost \in BOOLEAN
    BY <1>3, FrameNode DEF MemInv, Memory
  <2>2. i \in 0 .. InternalSize - 1
    BY <1>3, <1>8
  <2>3. sp \in 1 .. InternalSize
    BY <1>2, <2>1, <2>2, InternalSplitPointRange
  <2> QED  BY <1>3, <2>3
<1>12. dst # r
  BY <1>4, <1>8 DEF Allocates, FreeNodes, Rewrites
<1>13. /\ items'[dst] = LeftPart(all, sp) /\ items'[r] = RightPart(all, sp)
       /\ \A m \in NodeId \ ({dst} \cup R) : items'[m] = items[m]
  BY <1>4, <1>6, <1>12 DEF MemInv, Memory, TypeOK, NodesOK
<1>14. NewVersion(t, n) = dst /\ right'[t] = r
  BY <1>4, NewVersionIs DEF CallSplit, MemInv, Memory, TypeOK, ResultOK
<1>15. /\ meta'[dst] = LeftPart(Halves(t), sp) /\ meta'[r] = RightPart(Halves(t), sp)
       /\ \A m \in NodeId \ ({dst} \cup R) : meta'[m] = meta[m]
  BY <1>2, <1>6, <1>12, <1>14 DEF MetaOK
<1>17. Rewritten(n, dst, R, K)
  <2>1. refs' = IF persistent[n] THEN Counted({dst} \cup R, K) ELSE Counted(R, {})
    BY <1>4, <1>5, <1>7 DEF CountedCopy
  <2> QED  BY <1>1, <1>4, <1>5, <1>6, <1>13, <2>1 DEF Rewritten
<1>18. /\ Waits(t) /\ UNCHANGED root /\ ptr'[t] = Changed(n, dst) /\ pc'[t] = "split"
  BY <1>3, <1>4 DEF CallSplit, Drops, Pops, Waits, MemInv, Memory, TypeOK, ControlOK,
                    ResultOK, ChoresOK
<1>19. depth'[dst] = depth[n] /\ depth'[r] = depth[n]
  BY <1>4 DEF Makes
<1>20. /\ delta'[t] = Summary(dst, items', depth', meta')
       /\ rightInfo'[t] = Summary(r, items', depth', meta')
       /\ Listens(t)
  BY <1>14, Told DEF TellsHalves, Tells
<1>21. Stands(owner, t, n)
  <2>1. PICK phase : phase = "split" /\ phase \in {"replace", "split", "erase"}
    OBVIOUS
  <2>2. AtNode(t, phase)
    BY <1>3, <2>1
  <2> QED  BY <1>3, <1>18, <2>1, <2>2, InnerStands
<1>22. Climbed(t, n, dst, R, K)
  BY <1>3, <1>15, <1>17, <1>18, <1>20 DEF Climbed
<1>23. InnerHalved(t, n, dst, r, K, all, Halves(t), sp)
  BY <1>3, <1>4, <1>5, <1>12, <1>13, <1>14, <1>15, <1>18, <1>19, <1>20, <1>22 DEF InnerHalved
<1> QED
  BY <1>1, <1>3, <1>10, <1>21, <1>23

\* Both totals are those of the arrays.
LEMMA InternalSplitCount ==
    ASSUME NEW owner, MemInv(owner), CountInv, MetaOK, NEW t \in Transients,
           NEW n, n = Frame(t).node, NEW i, i = Frame(t).index,
           InternalSplit(t),
           LET sp == InternalSplitPoint(i, Frame(t).rightMost)
           IN  meta' = [meta EXCEPT ![NewVersion(t, n)] = LeftPart(Halves(t), sp),
                                    ![right'[t]] = RightPart(Halves(t), sp)],
           TellsHalves(t, n)
    PROVE  CountInv'
<1>1. /\ AtNode(t, "split") /\ Stands(owner, t, n)
      /\ \E dst, r, K, sp :
           /\ sp \in 1 .. Len(items[n])
           /\ InnerHalved(t, n, dst, r, K,
                          SplitChild(items[n], i, SplitLeft(t, n, i), right[t]),
                          Halves(t), sp)
  BY InternalSplitClimbs
<1>2. PICK all, ams : /\ all = SplitChild(items[n], i, SplitLeft(t, n, i), right[t])
                      /\ ams = Halves(t)
  OBVIOUS
<1>3. PICK dst, r, K, sp :
          sp \in 1 .. Len(items[n]) /\ InnerHalved(t, n, dst, r, K, all, ams, sp)
  BY <1>1, <1>2
<1> USE <1>3 DEF InnerHalved
<1>4. PICK R : R = {r}
  OBVIOUS
<1>5. Climbed(t, n, dst, R, K)
  BY <1>4
<1>8. n \in NodeId /\ Len(items[n]) \in Nat /\ depth[n] # 1
  BY <1>1, FrameItems
<1>9. Tallies(Kin(t, n), all, ams, 0)
  BY <1>1, <1>2, SplitTallies
<1>10. sp \in 0 .. Len(all)
  <2>2. PICK lost, K2, all2 : SplitOf(t, n, i, lost, K2, all2)
    BY DEF SplitOf
  <2>3. all2 = all
    BY <1>2, <2>2 DEF SplitOf
  <2>4. Len(all) = Len(items[n]) + 1
    BY <1>1, <2>2, <2>3, SplitHeld
  <2> QED  BY <1>8, <2>4
<1>11. /\ Tallies(Kin(t, n), LeftPart(all, sp), LeftPart(ams, sp), 0)
       /\ Tallies(Kin(t, n), RightPart(all, sp), RightPart(ams, sp), 0)
  BY <1>9, <1>10, TallyParts
<1>16. \A m \in {dst} \cup R : Tallies(Kin(t, n), items'[m], meta'[m], 0)
  BY <1>4, <1>11
<1>21. Tidings(t, n, dst)
  <2>1. delta'[t].children = Total(meta'[dst]) /\ rightInfo'[t].children = Total(meta'[r])
    <3>1. PICK its, deps, ms : its = items' /\ deps = depth' /\ ms = meta'
      OBVIOUS
    <3>2. deps[dst] # 1 /\ deps[r] # 1
      BY <1>8, <3>1
    <3>3. delta'[t] = Summary(dst, its, deps, ms) /\ rightInfo'[t] = Summary(r, its, deps, ms)
      BY <3>1
    <3>4. /\ Summary(dst, its, deps, ms).children = Total(ms[dst])
          /\ Summary(r, its, deps, ms).children = Total(ms[r])
      BY <3>2, SummaryInner
    <3> QED  BY <3>1, <3>3, <3>4
  <2>2. Total(meta'[dst]) \in Int /\ Total(meta'[r]) \in Int
    <3>1. Numbers(meta'[dst]) /\ Numbers(meta'[r])
      BY <1>11 DEF Tallies, Entries
    <3> QED  BY <3>1, TotalInt
  <2>3. Count(dst)' = Total(meta'[dst]) /\ Count(right[t])' = Total(meta'[r])
    BY <1>8 DEF Count
  <2> QED  BY <2>1, <2>2, <2>3 DEF Tidings
<1>22. "split" \in {"replace", "split", "erase"}
  OBVIOUS
<1> HIDE DEF InnerHalved
<1> QED
  BY <1>1, <1>5, <1>16, <1>21, <1>22, InnerCount

-----------------------------------------------------------------------------
(* The leaf *)

\* What the continuation above a leaf is told of its new versions.
LeafTidings(t, n, dst) ==
    /\ delta'[t].children \in Int /\ rightInfo'[t].children \in Int
    /\ \/ pc'[t] = "replace" /\ Len(items[n]) + delta'[t].children = Len(items'[dst])
       \/ /\ pc'[t] = "split" /\ right'[t] \in NodeId /\ depth'[right'[t]] = 1
          /\ delta'[t].children = Len(items'[dst])
          /\ rightInfo'[t].children = Len(items'[right'[t]])

\* A thread at a leaf stands below the continuation it calls next.
LEMMA LeafStands ==
    ASSUME NEW owner, MemInv(owner), CountInv, NEW t \in Transients,
           NEW names, AtLeaf(t, names), NEW n, n = at[t], UNCHANGED <<stack, root>>
    PROVE  Stands(owner, t, n) /\ depth[n] = 1 /\ ~Busy(t) /\ pc[t] = "descend"
<1>0. Memory /\ Path(t) /\ Held(owner, t)
  BY DEF MemInv, Threads, Owned
<1>1. /\ pc[t] = "descend" /\ ~Busy(t) /\ depth[at[t]] = 1
      /\ at[t] \in NodeId /\ refs[at[t]] > 0 /\ Sees(owner, t, at[t])
  BY <1>0, PathPlaced, AliveNow DEF AtLeaf, Held
<1>7. stack'[t] = <<>> => root[t] = n
  BY <1>0, <1>1 DEF Path
<1>8. ASSUME stack'[t] # <<>> PROVE \E p, k : Above(owner, t, n, p, k)
  <2>1. stack[t] # <<>>
    BY <1>8
  <2>2. PICK f : f = Frame(t)
    OBVIOUS
  <2>3. Frame(t) = stack[t][Len(stack[t])] /\ Len(stack[t]) \in 1 .. Len(stack[t])
        /\ stack[t] \in Seq(FrameSet)
    BY <1>0, <2>1, PathPlaced DEF Memory, TypeOK, ControlOK
  <2>4. /\ f \in FrameSet /\ f.node \in NodeId /\ Placed(f.node) /\ Sees(owner, t, f.node)
    <3>1. f \in FrameSet
      BY <2>2, <2>3, ElementOfSeq
    <3> QED  BY <1>0, <2>2, <2>3, <3>1, PathPlaced DEF Held
  <2>5. /\ depth[f.node] > 1 /\ f.index < Len(items[f.node])
        /\ n = items[f.node][f.index + 1]
    <3>1. depth[f.node] > 1 /\ f.index < Len(items[f.node])
      BY <1>0, <2>2, <2>3 DEF Path
    <3>2. n = items[f.node][f.index + 1]
      BY <1>0, <1>1, <2>1, <2>2 DEF Path
    <3> QED  BY <3>1, <3>2
  <2>6. refs[f.node] > 0 /\ depth[f.node] # depth[n]
    BY <1>0, <1>1, <2>4, <2>5, AliveNow
  <2>7. f.index \in Nat /\ f.index + 1 \in 1 .. Len(items[f.node])
        /\ f.index = (f.index + 1) - 1
    <3>1. items[f.node] \in Seq(NodeId)
      BY <1>0, <2>4, <2>5 DEF Memory, TypeOK, NodesOK
    <3> QED  BY <2>4, <2>5, <3>1, LenProperties DEF FrameSet
  <2>8. Known(f.node, f.index + 1)
    <3>1. ~Due(t, f.node, f.index + 1)
      BY <1>1 DEF Due
    <3> QED  BY <2>4, <2>5, <2>6, <2>7, <3>1, KnownHere
  <2>9. Frame(t)' = f
    BY <2>2 DEF Frame
  <2> QED  BY <2>4, <2>5, <2>6, <2>7, <2>8, <2>9 DEF Above
<1>9. pc[t] # "persist" /\ ~(pc[t] \in {"replace", "split"})
  BY <1>1
<1> QED
  BY <1>1, <1>7, <1>8, <1>9 DEF Stands

\* A leaf has new versions, and no array of an inner node is written.
LEMMA LeafClimbs ==
    ASSUME NEW owner, MemInv(owner), CountInv, NEW t \in Transients,
           NEW names, AtLeaf(t, names), NEW n, n = at[t], NEW R, R \subseteq FreeNodes,
           NEW dst \in NodeId, Rewrites(n, dst, R), Makes({dst} \cup R, 1),
           \A m \in NodeId \ ({dst} \cup R) : items'[m] = items[m],
           refs' = CountedLeaf(n, dst, R),
           NEW phase, NEW rr, pc' = [pc EXCEPT ![t] = phase],
           ptr' = [ptr EXCEPT ![t] = Changed(n, dst)],
           right' = [right EXCEPT ![t] = rr],
           LeavesLeaf(t), UNCHANGED meta, Listens(t)
    PROVE  /\ Climbed(t, n, dst, R, {}) /\ Stands(owner, t, n) /\ depth[n] = 1
           /\ stack' = stack
<1>1. UNCHANGED <<stack, root, op>>
  BY DEF LeavesLeaf
<1>2. Stands(owner, t, n) /\ depth[n] = 1 /\ ~Busy(t)
  BY <1>1, LeafStands
<1>3. Memory /\ n \in NodeId
  BY <1>2 DEF MemInv, Stands
<1>4. Waits(t) /\ ptr'[t] = Changed(n, dst)
  BY <1>3 DEF LeavesLeaf, chores, Waits, Memory, TypeOK, ControlOK, ResultOK
<1>5. Rewritten(n, dst, R, {})
  <2>1. (IF persistent[n] THEN {dst} ELSE {}) \cup R = IF persistent[n] THEN {dst} \cup R ELSE R
    OBVIOUS
  <2>2. refs' = IF persistent[n] THEN Counted({dst} \cup R, {}) ELSE Counted(R, {})
    BY <2>1 DEF CountedLeaf
  <2> QED  BY <1>2, <1>3, <2>2 DEF Rewritten
<1> QED
  BY <1>1, <1>2, <1>4, <1>5 DEF Climbed

\* The counts, once a leaf has new versions.
LEMMA LeafCount ==
    ASSUME NEW owner, MemInv(owner), CountInv, NEW t \in Transients,
           NEW n, Stands(owner, t, n), depth[n] = 1,
           NEW dst, NEW R, Climbed(t, n, dst, R, {}),
           \A m \in {dst} \cup R : depth'[m] = 1, LeafTidings(t, n, dst)
    PROVE  CountInv'
<1>1. Fills({dst} \cup R)
  BY DEF Fills
<1>2. Tidings(t, n, dst)
  <2>1. Count(n) = Len(items[n]) /\ Count(dst)' = Len(items'[dst])
        /\ (pc'[t] = "split" => Count(right[t])' = Len(items'[right'[t]]))
    BY DEF Count, LeafTidings
  <2> QED  BY <2>1 DEF Tidings, LeafTidings
<1> QED
  BY <1>1, <1>2, CountClimb

\* A leaf that does not split: its values are new, and it tells d.
LeafReplaced(t, n, dst, new, d) ==
    /\ Climbed(t, n, dst, {}, {}) /\ stack' = stack
    /\ items'[dst] = new /\ depth'[dst] = 1
    /\ pc'[t] = "replace" /\ delta'[t] = d /\ rightInfo'[t] = rightInfo[t]

LEMMA LeafReplaceClimbs ==
    ASSUME NEW owner, MemInv(owner), CountInv, MetaOK, NEW t \in Transients,
           NEW names, AtLeaf(t, names), NEW n, n = at[t], NEW new,
           NEW dst \in NodeId, Rewrites(n, dst, {}),
           items' = [items EXCEPT ![dst] = new], Makes({dst}, 1),
           refs' = CountedLeaf(n, dst, {}),
           NEW c, CallReplace(t, Changed(n, dst), c), LeavesLeaf(t),
           NEW d, Tells(t, d), UNCHANGED <<meta, rightInfo>>
    PROVE  LeafReplaced(t, n, dst, new, d) /\ Stands(owner, t, n) /\ depth[n] = 1
<1>1. PICK R : R = {}
  OBVIOUS
<1>2. R \subseteq FreeNodes /\ {dst} \cup R = {dst}
  BY <1>1
<1>4. /\ \A m \in NodeId \ ({dst} \cup R) : items'[m] = items[m]
      /\ items'[dst] = new
  BY <1>2 DEF MemInv, Memory, TypeOK, NodesOK
<1>5. /\ pc' = [pc EXCEPT ![t] = "replace"] /\ right' = [right EXCEPT ![t] = Nil]
      /\ ptr' = [ptr EXCEPT ![t] = Changed(n, dst)]
  BY DEF CallReplace
<1>6. Rewrites(n, dst, R) /\ Makes({dst} \cup R, 1) /\ refs' = CountedLeaf(n, dst, R)
  BY <1>1, <1>2
<1>7. delta'[t] = d /\ rightInfo'[t] = rightInfo[t] /\ Listens(t)
  BY DEF Tells, MetaOK, Listens
<1>8. Climbed(t, n, dst, R, {}) /\ Stands(owner, t, n) /\ depth[n] = 1 /\ stack' = stack
  BY <1>2, <1>4, <1>5, <1>6, <1>7, LeafClimbs
<1>9. pc'[t] = "replace"
  BY <1>5 DEF MemInv, Memory, TypeOK, ControlOK
<1>10. depth'[dst] = 1
  BY DEF Makes
<1> QED
  BY <1>1, <1>4, <1>7, <1>8, <1>9, <1>10 DEF LeafReplaced

\* The delta is the difference of its lengths.
LEMMA LeafReplaceCount ==
    ASSUME NEW owner, MemInv(owner), CountInv, NEW t \in Transients,
           NEW n, Stands(owner, t, n), depth[n] = 1,
           NEW dst, NEW new, NEW d, LeafReplaced(t, n, dst, new, d),
           d.children \in Int, Len(items[n]) + d.children = Len(new)
    PROVE  CountInv'
<1>1. PICK R : R = {}
  OBVIOUS
<1>2. Climbed(t, n, dst, R, {}) /\ \A m \in {dst} \cup R : depth'[m] = 1
  BY <1>1 DEF LeafReplaced
<1>3. LeafTidings(t, n, dst)
  BY DEF LeafTidings, LeafReplaced, CountInv, Truthful
<1> QED
  BY <1>2, <1>3, LeafCount

\* The leaf a thread is at.
LEMMA LeafRead ==
    ASSUME NEW owner, MemInv(owner), NEW t \in Transients, NEW names, AtLeaf(t, names)
    PROVE  items[at[t]] \in Seq(Values) /\ Len(items[at[t]]) \in Nat /\ at[t] \in NodeId
           /\ refs[at[t]] > 0
<1>0. Memory /\ Path(t)
  BY DEF MemInv, Threads
<1>1. at[t] \in NodeId /\ pc[t] = "descend" /\ items[at[t]] \in Seq(Values)
      /\ Len(items[at[t]]) \in Nat
  BY <1>0, LeafItems DEF Memory
<1> QED
  BY <1>0, <1>1, PathPlaced, AliveNow

\* An insertion that needs no split.
LEMMA LeafInsertClimbs ==
    ASSUME NEW owner, MemInv(owner), CountInv, MetaOK, NEW t \in Transients,
           NEW n, n = at[t],
           NEW i \in 0 .. LeafSize, NEW v \in Values, LeafInsert(t, i, v),
           Tells(t, InsertDelta(n, i, v)), UNCHANGED <<meta, rightInfo>>
    PROVE  /\ Stands(owner, t, n) /\ depth[n] = 1
           /\ items[n] \in Seq(Values) /\ Len(items[n]) \in Nat /\ i \in 0 .. Len(items[n])
           /\ \E dst : LeafReplaced(t, n, dst, InsertItem(items[n], i, v), InsertDelta(n, i, v))
<1>1. PICK dst \in NodeId :
        /\ Rewrites(n, dst, {})
        /\ items' = [items EXCEPT ![dst] = InsertItem(items[n], i, v)]
        /\ Makes({dst}, 1)
        /\ refs' = CountedLeaf(n, dst, {})
        /\ CallReplace(t, Changed(n, dst), FALSE)
  BY DEF LeafInsert
<1>2. AtLeaf(t, Inserting) /\ LeavesLeaf(t) /\ i <= Len(items[n])
  BY DEF LeafInsert
<1>3. items[n] \in Seq(Values) /\ Len(items[n]) \in Nat
  BY <1>2, LeafRead
<1>4. i \in 0 .. Len(items[n])
  BY <1>2, <1>3, NodeSizeAssumption
<1>5. PICK d, new : d = InsertDelta(n, i, v) /\ new = InsertItem(items[n], i, v)
  OBVIOUS
<1>6. Tells(t, d)
  BY <1>5
<1>7. LeafReplaced(t, n, dst, new, d) /\ Stands(owner, t, n) /\ depth[n] = 1
  BY <1>1, <1>2, <1>5, <1>6, LeafReplaceClimbs
<1> QED
  BY <1>3, <1>4, <1>5, <1>7

LEMMA LeafInsertCount ==
    ASSUME NEW owner, MemInv(owner), CountInv, MetaOK, NEW t \in Transients,
           NEW i \in 0 .. LeafSize, NEW v \in Values, LeafInsert(t, i, v),
           Tells(t, InsertDelta(at[t], i, v)), UNCHANGED <<meta, rightInfo>>
    PROVE  CountInv'
<1>1. PICK n : n = at[t]
  OBVIOUS
<1>2. /\ Stands(owner, t, n) /\ depth[n] = 1
      /\ items[n] \in Seq(Values) /\ Len(items[n]) \in Nat /\ i \in 0 .. Len(items[n])
      /\ \E dst : LeafReplaced(t, n, dst, InsertItem(items[n], i, v), InsertDelta(n, i, v))
  BY <1>1, LeafInsertClimbs
<1>3. Len(InsertItem(items[n], i, v)) = Len(items[n]) + 1
  BY ONLY <1>2, v \in Values, InsertItemProperties, SMTT(30)
<1>4. PICK d, new : d = InsertDelta(n, i, v) /\ new = InsertItem(items[n], i, v)
  OBVIOUS
<1>5. PICK dst : LeafReplaced(t, n, dst, new, d)
  BY <1>2, <1>4
<1>6. d.children = 1
  BY <1>4 DEF InsertDelta, Info
<1>7. d.children \in Int /\ Len(items[n]) + d.children = Len(new)
  BY <1>2, <1>3, <1>4, <1>6
<1> QED
  BY <1>2, <1>5, <1>7, LeafReplaceCount

\* An element is replaced.
LEMMA LeafAssignClimbs ==
    ASSUME NEW owner, MemInv(owner), CountInv, MetaOK, NEW t \in Transients,
           NEW n, n = at[t],
           NEW i \in 0 .. LeafSize, NEW v \in Values, LeafAssign(t, i, v),
           Tells(t, SetDelta(n, i, v)), UNCHANGED <<meta, rightInfo>>
    PROVE  /\ Stands(owner, t, n) /\ depth[n] = 1
           /\ items[n] \in Seq(Values) /\ Len(items[n]) \in Nat /\ i \in 0 .. Len(items[n]) - 1
           /\ \E dst : LeafReplaced(t, n, dst, ReplaceItem(items[n], i, v), SetDelta(n, i, v))
<1>1. PICK dst \in NodeId :
        /\ Rewrites(n, dst, {})
        /\ items' = [items EXCEPT ![dst] = ReplaceItem(items[n], i, v)]
        /\ Makes({dst}, 1)
        /\ refs' = CountedLeaf(n, dst, {})
        /\ CallReplace(t, Changed(n, dst), FALSE)
  BY DEF LeafAssign
<1>2. AtLeaf(t, Assigning) /\ LeavesLeaf(t) /\ i < Len(items[n])
  BY DEF LeafAssign
<1>3. items[n] \in Seq(Values) /\ Len(items[n]) \in Nat
  BY <1>2, LeafRead
<1>4. i \in 0 .. Len(items[n]) - 1
  BY <1>2, <1>3, NodeSizeAssumption
<1>5. PICK d, new : d = SetDelta(n, i, v) /\ new = ReplaceItem(items[n], i, v)
  OBVIOUS
<1>6. Tells(t, d)
  BY <1>5
<1>7. LeafReplaced(t, n, dst, new, d) /\ Stands(owner, t, n) /\ depth[n] = 1
  BY <1>1, <1>2, <1>5, <1>6, LeafReplaceClimbs
<1> QED
  BY <1>3, <1>4, <1>5, <1>7

LEMMA LeafAssignCount ==
    ASSUME NEW owner, MemInv(owner), CountInv, MetaOK, NEW t \in Transients,
           NEW i \in 0 .. LeafSize, NEW v \in Values, LeafAssign(t, i, v),
           Tells(t, SetDelta(at[t], i, v)), UNCHANGED <<meta, rightInfo>>
    PROVE  CountInv'
<1>1. PICK n : n = at[t]
  OBVIOUS
<1>2. /\ Stands(owner, t, n) /\ depth[n] = 1
      /\ items[n] \in Seq(Values) /\ Len(items[n]) \in Nat /\ i \in 0 .. Len(items[n]) - 1
      /\ \E dst : LeafReplaced(t, n, dst, ReplaceItem(items[n], i, v), SetDelta(n, i, v))
  BY <1>1, LeafAssignClimbs
<1>3. Len(ReplaceItem(items[n], i, v)) = Len(items[n])
  <2>1. PICK s : s = items[n]
    OBVIOUS
  <2>2. s \in Seq(Values) /\ v \in Values /\ i \in 0 .. Len(s) - 1
    BY <1>2, <2>1
  <2>3. Len(ReplaceItem(s, i, v)) = Len(s)
    BY <2>2, ReplaceItemProperties
  <2> QED  BY <2>1, <2>3
<1>4. PICK d, new : d = SetDelta(n, i, v) /\ new = ReplaceItem(items[n], i, v)
  OBVIOUS
<1>5. PICK dst : LeafReplaced(t, n, dst, new, d)
  BY <1>2, <1>4
<1>6. d.children = 0
  BY <1>4 DEF SetDelta, Info
<1>7. d.children \in Int /\ Len(items[n]) + d.children = Len(new)
  BY <1>2, <1>3, <1>4, <1>6
<1> QED
  BY <1>2, <1>5, <1>7, LeafReplaceCount

\* An element goes, and others stay.
LEMMA LeafEraseClimbs ==
    ASSUME NEW owner, MemInv(owner), CountInv, MetaOK, NEW t \in Transients,
           NEW n, n = at[t],
           NEW i \in 0 .. LeafSize, LeafErase(t, i), NEW junk,
           Tells(t, EraseDelta(n, i, junk)), UNCHANGED <<meta, rightInfo>>
    PROVE  /\ Stands(owner, t, n) /\ depth[n] = 1
           /\ items[n] \in Seq(Values) /\ Len(items[n]) \in Nat /\ Len(items[n]) > 1
           /\ i \in 0 .. Len(items[n]) /\ (op[t] # "pop_back" => i < Len(items[n]))
           /\ \E dst : LeafReplaced(t, n, dst, EraseItem(items[n], i), EraseDelta(n, i, junk))
<1>1. PICK dst \in NodeId :
        /\ Rewrites(n, dst, {})
        /\ items' = [items EXCEPT ![dst] = EraseItem(items[n], i)]
        /\ Makes({dst}, 1)
        /\ refs' = CountedLeaf(n, dst, {})
        /\ \E c : CallReplace(t, Changed(n, dst), c)
  BY DEF LeafErase
<1>2. AtLeaf(t, {"erase", "pop_back"}) /\ LeavesLeaf(t) /\ ErasesAt(t, i) /\ Len(items[n]) > 1
  BY DEF LeafErase
<1>3. items[n] \in Seq(Values) /\ Len(items[n]) \in Nat
  BY <1>2, LeafRead
<1>4. i \in 0 .. Len(items[n]) /\ (op[t] # "pop_back" => i < Len(items[n]))
  BY <1>2, <1>3, NodeSizeAssumption DEF ErasesAt
<1>5. PICK d, new : d = EraseDelta(n, i, junk) /\ new = EraseItem(items[n], i)
  OBVIOUS
<1>6. Tells(t, d)
  BY <1>5
<1>7. LeafReplaced(t, n, dst, new, d) /\ Stands(owner, t, n) /\ depth[n] = 1
  BY <1>1, <1>2, <1>5, <1>6, LeafReplaceClimbs
<1> QED
  BY <1>2, <1>3, <1>4, <1>5, <1>7

LEMMA LeafEraseCount ==
    ASSUME NEW owner, MemInv(owner), CountInv, MetaOK, NEW t \in Transients,
           NEW i \in 0 .. LeafSize, LeafErase(t, i), NEW junk,
           Tells(t, EraseDelta(at[t], i, junk)), UNCHANGED <<meta, rightInfo>>
    PROVE  CountInv'
<1>1. PICK n : n = at[t]
  OBVIOUS
<1>2. /\ Stands(owner, t, n) /\ depth[n] = 1
      /\ items[n] \in Seq(Values) /\ Len(items[n]) \in Nat /\ Len(items[n]) > 1
      /\ i \in 0 .. Len(items[n])
      /\ \E dst : LeafReplaced(t, n, dst, EraseItem(items[n], i), EraseDelta(n, i, junk))
  BY <1>1, LeafEraseClimbs
<1>3. Len(EraseItem(items[n], i)) = Len(items[n]) - 1
  BY ONLY <1>2, EraseItemProperties, SMTT(30)
<1>4. PICK d, new : d = EraseDelta(n, i, junk) /\ new = EraseItem(items[n], i)
  OBVIOUS
<1>5. PICK dst : LeafReplaced(t, n, dst, new, d)
  BY <1>2, <1>4
<1>6. d.children = -1
  BY <1>4 DEF EraseDelta, Info
<1>7. d.children \in Int /\ Len(items[n]) + d.children = Len(new)
  BY <1>2, <1>3, <1>4, <1>6
<1> QED
  BY <1>2, <1>5, <1>7, LeafReplaceCount

\* A leaf that splits: the halves of the values all, which are looked through.
LeafHalved(t, n, dst, r, all, sp) ==
    /\ Climbed(t, n, dst, {r}, {}) /\ stack' = stack /\ dst # r /\ r \in NodeId
    /\ items'[dst] = LeftPart(all, sp) /\ items'[r] = RightPart(all, sp)
    /\ depth'[dst] = 1 /\ depth'[r] = 1
    /\ pc'[t] = "split" /\ right'[t] = r
    /\ delta'[t] = Summary(dst, items', depth', meta')
    /\ rightInfo'[t] = Summary(r, items', depth', meta')

LEMMA LeafSplitClimbs ==
    ASSUME NEW owner, MemInv(owner), CountInv, MetaOK, NEW t \in Transients,
           NEW n, n = at[t],
           NEW i \in 0 .. LeafSize, NEW v \in Values, LeafSplit(t, i, v),
           UNCHANGED meta, TellsHalves(t, n)
    PROVE  /\ Stands(owner, t, n) /\ depth[n] = 1
           /\ \E dst, r, all, sp :
                /\ all \in Seq(Values) /\ Len(all) = LeafSize + 1 /\ sp \in 1 .. LeafSize
                /\ LeafHalved(t, n, dst, r, all, sp)
<1>0. PICK sp, all : sp = LeafSplitPoint(i, rightMost[t]) /\ all = InsertItem(items[n], i, v)
  OBVIOUS
<1>1. PICK r \in NodeId, dst \in NodeId :
        /\ Allocates(r, {})
        /\ Rewrites(n, dst, {r})
        /\ items' = [items EXCEPT ![dst] = LeftPart(all, sp), ![r] = RightPart(all, sp)]
        /\ Makes({dst, r}, 1)
        /\ refs' = CountedLeaf(n, dst, {r})
        /\ CallSplit(t, Changed(n, dst), r, i < sp)
  BY <1>0 DEF LeafSplit
<1>2. AtLeaf(t, Inserting) /\ LeavesLeaf(t) /\ Len(items[n]) = LeafSize
  BY DEF LeafSplit
<1>3. items[n] \in Seq(Values) /\ Len(items[n]) \in Nat /\ n \in NodeId /\ refs[n] > 0
  BY <1>2, LeafRead
<1>4. all \in Seq(Values) /\ Len(all) = LeafSize + 1 /\ sp \in 1 .. LeafSize
  <2>1. i \in 0 .. Len(items[n])
    BY <1>2
  <2>2. rightMost[t] \in BOOLEAN
    BY DEF MemInv, Memory, TypeOK, ControlOK
  <2>3. sp \in 1 .. LeafSize
    BY <1>0, <2>2, LeafSplitPointRange
  <2>4. all \in Seq(Values) /\ Len(all) = Len(items[n]) + 1
    BY ONLY <1>0, <1>3, <2>1, v \in Values, InsertItemProperties, SMTT(30)
  <2> QED  BY <1>2, <2>3, <2>4
<1>6. PICK R : R = {r}
  OBVIOUS
<1>7. R \subseteq FreeNodes /\ {dst} \cup R = {dst, r}
  BY <1>1, <1>6 DEF Allocates
<1>8. dst # r
  BY <1>1, <1>3 DEF Allocates, FreeNodes, Rewrites
<1>9. /\ items'[dst] = LeftPart(all, sp) /\ items'[r] = RightPart(all, sp)
      /\ \A m \in NodeId \ ({dst} \cup R) : items'[m] = items[m]
  BY <1>1, <1>7, <1>8 DEF MemInv, Memory, TypeOK, NodesOK
<1>10. depth'[dst] = 1 /\ depth'[r] = 1
  BY <1>1 DEF Makes
<1>11. /\ pc' = [pc EXCEPT ![t] = "split"] /\ right' = [right EXCEPT ![t] = r]
       /\ ptr' = [ptr EXCEPT ![t] = Changed(n, dst)]
       /\ pc'[t] = "split" /\ right'[t] = r
  BY <1>1 DEF CallSplit, MemInv, Memory, TypeOK, ControlOK, ResultOK
<1>12. NewVersion(t, n) = dst
  BY <1>1, NewVersionIs DEF CallSplit, MemInv, Memory
<1>13. /\ delta'[t] = Summary(dst, items', depth', meta')
       /\ rightInfo'[t] = Summary(r, items', depth', meta')
       /\ Listens(t)
  BY <1>11, <1>12, Told DEF TellsHalves, Tells
<1>16. Rewrites(n, dst, R) /\ Makes({dst} \cup R, 1) /\ refs' = CountedLeaf(n, dst, R)
  BY <1>1, <1>6, <1>7
<1>17. Climbed(t, n, dst, R, {}) /\ Stands(owner, t, n) /\ depth[n] = 1 /\ stack' = stack
  BY <1>2, <1>7, <1>9, <1>11, <1>13, <1>16, LeafClimbs
<1>18. LeafHalved(t, n, dst, r, all, sp)
  BY <1>1, <1>6, <1>8, <1>9, <1>10, <1>11, <1>13, <1>17 DEF LeafHalved
<1> QED
  BY <1>4, <1>17, <1>18

\* A full leaf: both counts are those of the halves.
LEMMA LeafSplitCount ==
    ASSUME NEW owner, MemInv(owner), CountInv, MetaOK, NEW t \in Transients,
           NEW i \in 0 .. LeafSize, NEW v \in Values, LeafSplit(t, i, v),
           UNCHANGED meta, TellsHalves(t, at[t])
    PROVE  CountInv'
<1>1. PICK n : n = at[t]
  OBVIOUS
<1>2. /\ Stands(owner, t, n) /\ depth[n] = 1
      /\ \E dst, r, all, sp :
           /\ all \in Seq(Values) /\ Len(all) = LeafSize + 1 /\ sp \in 1 .. LeafSize
           /\ LeafHalved(t, n, dst, r, all, sp)
  BY <1>1, LeafSplitClimbs
<1>3. PICK dst, r, all, sp :
           /\ all \in Seq(Values) /\ Len(all) = LeafSize + 1 /\ sp \in 1 .. LeafSize
           /\ LeafHalved(t, n, dst, r, all, sp)
  BY <1>2
<1> USE <1>3 DEF LeafHalved
<1>4. PICK R : R = {r}
  OBVIOUS
<1>5. Climbed(t, n, dst, R, {}) /\ \A m \in {dst} \cup R : depth'[m] = 1
  BY <1>4
<1>6. LeftPart(all, sp) \in Seq(Values) /\ RightPart(all, sp) \in Seq(Values)
  <2>1. sp \in 0 .. Len(all)
    BY <1>3, NodeSizeAssumption
  <2> QED  BY <2>1, SplitKeepsItems
<1>7. /\ delta'[t].children = Len(items'[dst]) /\ rightInfo'[t].children = Len(items'[r])
  BY DEF Summary, LeafSummary, Info
<1>8. LeafTidings(t, n, dst)
  BY <1>6, <1>7, LenProperties DEF LeafTidings
<1> HIDE DEF LeafHalved
<1> QED
  BY <1>2, <1>5, <1>8, LeafCount

-----------------------------------------------------------------------------
(* Steps that give a node up, or write to none *)

\* Nodes W, which nothing points to, are given up, in whatever phase the thread is.
Releases(t, W) ==
    /\ W \subseteq NodeId
    /\ \A n \in NodeId \ W :
         /\ items'[n] = items[n] /\ depth'[n] = depth[n]
         /\ (refs'[n] > 0 => refs[n] > 0) /\ (persistent'[n] <=> persistent[n])
    /\ \A n \in W : Loose(n) /\ refs'[n] = 0
    /\ Waits(t) /\ UNCHANGED <<pc, op, stack, root, ptr, right>>

LEMMA ReleaseCount ==
    ASSUME NEW owner, MemInv(owner), CountInv, NEW t \in Transients,
           NEW W, Releases(t, W), UNCHANGED <<meta, delta, rightInfo>>
    PROVE  CountInv'
<1> USE DEF Releases
<1>1. Memory /\ Path(t) /\ Truthful(t)
  BY DEF MemInv, Threads, CountInv
<1>2. Changes(owner, t, W) /\ Listens(t)
  BY DEF Changes, Listens
<1>3. Fills(W)
  <2>1. \A n \in W : ~(refs'[n] > 0)
    OBVIOUS
  <2> QED  BY <2>1 DEF Fills
<1>4. Settles(t, W)
  <2> SUFFICES ASSUME NEW n \in NodeId \ W, refs[n] > 0, depth[n] > 1,
                      NEW k \in 1 .. Len(items[n]),
                      (Due(t, n, k) /\ ~persistent[n]) \/ items[n][k] \in W
               PROVE  Due(t, n, k)' /\ ~persistent'[n]
    BY DEF Settles
  <2>1. items[n][k] \notin W
    <3>1. items[n][k] \in Children(n)
      BY DEF Children
    <3>2. Placed(items[n][k])
      BY <3>1 DEF Placed
    <3> QED  BY <3>2 DEF Loose
  <2>2. Due(t, n, k)' <=> Due(t, n, k)
    BY DEF Due, Frame
  <2> QED  BY <2>1, <2>2
<1>5. \A n \in NodeId : n = root[t] \/ n = ptr[t] \/ n = right[t] => n \notin W
  BY DEF Loose, Placed, Handle
<1>6. stack[t] # <<>> => Frame(t).node \in NodeId \ W /\ FrameItem(t) \in NodeId \ W
  BY <1>1, PathPlaced DEF Loose
<1>7. Truthful(t)'
  BY <1>1, <1>2, <1>5, <1>6, TruthSame
<1> QED
  BY <1>2, <1>3, <1>4, <1>7, CountStep

\* A thread that has no result for a node, and gets none, writes to no node.
Rests(owner, t) ==
    /\ UNCHANGED <<items, depth>> /\ Waits(t)
    /\ \A u \in Transients \ {t} : op'[u] = op[u]
    /\ \A n \in NodeId : refs'[n] > 0 => refs[n] > 0
    /\ \A n \in NodeId : persistent'[n] => persistent[n] \/ owner[n] = t
    /\ stack[t] = <<>> \/ pc[t] \notin {"replace", "split"}
    /\ pc'[t] \notin {"replace", "split"}

LEMMA QuietCount ==
    ASSUME NEW owner, MemInv(owner), CountInv, NEW t \in Transients,
           Rests(owner, t), UNCHANGED meta, Listens(t),
           delta'[t].children \in Int, rightInfo'[t].children \in Int
    PROVE  CountInv'
<1> USE DEF Rests
<1>1. PICK W : W = {}
  OBVIOUS
<1>2. Changes(owner, t, W)
  BY <1>1 DEF Changes
<1>3. Settles(t, W) /\ Fills(W)
  BY <1>1 DEF Settles, Fills, Due
<1>4. Truthful(t)'
  BY DEF Truthful
<1> QED
  BY <1>2, <1>3, <1>4, CountStep

\* The same of a step that has nothing to tell.
LEMMA IdleCount ==
    ASSUME NEW owner, MemInv(owner), CountInv, MetaOK, NEW t \in Transients,
           Rests(owner, t), UNCHANGED meta,
           \/ UNCHANGED <<delta, rightInfo>>
           \/ Tells(t, NoInfo) /\ rightInfo' = [rightInfo EXCEPT ![t] = NoInfo]
    PROVE  CountInv'
<1>1. /\ delta[t].children \in Int /\ rightInfo[t].children \in Int
      /\ NoInfo.children = 0
  BY DEF CountInv, Truthful, NoInfo, Info
<1>2. Listens(t) /\ delta'[t].children \in Int /\ rightInfo'[t].children \in Int
  BY <1>1 DEF Tells, MetaOK, Listens
<1> QED
  BY <1>2, QuietCount

\* What a thread does on its way down, at an element that stays, or when an inner node
\* goes with its only child.
LEMMA WalkStepRests ==
    ASSUME NEW owner, MemInv(owner), NEW t \in Transients,
           \/ \E name \in Operations : Begin(t, name)
           \/ \E i \in 0 .. InternalSize - 1 : Descend(t, i)
           \/ \E i \in 0 .. LeafSize : LeafEraseOnly(t, i)
           \/ LeafKeep(t) \/ InternalEraseOnly(t) \/ Return(t)
    PROVE  Rests(owner, t)
<1>0. /\ pc \in [Transients -> PhaseSet] /\ at \in [Transients -> Pointer]
      /\ rightMost \in [Transients -> BOOLEAN] /\ stack \in [Transients -> Seq(FrameSet)]
      /\ op \in [Transients -> Operations \cup {"none"}]
  BY DEF MemInv, Memory, TypeOK, ControlOK
<1>1. /\ UNCHANGED <<items, depth, persistent, refs>> /\ Waits(t)
      /\ \A u \in Transients \ {t} : op'[u] = op[u]
      /\ pc[t] \notin {"replace", "split"} /\ pc'[t] \notin {"replace", "split"}
  <2>1. CASE \E name \in Operations : Begin(t, name)
    BY <1>0, <2>1 DEF Begin, Resting, nodes, trees, result, chores, Waits
  <2>2. CASE \E i \in 0 .. InternalSize - 1 : Descend(t, i)
    BY <1>0, <2>2 DEF Descend, nodes, trees, result, chores, Waits
  <2>3. CASE \E i \in 0 .. LeafSize : LeafEraseOnly(t, i)
    BY <1>0, <2>3 DEF LeafEraseOnly, AtLeaf, CallErase, LeavesLeaf, nodes, chores, Waits
  <2>4. CASE LeafKeep(t)
    BY <1>0, <2>4 DEF LeafKeep, AtLeaf, nodes, trees, result, chores, Waits
  <2>5. CASE InternalEraseOnly(t)
    BY <1>0, <2>5 DEF InternalEraseOnly, CallErase, AtNode, Pops, nodes, trees, chores, Waits
  <2>6. CASE Return(t)
    BY <1>0, <2>6 DEF Return, nodes, trees, chores, Waits
  <2> QED  BY <2>1, <2>2, <2>3, <2>4, <2>5, <2>6
<1> QED
  BY <1>1 DEF Rests

LEMMA WalkStepCount ==
    ASSUME NEW owner, MemInv(owner), CountInv, MetaOK, NEW t \in Transients,
           \/ \E name \in Operations : Begin(t, name)
           \/ \E i \in 0 .. InternalSize - 1 : Descend(t, i)
           \/ \E i \in 0 .. LeafSize : LeafEraseOnly(t, i)
           \/ LeafKeep(t) \/ InternalEraseOnly(t) \/ Return(t),
           UNCHANGED mixinVars
    PROVE  CountInv'
<1>1. Rests(owner, t)
  BY WalkStepRests
<1> QED
  BY <1>1, IdleCount DEF mixinVars

\* The thread still has to call the continuation after seek_end.
LEMMA SeekEndReleases ==
    ASSUME NEW owner, MemInv(owner), NEW t \in Transients, SeekEnd(t)
    PROVE  \E W : Releases(t, W)
<1>1. at \in [Transients -> Pointer]
  BY DEF MemInv, Memory, TypeOK, ControlOK
<1>2. UNCHANGED <<items, depth, persistent, refs, pc, op, stack, root, ptr, right>> /\ Waits(t)
  BY <1>1 DEF SeekEnd, nodes, trees, chores, Waits
<1>3. PICK W : W = {}
  OBVIOUS
<1>4. Releases(t, W)
  BY <1>2, <1>3 DEF Releases
<1> QED
  BY <1>4

LEMMA SeekEndCount ==
    ASSUME NEW owner, MemInv(owner), CountInv, NEW t \in Transients,
           SeekEnd(t), UNCHANGED mixinVars
    PROVE  CountInv'
<1>1. PICK W : Releases(t, W)
  BY SeekEndReleases
<1> QED
  BY <1>1, ReleaseCount DEF mixinVars

\* The tree object takes a new version, or an only child, as its root.
LEMMA RootTakesRests ==
    ASSUME NEW owner, MemInv(owner), NEW t \in Transients,
           RootReplace(t) \/ DiscardLeft(t) \/ Collapse(t) \/ RootSplitTooDeep(t)
    PROVE  Rests(owner, t) /\ stack[t] = <<>> /\ stack'[t] = <<>>
<1>0. Memory
  BY DEF MemInv
<1>1. /\ UNCHANGED <<items, depth, persistent>> /\ Waits(t)
      /\ stack[t] = <<>> /\ stack'[t] = <<>> /\ UNCHANGED op
      /\ pc'[t] \notin {"replace", "split"}
      /\ \A n \in NodeId : refs'[n] > 0 => refs[n] > 0
  <2>1. CASE RootReplace(t)
    <3>1. PICK new, phase :
            /\ phase \in {"collapse", "done"}
            /\ root' = [root EXCEPT ![t] = new] /\ \E p : Drops(t, p)
            /\ Complete(t, phase) /\ stack[t] = <<>>
            /\ UNCHANGED <<items, depth, persistent, refs, op, at, rightMost, stack, dying, marking>>
      BY <2>1 DEF RootReplace, AtRoot, nodes
    <3> QED
      BY <1>0, <3>1, PersistentRoots DEF Complete, Drops, Waits, Memory, TypeOK, ControlOK,
                                         ResultOK, ChoresOK
  <2>2. CASE DiscardLeft(t)
    BY <1>0, <2>2 DEF DiscardLeft, AtRoot, nodes, trees, Complete, Drops, Waits, Memory, TypeOK,
                      ControlOK, ResultOK, ChoresOK
  <2>3. CASE RootSplitTooDeep(t)
    BY <1>0, <2>3 DEF RootSplitTooDeep, AtRoot, nodes, trees, Drops, Waits, Memory, TypeOK,
                      ControlOK, ResultOK, ChoresOK
  <2>4. CASE Collapse(t)
    <3>1. PICK new, phase :
            /\ new = items[root[t]][1] /\ phase \in {"collapse", "done"}
            /\ pc[t] = "collapse"
            /\ depth[root[t]] > 1 /\ Len(items[root[t]]) = 1
            /\ root' = [root EXCEPT ![t] = new] /\ \E p : Drops(t, p)
            /\ pc' = [pc EXCEPT ![t] = phase] /\ refs' = Counted({}, {new})
            /\ UNCHANGED <<items, depth, persistent, op, at, rightMost, stack, ptr, right, dying,
                           marking>>
            /\ stack[t] = <<>>
      BY <2>4, HandsEmpty DEF Collapse, OnlyChild, Collapsible, result
    <3>2. new \in NodeId => refs[new] > 0
      <4>1. new \in Children(root[t]) /\ root[t] \in NodeId
        BY <1>0, <3>1, RootIsNode DEF Children, Memory
      <4> QED  BY <1>0, <4>1, AliveNow DEF Placed
    <3>3. \A n \in NodeId : refs'[n] > 0 => refs[n] > 0
      BY <3>1, <3>2 DEF Counted
    <3>4. Waits(t) /\ pc'[t] = phase
      BY <1>0, <3>1, PersistentRoots DEF Drops, Waits, Memory, TypeOK, ControlOK, ResultOK,
                                         ChoresOK
    <3> QED  BY <3>1, <3>3, <3>4
  <2> QED  BY <2>1, <2>2, <2>3, <2>4
<1> QED
  BY <1>1 DEF Rests

LEMMA RootTakesCount ==
    ASSUME NEW owner, MemInv(owner), CountInv, MetaOK, NEW t \in Transients,
           \/ /\ RootReplace(t) \/ DiscardLeft(t)
              /\ Tells(t, NoInfo) /\ rightInfo' = [rightInfo EXCEPT ![t] = NoInfo]
              /\ UNCHANGED meta
           \/ Collapse(t) /\ UNCHANGED mixinVars
           \/ RootSplitTooDeep(t) /\ UNCHANGED mixinVars
    PROVE  CountInv'
<1>1. Rests(owner, t)
  BY RootTakesRests
<1> QED
  BY <1>1, IdleCount DEF mixinVars

\* The thread marks a node of its own, or hands what it marked to a Persistent.
LEMMA MakePersistentRests ==
    ASSUME NEW owner, MemInv(owner), NEW t \in Transients, MakePersistent(t)
    PROVE  Rests(owner, t) /\ stack[t] = <<>> /\ stack'[t] = <<>>
<1>0. /\ Memory /\ Results(t) /\ Held(owner, t) /\ Marked(owner, t) /\ Owned(owner)
  BY DEF MemInv, Threads, Owned
<1>1. CASE Mark(t)
  <2> DEFINE n == Head(marking[t])
  <2>1. /\ pc[t] = "persist" /\ marking[t] # <<>>
        /\ persistent' = [persistent EXCEPT ![n] = TRUE]
        /\ UNCHANGED <<items, depth, refs, root, pc, op, at, rightMost, stack, ptr, right, drop,
                       dying>>
        /\ \E s : marking' = [marking EXCEPT ![t] = s]
    BY <1>1 DEF Mark, trees, control, result
  <2>2. n \in NodeId /\ Lists(marking[t], n)
    <3>1. marking[t] \in Seq(NodeId)
      BY <1>0 DEF Memory, TypeOK, ChoresOK
    <3> QED  BY <2>1, <3>1, ListsTail
  <2>3. Lists(marking[t], n) =>
          n = ptr[t] \/ \E p \in NodeId : owner[p] = t /\ n \in Children(p)
    BY <1>0 DEF Marked, Lists
  <2> HIDE DEF n
  <2>4. Placed(n) \/ n = ptr[t]
    BY <2>2, <2>3 DEF Placed
  <2>5. persistent[n] \/ owner[n] = t \/ owner[n] = NoOne
    BY <1>0, <2>2, <2>3 DEF Held, Sees, Owned
  <2>6. ASSUME owner[n] = NoOne PROVE persistent[n]
    BY <1>0, <2>2, <2>4, <2>6, AliveNow DEF Owned
  <2>7. \A m \in NodeId : persistent'[m] => persistent[m] \/ owner[m] = t
    BY <1>0, <2>1, <2>2, <2>5, <2>6 DEF Memory, TypeOK, NodesOK
  <2>8. Waits(t)
    BY <1>0, <2>1 DEF Waits, Memory, TypeOK, ChoresOK
  <2>9. stack[t] = <<>>
    BY <1>0, <2>1 DEF Results
  <2> QED  BY <2>1, <2>7, <2>8, <2>9 DEF Rests
<1>2. CASE \E p \in Persistents : Publish(t, p)
  <2>1. PICK p \in Persistents : Publish(t, p)
    BY <1>2
  <2>2. /\ pc[t] = "persist" /\ root' = [root EXCEPT ![p] = ptr[t]]
        /\ ptr' = [ptr EXCEPT ![t] = Nil] /\ pc' = [pc EXCEPT ![t] = "idle"]
        /\ drop' = [drop EXCEPT ![t] = root[p]]
        /\ UNCHANGED <<items, depth, refs, persistent, op, at, rightMost, stack, right, dying,
                       marking>>
    BY <2>1 DEF Publish, Drops, nodes
  <2>3. p \in Handle /\ \A u \in Transients : root'[u] = root[u]
    BY <1>0, <2>2, TreeAssumption DEF Memory, TypeOK, TreesOK, Handle
  <2>4. pc'[t] = "idle" /\ Waits(t)
    BY <1>0, <2>2, <2>3 DEF Waits, Memory, TypeOK, ControlOK, ResultOK, ChoresOK
  <2>5. stack[t] = <<>>
    BY <1>0, <2>2 DEF Results
  <2> QED  BY <2>2, <2>4, <2>5 DEF Rests
<1> QED
  BY <1>1, <1>2 DEF MakePersistent

LEMMA MakePersistentCount ==
    ASSUME NEW owner, MemInv(owner), CountInv, MetaOK, NEW t \in Transients,
           MakePersistent(t), UNCHANGED mixinVars
    PROVE  CountInv'
<1>1. Rests(owner, t)
  BY MakePersistentRests
<1> QED
  BY <1>1, IdleCount DEF mixinVars

\* A node whose last pointer is dropped, or whose destructor runs, is in no tree.
LEMMA DecRefReleases ==
    ASSUME NEW owner, MemInv(owner), NEW t \in Transients, DecRef(t)
    PROVE  \E W : Releases(t, W)
<1>0. Memory
  BY DEF MemInv
<1>1. CASE DropReference(t)
  <2>1. /\ drop[t] # Nil /\ refs[drop[t]] > 1
        /\ refs' = [refs EXCEPT ![drop[t]] = @ - 1]
        /\ drop' = [drop EXCEPT ![t] = Nil]
        /\ UNCHANGED <<items, depth, persistent, pc, op, at, rightMost, stack, root, ptr, right,
                       dying, marking>>
    BY <1>1 DEF DropReference, Drops, trees, control, result
  <2>2. Waits(t)
    BY <1>0, <2>1 DEF Waits, Memory, TypeOK, ChoresOK
  <2>3. \A n \in NodeId : refs'[n] > 0 => refs[n] > 0
    BY <1>0, <2>1 DEF Memory, TypeOK, NodesOK
  <2>4. PICK W : W = {}
    OBVIOUS
  <2>5. Releases(t, W)
    BY <2>1, <2>2, <2>3, <2>4 DEF Releases
  <2> QED  BY <2>5
<1>2. CASE DeleteNode(t)
  <2>0. PICK d : d = drop[t]
    OBVIOUS
  <2>1. /\ d # Nil /\ refs[d] = 1
        /\ refs' = [refs EXCEPT ![d] = 0]
        /\ drop' = [drop EXCEPT ![t] = Nil]
        /\ \/ items' = [items EXCEPT ![d] = <<>>] /\ Makes({d}, 1) /\ UNCHANGED dying
           \/ /\ UNCHANGED <<items, depth, persistent>>
              /\ dying' = [dying EXCEPT ![t] = Append(@, d)]
        /\ UNCHANGED <<pc, op, at, rightMost, stack, root, ptr, right, marking>>
    BY <1>2, <2>0 DEF DeleteNode, Frees, Drops, trees, control, result
  <2>2. d \in NodeId /\ Loose(d)
    <3>1. d \in NodeId
      BY <1>0, <2>0, <2>1 DEF Memory, TypeOK, ChoresOK, Pointer
    <3> QED  BY <1>0, <2>0, <2>1, <3>1, SoleDrop DEF Loose
  <2>3. refs'[d] = 0 /\ \A n \in NodeId \ {d} : refs'[n] = refs[n]
    BY <1>0, <2>1, <2>2 DEF Memory, TypeOK, NodesOK
  <2>4. \A n \in NodeId \ {d} :
          items'[n] = items[n] /\ depth'[n] = depth[n] /\ (persistent'[n] <=> persistent[n])
    BY <1>0, <2>1 DEF Makes, Memory, TypeOK, NodesOK
  <2>5. Waits(t)
    BY <1>0, <2>1 DEF Waits, Memory, TypeOK, ChoresOK
  <2>6. PICK W : W = {d}
    OBVIOUS
  <2>7. /\ W \subseteq NodeId
        /\ \A n \in NodeId \ W :
             /\ items'[n] = items[n] /\ depth'[n] = depth[n]
             /\ (refs'[n] > 0 => refs[n] > 0) /\ (persistent'[n] <=> persistent[n])
        /\ \A n \in W : Loose(n) /\ refs'[n] = 0
    BY ONLY <1>0, <2>2, <2>3, <2>4, <2>6
  <2>8. Releases(t, W)
    BY <2>1, <2>5, <2>7 DEF Releases
  <2> QED  BY <2>8
<1>3. CASE DestroyChild(t)
  <2>0. PICK n : n = dying[t][Len(dying[t])]
    OBVIOUS
  <2>1. /\ dying[t] # <<>> /\ \E p : drop' = [drop EXCEPT ![t] = p]
        /\ \/ \E s : items' = [items EXCEPT ![n] = s] /\ UNCHANGED <<depth, persistent, dying>>
           \/ /\ items' = [items EXCEPT ![n] = <<>>] /\ Makes({n}, 1)
              /\ \E s : dying' = [dying EXCEPT ![t] = s]
        /\ UNCHANGED <<refs, pc, op, at, rightMost, stack, root, ptr, right, marking>>
    BY <1>3, <2>0 DEF DestroyChild, Frees, Drops, trees, control, result
  <2>2. n \in NodeId /\ refs[n] = 0 /\ Loose(n)
    <3>1. dying[t] \in Seq(NodeId) /\ Len(dying[t]) \in 1 .. Len(dying[t])
      <4>1. dying[t] \in Seq(NodeId)
        BY <1>0 DEF Memory, TypeOK, ChoresOK
      <4> QED  BY <2>1, <4>1, EmptySeq, LenProperties
    <3>2. n \in NodeId /\ Dying(n)
      BY <2>0, <3>1, ElementOfSeq DEF Dying
    <3>3. refs[n] = 0
      BY <1>0, <3>2 DEF Memory, RefExact
    <3> QED  BY <1>0, <3>2, <3>3, AliveNow DEF Loose
  <2>3. \A m \in NodeId \ {n} :
          items'[m] = items[m] /\ depth'[m] = depth[m] /\ (persistent'[m] <=> persistent[m])
    BY <1>0, <2>1 DEF Makes, Memory, TypeOK, NodesOK
  <2>4. Waits(t)
    BY <1>0, <2>1 DEF Waits, Memory, TypeOK, ChoresOK
  <2>5. PICK W : W = {n}
    OBVIOUS
  <2>6. /\ W \subseteq NodeId
        /\ \A m \in NodeId \ W :
             /\ items'[m] = items[m] /\ depth'[m] = depth[m]
             /\ (refs'[m] > 0 => refs[m] > 0) /\ (persistent'[m] <=> persistent[m])
        /\ \A m \in W : Loose(m) /\ refs'[m] = 0
    BY ONLY <1>0, <2>1, <2>2, <2>3, <2>5
  <2>7. Releases(t, W)
    BY <2>1, <2>4, <2>6 DEF Releases
  <2> QED  BY <2>7
<1> QED
  BY <1>1, <1>2, <1>3 DEF DecRef

LEMMA DecRefCount ==
    ASSUME NEW owner, MemInv(owner), CountInv, NEW t \in Transients,
           DecRef(t), UNCHANGED mixinVars
    PROVE  CountInv'
<1>1. PICK W : Releases(t, W)
  BY DecRefReleases
<1> QED
  BY <1>1, ReleaseCount DEF mixinVars

\* Thread t has a new root r: an empty leaf, or an inner node whose slots are right.
Roots(t, r, new, d) ==
    /\ r \in NodeId /\ Allocates(r, {}) /\ items' = [items EXCEPT ![r] = new]
    /\ Makes({r}, d) /\ refs' = Counted({r}, {}) /\ Waits(t)
    /\ stack[t] = <<>> /\ stack'[t] = <<>> /\ UNCHANGED op
    /\ pc'[t] \notin {"replace", "split"}

LEMMA NewRootCount ==
    ASSUME NEW owner, MemInv(owner), CountInv, NEW t \in Transients,
           NEW r, NEW new, NEW d, Roots(t, r, new, d),
           Listens(t), \A n \in NodeId \ {r} : meta'[n] = meta[n],
           delta'[t].children \in Int, rightInfo'[t].children \in Int,
           d > 1 => Arrayed(r)' /\ \A k \in 1 .. Len(items'[r]) : Known(r, k)'
    PROVE  CountInv'
<1> USE DEF Roots
<1>0. Memory /\ r \in FreeNodes /\ Loose(r)
  <2>1. Memory /\ r \in FreeNodes
    BY DEF MemInv, Allocates
  <2> QED  BY <2>1, FreeFacts DEF Loose
<1>1. PICK W : W = {r}
  OBVIOUS
<1>2. /\ depth'[r] = d /\ \A n \in NodeId \ {r} :
           /\ items'[n] = items[n] /\ depth'[n] = depth[n] /\ refs'[n] = refs[n]
           /\ (persistent'[n] => persistent[n])
  BY <1>0 DEF Makes, Counted, Memory, TypeOK, NodesOK
<1>3. Changes(owner, t, W)
  BY <1>0, <1>1, <1>2 DEF Changes
<1>4. Fills(W)
  BY <1>1, <1>2 DEF Fills
<1>5. Settles(t, W)
  <2> SUFFICES ASSUME NEW n \in NodeId \ W, refs[n] > 0, depth[n] > 1,
                      NEW k \in 1 .. Len(items[n]),
                      (Due(t, n, k) /\ ~persistent[n]) \/ items[n][k] \in W
               PROVE  FALSE
    BY DEF Settles
  <2>1. items[n][k] \in Children(n)
    BY DEF Children
  <2>2. Placed(items[n][k])
    BY <2>1 DEF Placed
  <2> QED  BY <1>0, <1>1, <2>2 DEF Loose, Due
<1>6. Truthful(t)'
  BY DEF Truthful
<1> QED
  BY <1>3, <1>4, <1>5, <1>6, CountStep

\* The last element goes, or the tree is new or cleared: an empty leaf has no array.
LEMMA EmptyRootRoots ==
    ASSUME NEW owner, MemInv(owner), NEW t \in Transients,
           RootErase(t) \/ (Resting(t) /\ Empties(t))
    PROVE  \E r : Roots(t, r, <<>>, 1)
<1>0. Memory
  BY DEF MemInv
<1>1. PICK r \in NodeId :
         /\ Allocates(r, {})
         /\ items' = [items EXCEPT ![r] = <<>>]
         /\ Makes({r}, 1)
         /\ refs' = Counted({r}, {})
         /\ root' = [root EXCEPT ![t] = r]
  BY DEF RootErase, Empties
<1>2. /\ Waits(t) /\ pc'[t] \notin {"replace", "split"}
      /\ stack[t] = <<>> /\ stack'[t] = <<>> /\ UNCHANGED op
  <2>1. CASE RootErase(t)
    BY <1>0, <1>1, <2>1, PersistentRoots DEF RootErase, AtRoot, Complete, Drops, Waits, Memory,
                                             TypeOK, ControlOK, ResultOK, ChoresOK
  <2>2. CASE Resting(t) /\ Empties(t)
    <3>1. ptr[t] = Nil /\ right[t] = Nil /\ pc[t] = "idle" /\ stack[t] = <<>>
      BY <2>2, HandsEmpty DEF Resting
    <3> QED
      BY <1>0, <1>1, <2>2, <3>1, PersistentRoots DEF Empties, control, result, Drops, Waits,
         Memory, TypeOK, ControlOK, ResultOK, ChoresOK
  <2> QED  BY <2>1, <2>2
<1> QED
  BY <1>1, <1>2 DEF Roots

LEMMA EmptyRootCount ==
    ASSUME NEW owner, MemInv(owner), CountInv, MetaOK, NEW t \in Transients,
           \/ /\ RootErase(t)
              /\ Tells(t, NoInfo) /\ rightInfo' = [rightInfo EXCEPT ![t] = NoInfo]
              /\ UNCHANGED meta
           \/ Resting(t) /\ Empties(t) /\ UNCHANGED mixinVars
    PROVE  CountInv'
<1>1. PICK new, d : new = <<>> /\ d = 1
  OBVIOUS
<1>2. PICK r : Roots(t, r, new, d)
  BY <1>1, EmptyRootRoots
<1>3. /\ Listens(t) /\ delta'[t].children \in Int /\ rightInfo'[t].children \in Int
      /\ UNCHANGED meta
  <2>1. /\ delta[t].children \in Int /\ rightInfo[t].children \in Int
        /\ NoInfo.children = 0
    BY DEF CountInv, Truthful, NoInfo, Info
  <2> QED  BY <2>1 DEF Tells, MetaOK, Listens, mixinVars
<1>4. ~(d > 1)
  BY <1>1
<1> QED
  BY <1>2, <1>3, <1>4, NewRootCount

\* A new root above two halves takes over what the thread was told of them.
LEMMA RootSplitRoots ==
    ASSUME NEW owner, MemInv(owner), NEW t \in Transients, RootSplit(t)
    PROVE  \E r, left, new, d :
             /\ Roots(t, r, new, d) /\ root'[t] = r
             /\ new = <<left, right[t]>> /\ d = depth[root[t]] + 1
             /\ left \in NodeId \ {r} /\ right[t] \in NodeId \ {r}
             /\ pc[t] = "split" /\ Tip(t) = left /\ depth[root[t]] < MaxDepth
<1>0. PICK left, d : /\ left = (IF ptr[t] = Nil THEN root[t] ELSE ptr[t])
                     /\ d = depth[root[t]] + 1
  OBVIOUS
<1>1. PICK r \in NodeId :
         /\ Allocates(r, {})
         /\ items' = [items EXCEPT ![r] = <<left, right[t]>>]
         /\ Makes({r}, d)
         /\ refs' = Counted({r}, {})
         /\ root' = [root EXCEPT ![t] = r]
  BY <1>0 DEF RootSplit
<1>2. /\ pc[t] = "split" /\ ~Busy(t) /\ stack[t] = <<>> /\ depth[root[t]] < MaxDepth
      /\ \E p : Drops(t, p) /\ Complete(t, "done")
      /\ UNCHANGED <<op, at, rightMost, stack, dying, marking>>
  BY DEF RootSplit, AtRoot
<1>3. Memory
  BY DEF MemInv
<1>4. pc'[t] = "done" /\ Waits(t) /\ root'[t] = r
  <2>1. root'[t] = r /\ \A u \in Transients \ {t} : root'[u] = root[u]
    BY <1>1, <1>3, PersistentRoots
  <2> QED
    BY <1>2, <1>3, <2>1 DEF Complete, Drops, Waits, Memory, TypeOK, ControlOK, ResultOK, ChoresOK
<1>5. right[t] \in NodeId /\ left \in NodeId /\ t \in Handle
  <2>1. root[t] \in NodeId
    BY <1>2, <1>3, RootIsNode DEF Memory
  <2> QED
    BY <1>0, <1>2, <1>3, <2>1 DEF Memory, TypeOK, NodesOK, ResultOK, PhaseOK, Pointer, Handle
<1>6. r # left /\ r # right[t]
  <2>1. r \in FreeNodes
    BY <1>1 DEF Allocates
  <2> QED  BY <1>0, <1>3, <1>5, <2>1, FreeFacts DEF Placed
<1>7. Tip(t) = left
  BY <1>0, <1>2 DEF Tip
<1>8. PICK new : new = <<left, right[t]>>
  OBVIOUS
<1>9. Roots(t, r, new, d)
  BY <1>1, <1>2, <1>4, <1>8 DEF Roots
<1> QED
  BY <1>0, <1>2, <1>4, <1>5, <1>6, <1>7, <1>8, <1>9

LEMMA RootSplitCount ==
    ASSUME NEW owner, MemInv(owner), CountInv, MetaOK, NEW t \in Transients,
           RootSplit(t), meta' = [meta EXCEPT ![root'[t]] = <<delta[t], rightInfo[t]>>],
           Tells(t, NoInfo), rightInfo' = [rightInfo EXCEPT ![t] = NoInfo]
    PROVE  CountInv'
<1>1. PICK r, left, new, d :
         /\ Roots(t, r, new, d) /\ root'[t] = r
         /\ new = <<left, right[t]>> /\ d = depth[root[t]] + 1
         /\ left \in NodeId \ {r} /\ right[t] \in NodeId \ {r}
         /\ pc[t] = "split" /\ Tip(t) = left /\ depth[root[t]] < MaxDepth
  BY RootSplitRoots
<1>2. PICK info : info = <<delta[t], rightInfo[t]>>
  OBVIOUS
<1>3. Memory /\ Truthful(t)
  BY DEF MemInv, CountInv
<1>4. \A n \in NodeId \ {r} : items'[n] = items[n] /\ depth'[n] = depth[n] /\ meta'[n] = meta[n]
  BY <1>1, <1>3 DEF Roots, MetaOK, Makes, Memory, TypeOK, NodesOK
<1>5. items'[r] = <<left, right[t]>> /\ meta'[r] = info
  <2>1. items'[r] = <<left, right[t]>>
    BY <1>1, <1>3 DEF Roots, Memory, TypeOK, NodesOK
  <2> QED  BY <1>1, <1>2, <2>1 DEF Roots, MetaOK
<1>6. /\ Count(left)' = Count(left) /\ Count(right[t]) = rightInfo[t].children
      /\ Count(left) = delta[t].children
      /\ \A c \in NodeId \ {r} : Count(c)' = Count(c)
  <2>1. \A c \in NodeId \ {r} : Count(c)' = Count(c)
    BY <1>4 DEF Count
  <2> QED  BY <1>1, <1>3, <2>1 DEF Truthful
<1>7. Len(info) = 2 /\ info[1] = delta[t] /\ info[2] = rightInfo[t]
  BY <1>2
<1>8. Arrayed(r)'
  <2>1. info \in Seq({delta[t], rightInfo[t]})
    BY <1>2
  <2>2. Numbers(info)
    <3>1. delta[t].children \in Int /\ rightInfo[t].children \in Int
      BY <1>3 DEF Truthful
    <3> QED  BY <1>7, <3>1 DEF Numbers
  <2>3. Entries(info)
    BY <2>1, <2>2 DEF Entries
  <2>4. Len(items'[r]) = 2
    BY <1>5
  <2> QED  BY <1>5, <1>7, <2>3, <2>4 DEF Arrayed
<1>9. \A k \in 1 .. Len(items'[r]) : Known(r, k)'
  <2>1. PICK its, ms, c2 : its = items'[r] /\ ms = meta'[r] /\ c2 = right[t]
    OBVIOUS
  <2>2. its = <<left, c2>> /\ Len(its) = 2 /\ its[1] = left /\ its[2] = c2
    BY <1>5, <2>1
  <2>3. ms[1].children = Count(left)'
    BY <1>5, <1>6, <1>7, <2>1
  <2>4. ms[2].children = Count(c2)'
    BY <1>1, <1>5, <1>6, <1>7, <2>1
  <2>5. Known(r, 1)' /\ Known(r, 2)'
    BY <2>1, <2>2, <2>3, <2>4 DEF Known, Count
  <2> QED  BY <2>1, <2>2, <2>5
<1>10. Listens(t) /\ delta'[t].children \in Int /\ rightInfo'[t].children \in Int
  BY DEF Tells, MetaOK, Listens, NoInfo, Info
<1> QED
  BY <1>1, <1>4, <1>8, <1>9, <1>10, NewRootCount

\* persistent(): the thread goes on to mark the nodes of its tree.
LEMMA PersistRests ==
    ASSUME NEW owner, MemInv(owner), NEW t \in Transients, Persist(t) \/ PersistMove(t)
    PROVE  Rests(owner, t) /\ stack[t] = <<>> /\ stack'[t] = <<>>
<1> DEFINE r == root[t]
<1>0. /\ pc[t] = "idle" /\ ~Busy(t) /\ r # Nil
      /\ ptr' = [ptr EXCEPT ![t] = r]
      /\ marking' = [marking EXCEPT ![t] = <<r>>]
      /\ pc' = [pc EXCEPT ![t] = "persist"]
      /\ UNCHANGED <<items, depth, persistent, op, at, rightMost, stack, right, drop, dying>>
  BY DEF Persist, PersistMove, StartsMarking, Resting
<1>1. Memory /\ stack[t] = <<>>
  BY <1>0, HandsEmpty
<1>2. \/ refs' = Counted({}, {r}) /\ root' = root
      \/ refs' = refs /\ root' = [root EXCEPT ![t] = Nil]
  BY DEF Persist, PersistMove
<1>3. \A u \in Transients \ {t} : root'[u] = root[u]
  BY <1>1, <1>2, PersistentRoots
<1>4. pc'[t] = "persist" /\ Waits(t)
  BY <1>0, <1>1, <1>3 DEF Waits, Memory, TypeOK, ControlOK, ResultOK, ChoresOK
<1>5. \A n \in NodeId : refs'[n] > 0 => refs[n] > 0
  <2>1. r \in NodeId => refs[r] > 0
    BY <1>1, AliveNow DEF Placed, Handle
  <2> QED  BY <1>2, <2>1 DEF Counted
<1> QED
  BY <1>0, <1>1, <1>4, <1>5 DEF Rests

\* A call on an object changes which roots there are, and no array.
LEMMA MakeCallRests ==
    ASSUME NEW owner, MemInv(owner), NEW t \in Transients, MakeCall(t)
    PROVE  \/ Rests(owner, t) /\ stack[t] = <<>> /\ stack'[t] = <<>>
           \/ Resting(t) /\ Empties(t)
<1>0. Memory /\ t \notin Persistents
  BY TreeAssumption DEF MemInv
<1>1. CASE New(t) \/ Clear(t)
  BY <1>1 DEF New, Clear
<1>2. CASE Persist(t) \/ PersistMove(t)
  BY <1>2, PersistRests
<1>3. ASSUME Resting(t)
      PROVE  pc[t] = "idle" /\ stack[t] = <<>>
  BY <1>3, HandsEmpty DEF Resting
<1>4. ASSUME NEW p \in Persistents, NEW h \in {t} \cup Persistents, Resting(t), Copies(t, p, h)
      PROVE  Rests(owner, t) /\ stack[t] = <<>> /\ stack'[t] = <<>>
  <2>1. /\ root[p] # Nil /\ root' = [root EXCEPT ![h] = root[p]]
        /\ refs' = Counted({}, {root[p]}) /\ drop' = [drop EXCEPT ![t] = root[h]]
        /\ UNCHANGED <<items, depth, persistent, pc, op, at, rightMost, stack, ptr, right, dying,
                       marking>>
    BY <1>4 DEF Copies, Drops, control, result
  <2>2. \A u \in Transients \ {t} : root'[u] = root[u]
    BY <1>0, <2>1, TreeAssumption DEF Memory, TypeOK, TreesOK, Handle
  <2>3. \A n \in NodeId : refs'[n] > 0 => refs[n] > 0
    BY <2>1, RootShared DEF Counted
  <2>4. Waits(t)
    BY <1>0, <2>1, <2>2 DEF Waits, Memory, TypeOK, ChoresOK
  <2> QED  BY <1>3, <1>4, <2>1, <2>3, <2>4 DEF Rests
<1>5. ASSUME NEW p \in Persistents, ThawMove(t, p)
      PROVE  Rests(owner, t) /\ stack[t] = <<>> /\ stack'[t] = <<>>
  <2>1. /\ Resting(t) /\ root' = [root EXCEPT ![t] = root[p], ![p] = Nil]
        /\ UNCHANGED <<items, depth, persistent, refs, pc, op, at, rightMost, stack, ptr, right,
                       drop, dying, marking>>
    BY <1>5 DEF ThawMove, nodes, control, result, chores
  <2>2. \A u \in Transients \ {t} : root'[u] = root[u]
    BY <1>0, <2>1, TreeAssumption DEF Memory, TypeOK, TreesOK, Handle
  <2>3. Waits(t)
    BY <2>1, <2>2 DEF Waits
  <2> QED  BY <1>3, <2>1, <2>3 DEF Rests
<1>6. ASSUME NEW h \in {t} \cup Persistents, Drop(t, h)
      PROVE  Rests(owner, t) /\ stack[t] = <<>> /\ stack'[t] = <<>>
  <2>1. /\ Resting(t) /\ root' = [root EXCEPT ![h] = Nil]
        /\ drop' = [drop EXCEPT ![t] = root[h]]
        /\ UNCHANGED <<items, depth, persistent, refs, pc, op, at, rightMost, stack, ptr, right,
                       dying, marking>>
    BY <1>6 DEF Drop, Drops, nodes, control, result
  <2>2. \A u \in Transients \ {t} : root'[u] = root[u]
    BY <1>0, <2>1, TreeAssumption DEF Memory, TypeOK, TreesOK, Handle
  <2>3. Waits(t)
    BY <1>0, <2>1, <2>2 DEF Waits, Memory, TypeOK, ChoresOK
  <2> QED  BY <1>3, <2>1, <2>3 DEF Rests
<1> QED
  BY <1>1, <1>2, <1>4, <1>5, <1>6 DEF MakeCall, Thaw, Copy

LEMMA MakeCallCount ==
    ASSUME NEW owner, MemInv(owner), CountInv, MetaOK, NEW t \in Transients,
           MakeCall(t), UNCHANGED mixinVars
    PROVE  CountInv'
<1>1. Rests(owner, t) \/ (Resting(t) /\ Empties(t))
  BY MakeCallRests
<1> QED
  BY <1>1, EmptyRootCount, IdleCount DEF mixinVars

-----------------------------------------------------------------------------
(* Every step *)

\* There is no node at the start, and nothing to tell.
LEMMA CountInit == MInit => CountInv
<1> SUFFICES ASSUME MInit PROVE CountInv
  OBVIOUS
<1>1. /\ \A n \in NodeId : refs[n] = 0
      /\ \A t \in Transients : /\ pc[t] = "idle" /\ delta[t] = NoInfo /\ rightInfo[t] = NoInfo
  BY DEF MInit, Init
<1>2. Arrays
  BY <1>1 DEF Arrays
<1>3. \A t \in Transients : Truthful(t)
  BY <1>1 DEF Truthful, NoInfo, Info
<1> QED
  BY <1>2, <1>3 DEF CountInv

\* The leaf tells of its change.
LEMMA LeafStepCount ==
    ASSUME NEW owner, MemInv(owner), CountInv, MetaOK, NEW t \in Transients,
           NEW i \in 0 .. LeafSize, NEW v \in Values,
           MLeafInsert(t, i, v) \/ MLeafAssign(t, i, v)
    PROVE  CountInv'
<1>1. CASE MLeafInsert(t, i, v)
  BY <1>1, LeafInsertCount, LeafSplitCount DEF MLeafInsert
<1>2. CASE MLeafAssign(t, i, v)
  BY <1>2, LeafAssignCount DEF MLeafAssign
<1> QED
  BY <1>1, <1>2

\* The leaf loses a value, or is to go with its only one.
LEMMA LeafGoesCount ==
    ASSUME NEW owner, MemInv(owner), CountInv, MetaOK, NEW t \in Transients,
           NEW i \in 0 .. LeafSize, MLeafErase(t, i)
    PROVE  CountInv'
<1>1. CASE LeafEraseOnly(t, i) /\ UNCHANGED mixinVars
  BY <1>1, WalkStepCount
<1>2. CASE /\ LeafErase(t, i) /\ UNCHANGED <<meta, rightInfo>>
           /\ \E junk : Tells(t, EraseDelta(at[t], i, junk))
  BY <1>2, LeafEraseCount
<1> QED
  BY <1>1, <1>2 DEF MLeafErase

\* A continuation brings the arrays of its node up to date.
LEMMA AscendCount ==
    ASSUME NEW owner, MemInv(owner), CountInv, MetaOK, NEW t \in Transients, MAscend(t)
    PROVE  CountInv'
<1>0. PICK n, i, u : n = Frame(t).node /\ i = Frame(t).index /\ u = delta[t]
  OBVIOUS
<1>1. CASE /\ InternalReplace(t)
           /\ Keeps(t, n, ReplaceItem(meta[n], i, Added(meta[n][i + 1], u)), ReplaceDelta(n, i, u))
  BY <1>0, <1>1, InternalReplaceCount
<1>2. CASE /\ InternalInsert(t)
           /\ Keeps(t, n, Halves(t), SplitDelta(n, i, delta[t], rightInfo[t]))
  BY <1>0, <1>2, InternalInsertCount
<1>3. CASE /\ InternalSplit(t)
           /\ LET sp == InternalSplitPoint(i, Frame(t).rightMost)
              IN  meta' = [meta EXCEPT ![NewVersion(t, n)] = LeftPart(Halves(t), sp),
                                       ![right'[t]] = RightPart(Halves(t), sp)]
           /\ TellsHalves(t, n)
  BY <1>0, <1>3, InternalSplitCount
<1>4. CASE /\ InternalErase(t)
           /\ Keeps(t, n, EraseItem(meta[n], i), EraseInnerDelta(n, i))
  BY <1>0, <1>4, InternalEraseCount
<1>5. CASE InternalEraseOnly(t) /\ UNCHANGED mixinVars
  BY <1>5, WalkStepCount
<1> QED
  BY <1>0, <1>1, <1>2, <1>3, <1>4, <1>5 DEF MAscend

\* So does the tree object.
LEMMA AtObjectCount ==
    ASSUME NEW owner, MemInv(owner), CountInv, MetaOK, NEW t \in Transients, MAtObject(t)
    PROVE  CountInv'
  BY RootSplitCount, EmptyRootCount, RootTakesCount, SeekEndCount DEF MAtObject

\* Every step leaves every count right, or due to be set right.
LEMMA CountNext ==
    ASSUME MemoryInv, MetaOK, CountInv, [MNext]_<<vars, mixinVars>>
    PROVE  CountInv'
<1>1. PICK owner : MemInv(owner)
  BY DEF MemoryInv
<1>2. CASE MNext
  <2>1. PICK t \in Transients :
        \/ \E i \in 0 .. LeafSize :
              \/ \E v \in Values : MLeafInsert(t, i, v) \/ MLeafAssign(t, i, v)
              \/ MLeafErase(t, i)
        \/ MAscend(t)
        \/ MAtObject(t)
        \/ /\ \/ \E name \in Operations : Begin(t, name)
              \/ \E i \in 0 .. InternalSize - 1 : Descend(t, i)
              \/ LeafKeep(t)
              \/ Return(t)
              \/ MakeCall(t)
              \/ MakePersistent(t)
              \/ DecRef(t)
           /\ UNCHANGED mixinVars
    BY <1>2 DEF MNext
  <2>2. CASE \E i \in 0 .. LeafSize :
                \/ \E v \in Values : MLeafInsert(t, i, v) \/ MLeafAssign(t, i, v)
                \/ MLeafErase(t, i)
    BY <1>1, <2>2, LeafStepCount, LeafGoesCount
  <2>3. CASE MAscend(t)
    BY <1>1, <2>3, AscendCount
  <2>4. CASE MAtObject(t)
    BY <1>1, <2>4, AtObjectCount
  <2>5. CASE /\ \/ \E name \in Operations : Begin(t, name)
                \/ \E i \in 0 .. InternalSize - 1 : Descend(t, i)
                \/ LeafKeep(t)
                \/ Return(t)
             /\ UNCHANGED mixinVars
    BY <1>1, <2>5, WalkStepCount
  <2>6. CASE MakeCall(t) /\ UNCHANGED mixinVars
    BY <1>1, <2>6, MakeCallCount
  <2>7. CASE MakePersistent(t) /\ UNCHANGED mixinVars
    BY <1>1, <2>7, MakePersistentCount
  <2>8. CASE DecRef(t) /\ UNCHANGED mixinVars
    BY <1>1, <2>8, DecRefCount
  <2> QED  BY <2>1, <2>2, <2>3, <2>4, <2>5, <2>6, <2>7, <2>8
<1>3. CASE UNCHANGED <<vars, mixinVars>>
  <2>1. UNCHANGED <<items, depth, persistent, refs, root, pc, stack, ptr, right,
                    meta, delta, rightInfo>>
    BY <1>3 DEF vars, nodes, trees, control, result, mixinVars
  <2>2. \A n : Count(n)' = Count(n)
    BY <2>1 DEF Count
  <2>3. \A n : (Arrayed(n)' <=> Arrayed(n)) /\ \A k : Known(n, k)' <=> Known(n, k)
    BY <2>1, <2>2 DEF Arrayed, Known, Count
  <2>4. \A t, n, k : Due(t, n, k)' <=> Due(t, n, k)
    BY <2>1 DEF Due, Frame
  <2>5. Arrays'
    BY <2>1, <2>3, <2>4 DEF CountInv, Arrays
  <2>6. ASSUME NEW t \in Transients PROVE Truthful(t)'
    <3>1. Frame(t)' = Frame(t) /\ Tip(t)' = Tip(t) /\ right'[t] = right[t]
      BY <2>1 DEF Frame, Tip, FrameItem
    <3>2. Count(Tip(t))' = Count(Tip(t)) /\ Count(right[t])' = Count(right[t])
      BY <2>1, <2>2, <3>1 DEF Count
    <3> QED  BY <2>1, <3>1, <3>2 DEF CountInv, Truthful
  <2> QED  BY <2>5, <2>6 DEF CountInv
<1> QED
  BY <1>2, <1>3

\* Every inner node of every version of the tree knows how many elements are below each
\* of its children, at every step of every thread: InternalNode::child_counts, changed by
\* what the levels below tell and never counted, but for a slot whose continuation has
\* yet to be called.
THEOREM CountsAreExact == MSpec => []CountsExact
<1>1. MemoryInv /\ CountInv => CountsExact
  <2> SUFFICES ASSUME MemoryInv, CountInv, NEW s \in Described
               PROVE  MetaAt(s).children = Summary(ChildAt(s), items, depth, meta).children
    BY DEF CountsExact
  <2>1. PICK m \in Inner : s \in {m} \X DOMAIN items[m]
    BY DEF Described, PointerSlots
  <2>2. PICK k \in DOMAIN items[m] : s[1] = m /\ s[2] = k
    BY <2>1
  <2>3. /\ m \in NodeId /\ depth[m] > 1 /\ refs[m] > 0
        /\ persistent[m] \/ Settled(m, k)
    BY <2>2 DEF Described, Inner
  <2>4. k \in 1 .. Len(items[m])
    <3>1. Memory
      BY DEF MemoryInv, MemInv
    <3>2. items[m] \in Seq(NodeId)
      BY <2>3, <3>1 DEF Memory, TypeOK, NodesOK
    <3> QED  BY <3>2, LenProperties
  <2>5. ASSUME Settled(m, k) PROVE ~\E t \in Transients : Due(t, m, k)
    <3> SUFFICES ASSUME NEW t \in Transients, Due(t, m, k) PROVE FALSE
      OBVIOUS
    <3>1. stack[t] # <<>> /\ stack[t] \in Seq(FrameSet) /\ Frame(t) = stack[t][Len(stack[t])]
      BY DEF Due, Frame, MemoryInv, MemInv, Memory, TypeOK, ControlOK
    <3>2. Len(stack[t]) \in 1 .. Len(stack[t])
      BY <3>1, EmptySeq, LenProperties
    <3> QED  BY <2>5, <3>1, <3>2 DEF Settled, Due
  <2>6. Known(m, k)
    BY <2>3, <2>4, <2>5 DEF CountInv, Arrays
  <2>7. Summary(items[m][k], items, depth, meta).children = Count(items[m][k])
    <3>1. PICK c : c = items[m][k]
      OBVIOUS
    <3>2. CASE depth[c] = 1
      BY <3>1, <3>2 DEF Summary, LeafSummary, Info, Count
    <3>3. CASE depth[c] # 1
      BY <3>1, <3>3, SummaryInner DEF Count
    <3> QED  BY <3>2, <3>3
  <2> QED  BY <2>2, <2>6, <2>7 DEF Known, MetaAt, ChildAt
<1>2. MSpec => [](MemoryInv /\ MetaOK)
  BY MixinsImplementTree, MemoryAlways, MetaType, PTL
<1>3. MSpec => []CountInv
  BY <1>2, CountInit, CountNext, PTL DEF MSpec
<1> QED
  BY <1>1, <1>2, <1>3, PTL

=============================================================================
