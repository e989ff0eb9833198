-------------------------- MODULE LeafSlots_proofs --------------------------
(***************************************************************************)
(* That a leaf which may be shared is not written, which slots of a leaf   *)
(* have values while the loops run, and that the loops compute what        *)
(* NodeOps says, for all capacities, values and calls.                     *)
(*                                                                         *)
(* The loops put the values of the new contents where they belong, their   *)
(* homes, one at a time.  In every loop but the one that trims a split     *)
(* leaf, the slots with values are those the leaf had and the homes of the *)
(* values placed so far; no home is used twice, so what a loop constructs  *)
(* is constructed in raw memory.                                           *)
(*                                                                         *)
(* A value is settled when it is in its home for good, and on the list of  *)
(* those to do while the leaf still has it where the call found it.        *)
(***************************************************************************)
EXTENDS LeafSlots, NodeOps_proofs

-----------------------------------------------------------------------------
(* A leaf that may be shared *)

\* The slots of all leaves: to store in a slot what it holds changes nothing.
IsArrays(f) == f = [a \in Leaf |-> [k \in Index |-> f[a][k]]]

\* Storing anything anywhere leaves an array an array.
LEMMA Stored ==
  ASSUME NEW f, IsArrays(f), NEW b, NEW j, NEW v,
         NEW g, g = [f EXCEPT ![b][j] = v]
  PROVE  IsArrays(g)
  BY DEF IsArrays

\* To store what is there changes nothing.
LEMMA StoredSame ==
  ASSUME NEW f, IsArrays(f), NEW b \in Leaf, NEW j,
         NEW g, g = [f EXCEPT ![b][j] = f[b][j]]
  PROVE  g[b] = f[b]
  BY DEF IsArrays

\* Moving a value from the leaf to a place in another: what the leaf keeps is
\* what it had, if it is copied from.
LEMMA TransfersFrom ==
  ASSUME IsArrays(slots), NEW j, NEW a, NEW k, Transfers(j, a, k)
  PROVE  /\ IsArrays(slots')
         /\ persistent /\ a # "self" => slots'["self"] = slots["self"]
<1>1. PICK mid : mid = [slots EXCEPT !["self"][j] = LeavesBehind(j)]
  OBVIOUS
<1>2. slots' = [mid EXCEPT ![a][k] = slots["self"][j]]
  BY <1>1, Zenon DEF Transfers
<1>3. IsArrays(mid)
  BY <1>1, Stored
<1>4. IsArrays(slots') /\ \A c \in Leaf : c # a => slots'[c] = mid[c]
  <2>1. PICK new : new = [mid EXCEPT ![a][k] = slots["self"][j]]
    OBVIOUS
  <2>2. IsArrays(new)
    BY <1>3, <2>1, Stored
  <2>3. \A c \in Leaf : c # a => new[c] = mid[c]
    BY <1>3, <2>1 DEF IsArrays
  <2> QED BY <1>2, <2>1, <2>2, <2>3
<1>5. ASSUME persistent PROVE mid["self"] = slots["self"]
  <2>1. mid = [slots EXCEPT !["self"][j] = slots["self"][j]]
    BY <1>1, <1>5 DEF LeavesBehind
  <2> QED BY <2>1, StoredSame DEF Leaf
<1> QED BY <1>4, <1>5 DEF Leaf

LEMMA DestructsIn ==
  ASSUME IsArrays(slots), NEW a, NEW k, Destructs(a, k)
  PROVE  IsArrays(slots') /\ (a # "self" => slots'["self"] = slots["self"])
<1>1. slots' = [slots EXCEPT ![a][k] = Raw]
  BY DEF Destructs
<1>2. IsArrays(slots') /\ \A c \in Leaf : c # a => slots'[c] = slots[c]
  <2>1. PICK new : new = [slots EXCEPT ![a][k] = Raw]
    OBVIOUS
  <2>2. IsArrays(new)
    BY <2>1, Stored
  <2>3. \A c \in Leaf : c # a => new[c] = slots[c]
    BY <2>1 DEF IsArrays
  <2> QED BY <1>1, <2>1, <2>2, <2>3
<1> QED BY <1>2 DEF Leaf


-----------------------------------------------------------------------------
(* The leaf while it is persistent *)

\* The lengths of all leaves.
IsLengths == length = [a \in Leaf |-> length[a]]

Shaped == IsArrays(slots) /\ IsLengths

\* A step keeps the leaf, if it is persistent before and after.
Kept == persistent /\ persistent' =>
          slots'["self"] = slots["self"] /\ length'["self"] = length["self"]

\* A step of a loop or a call that leaves the lengths alone.
LEMMA LengthsLeft ==
  ASSUME IsLengths, UNCHANGED length
  PROVE  IsLengths' /\ length'["self"] = length["self"]
  BY DEF IsLengths

\* The values a persistent leaf has go to the new ones.
LEMMA Homes ==
  ASSUME persistent, NEW k
  PROVE  HomeOf(k)[1] # "self" /\ Dst # "self"
  BY DEF HomeOf, Dst

LEMMA HomeTransfer ==
  ASSUME Shaped, NEW j, NEW k, TransfersHome(j, k), UNCHANGED length
  PROVE  Shaped' /\ Kept
<1>1. PICK a, b : a = HomeOf(k)[1] /\ b = HomeOf(k)[2]
  OBVIOUS
<1>2. Transfers(j, a, b)
  BY <1>1 DEF TransfersHome
<1>3. IsArrays(slots') /\ (persistent /\ a # "self" => slots'["self"] = slots["self"])
  BY <1>2, TransfersFrom DEF Shaped
<1>4. persistent => a # "self"
  BY <1>1, Homes
<1> QED BY <1>3, <1>4, LengthsLeft DEF Shaped, Kept

\* A step that writes no slot and no length.
LEMMA Untouched ==
  ASSUME Shaped, UNCHANGED <<slots, length>>
  PROVE  Shaped' /\ Kept
  BY DEF Shaped, IsLengths, Kept

LEMMA ShiftStep == ASSUME Shaped, Shift PROVE Shaped' /\ Kept
<1>1. CASE i > call.index
  BY <1>1, HomeTransfer DEF Shift
<1>2. CASE ~(i > call.index)
  BY <1>2, Untouched DEF Shift, Continues
<1> QED BY <1>1, <1>2

LEMMA CloneStep == ASSUME Shaped, Clone PROVE Shaped' /\ Kept
<1>1. CASE i < length["self"]
  <2>1. Transfers(i, "left", i) /\ UNCHANGED length
    BY <1>1 DEF Clone
  <2>2. IsArrays(slots') /\ (persistent => slots'["self"] = slots["self"])
    BY <2>1, TransfersFrom DEF Shaped
  <2> QED BY <2>1, <2>2, LengthsLeft DEF Shaped, Kept
<1>2. CASE ~(i < length["self"])
  <2>1. UNCHANGED slots /\ length' = [length EXCEPT !["left"] = length["self"]]
    BY <1>2 DEF Clone, Continues
  <2> QED BY <2>1 DEF Shaped, IsLengths, Kept, Leaf
<1> QED BY <1>1, <1>2

LEMMA EmplaceStep == ASSUME Shaped, Emplace PROVE Shaped' /\ Kept
<1>1. PICK a, k, v : /\ a = HomeOf(call.index)[1]
                     /\ slots' = [slots EXCEPT ![a][k] = v]
  BY DEF Emplace
<1>2. IsArrays(slots') /\ (a # "self" => slots'["self"] = slots["self"])
  <2>1. PICK new : new = [slots EXCEPT ![a][k] = v]
    OBVIOUS
  <2>2. IsArrays(new)
    BY <2>1, Stored DEF Shaped
  <2>3. a # "self" => new["self"] = slots["self"]
    BY <2>1 DEF Shaped, IsArrays, Leaf
  <2> QED BY <1>1, <2>1, <2>2, <2>3
<1>3. persistent => a # "self"
  BY <1>1, Homes
<1>4. UNCHANGED length
  BY DEF Emplace
<1> QED BY <1>2, <1>3, <1>4, LengthsLeft DEF Shaped, Kept

LEMMA PrefixStep == ASSUME Shaped, Prefix PROVE Shaped' /\ Kept
<1>1. CASE i < call.index
  BY <1>1, HomeTransfer DEF Prefix
<1>2. CASE ~(i < call.index)
  BY <1>2, Untouched DEF Prefix, Continues
<1> QED BY <1>1, <1>2

\* Destroying a value of the leaf that is made or changed.
LEMMA DestructStep ==
  ASSUME Shaped, NEW k, Destructs(Dst, k), UNCHANGED length
  PROVE  Shaped' /\ Kept
<1>1. IsArrays(slots') /\ (Dst # "self" => slots'["self"] = slots["self"])
  BY DestructsIn DEF Shaped
<1>2. persistent => Dst # "self"
  BY DEF Dst
<1> QED BY <1>1, <1>2, LengthsLeft DEF Shaped, Kept

LEMMA TrimStep == ASSUME Shaped, Trim PROVE Shaped' /\ Kept
<1>1. CASE i < TrimEnd
  BY <1>1, DestructStep DEF Trim
<1>2. CASE ~(i < TrimEnd)
  BY <1>2, Untouched DEF Trim, Continues
<1> QED BY <1>1, <1>2

LEMMA CloseStep == ASSUME Shaped, Close PROVE Shaped' /\ Kept
<1>1. CASE i < length["self"]
  <2>1. Transfers(i, Dst, i - 1) /\ UNCHANGED length
    BY <1>1 DEF Close
  <2>2. /\ IsArrays(slots')
        /\ persistent /\ Dst # "self" => slots'["self"] = slots["self"]
    BY <2>1, TransfersFrom DEF Shaped
  <2>3. persistent => Dst # "self"
    BY DEF Dst
  <2> QED BY <2>1, <2>2, <2>3, LengthsLeft DEF Shaped, Kept
<1>2. CASE ~(i < length["self"]) /\ ClosesGap
  BY <1>2, DestructStep DEF Close
<1>3. CASE ~(i < length["self"]) /\ ~ClosesGap
  BY <1>3, Untouched DEF Close
<1> QED BY <1>1, <1>2, <1>3

LEMMA ThrowStep == ASSUME Shaped, Throw PROVE Shaped' /\ Kept
<1>1. slots' = [slots EXCEPT !["left"] = Blank, !["right"] = Blank]
  BY DEF Throw
<1>2. IsArrays(slots') /\ slots'["self"] = slots["self"]
  BY <1>1 DEF Shaped, IsArrays, Leaf, Blank
<1> QED BY <1>2, LengthsLeft DEF Throw, Shaped, Kept

LEMMA FinishStep == ASSUME Shaped, Finish PROVE Shaped' /\ Kept
<1>1. /\ NewLengths = [a \in Leaf |-> NewLengths[a]]
      /\ persistent => NewLengths["self"] = length["self"]
  <2>1. PICK m, n :
          \/ NewLengths = [length EXCEPT ![Dst] = m, !["right"] = n]
          \/ NewLengths = [length EXCEPT ![Dst] = m]
          \/ NewLengths = length
    <3>1. CASE Splits
      BY <3>1 DEF NewLengths, Splits
    <3>2. CASE call.name = "insert" /\ ~Splits
      BY <3>2 DEF NewLengths
    <3>3. CASE call.name = "assign"
      BY <3>3 DEF NewLengths, Splits
    <3>4. CASE call.name \notin {"insert", "assign"}
      BY <3>4 DEF NewLengths, Splits
    <3> QED BY <3>1, <3>2, <3>3, <3>4
  <2> QED BY <2>1 DEF Shaped, IsLengths, Dst, Leaf
<1> QED BY <1>1 DEF Finish, Shaped, IsLengths, Kept

LEMMA TakeStep == ASSUME Shaped, NEW a \in Results, Take(a) PROVE Shaped' /\ Kept
<1>1. ~(persistent /\ persistent')
  BY DEF Take, Results, Dst
<1>2. IsLengths'
  BY DEF Take, IsLengths
<1>3. IsArrays(slots')
  <2>1. a \in Leaf
    BY DEF Results, Dst, Leaf
  <2> QED BY <2>1 DEF Take, Shaped, IsArrays, Blank
<1> QED BY <1>1, <1>2, <1>3 DEF Shaped, Kept

LEMMA NewLeafStep == ASSUME Shaped, NewLeaf PROVE Shaped' /\ Kept
  BY DEF NewLeaf, Shaped, IsArrays, IsLengths, Kept, Blank

\* Only its destructor touches a persistent leaf.
LEMMA DestroyStep ==
  ASSUME Shaped, DestroySlot
  PROVE  Shaped' /\ phase = "destroy"
<1>1. CASE i < length["self"]
  <2>1. Destructs("self", i)
    BY <1>1 DEF DestroySlot
  <2> QED BY <2>1, DestructsIn, LengthsLeft DEF DestroySlot, Shaped
<1>2. CASE ~(i < length["self"])
  BY <1>2, Untouched DEF DestroySlot, Continues
<1> QED BY <1>1, <1>2

\* Every step keeps the shapes, and a leaf that is persistent before and after
\* and not being destroyed.
LEMMA NextKeeps ==
  ASSUME Shaped, [Next]_vars
  PROVE  Shaped' /\ (phase \notin {"destroy", "freed"} => Kept)
<1>1. ASSUME NEW c \in Requests, Begin(c) PROVE Shaped' /\ Kept
  BY <1>1, Untouched DEF Begin
<1>2. CASE MakePersistent \/ Destroy \/ UNCHANGED vars
  BY <1>2, Untouched DEF MakePersistent, Destroy, vars
<1> QED
  BY <1>1, <1>2, ShiftStep, CloneStep, EmplaceStep, PrefixStep, TrimStep,
     CloseStep, ThrowStep, FinishStep, TakeStep, NewLeafStep, DestroyStep
  DEF Next

\* A leaf marked persistent is only read until its destructor runs, for all
\* capacities, values and calls: insert_index, assign2 and erase fill new leaves.
THEOREM SharedLeafUntouched == Spec => PersistentUntouched
<1>1. Init => Shaped
  BY DEF Init, Shaped, IsArrays, IsLengths, Blank
<1>2. Shaped /\ [Next]_vars => Shaped'
  BY NextKeeps
<1>3. Shaped /\ [Next]_vars =>
        [persistent /\ phase \notin {"destroy", "freed"} /\ persistent' =>
           slots'["self"] = slots["self"] /\ length'["self"] = length["self"]]_vars
  BY NextKeeps DEF Kept
<1> QED BY <1>1, <1>2, <1>3, PTL DEF Spec, PersistentUntouched

-----------------------------------------------------------------------------
(* The invariant *)

\* A call is running: it has begun, and the tree has not yet got its result.
Running == phase \notin {"idle", "done", "destroy", "freed"}

\* The leaf as it was when the call began, where a loop is still to read it.
CallFits ==
    /\ call.name \in {"insert", "assign", "erase", "pop_back"}
    /\ call.index \in 0 .. length["self"]
    /\ call.name \in {"assign", "erase"} => call.index < length["self"]
    /\ call.name \in {"erase", "pop_back"} => length["self"] > 1
    /\ call.name = "pop_back" => call.index = length["self"]
    /\ call.rightMost \in BOOLEAN
    /\ Len(before) = length["self"]
    /\ length["right"] = 0
    /\ length["left"] =
         IF call.name = "assign" /\ persistent /\ phase \in {"emplace", "finish"}
           THEN length["self"] ELSE 0

\* Where the loops are.
Position ==
    /\ phase \in {"idle", "shift", "clone", "emplace", "prefix", "trim", "close",
                  "finish", "done", "destroy", "freed"}
    /\ i \in Nat
    /\ phase = "idle" => i = 0 /\ length["left"] = 0 /\ length["right"] = 0
    /\ phase = "freed" => i = 0
    /\ phase = "shift" => call.name = "insert" /\ i \in call.index .. length["self"]
    /\ phase = "clone" =>
         call.name = "assign" /\ persistent /\ i <= length["self"]
    /\ phase = "emplace" => call.name \in {"insert", "assign"}
    /\ phase = "prefix" =>
         /\ call.name # "assign"
         /\ i <= call.index \/ (call.name = "insert" /\ i = PrefixStart(call))
         /\ call.name = "insert" => PrefixStart(call) <= i
         /\ persistent \/ call.name = "insert" \/ i = call.index
    /\ phase = "trim" =>
         /\ Splits /\ i \in SplitAt .. LeafSize
         /\ persistent => i = SplitAt
    /\ phase = "close" =>
         call.name \in {"erase", "pop_back"} /\ call.index < i /\ i <= length["self"] + 1
         /\ (call.name = "erase" => i <= length["self"])

\* The values of the new contents that the loops have put where they belong.
Placed ==
    CASE phase = "shift" -> {k \in 0 .. length["self"] : i < k}
      [] phase = "emplace" ->
           {k \in 0 .. length["self"] :
              IF call.name = "insert" THEN call.index < k
              ELSE persistent /\ k < length["self"]}
      [] phase = "prefix" ->
           {k \in 0 .. length["self"] :
              IF call.name = "insert"
                THEN call.index <= k \/ (PrefixStart(call) <= k /\ k < i)
                ELSE k < i}
      [] phase = "clone" -> {k \in 0 .. length["self"] : k < i}
      [] phase = "close" -> {k \in 0 .. length["self"] : k < i - 1}
      [] OTHER -> {}

\* The slots with values: the leaf's own, and the homes of M.
Filled(M) ==
    \A a \in Leaf, k \in Index :
        Alive(a, k) <=> \/ (a = "self" /\ (k < length["self"] \/ k \in stranded))
                        \/ \E m \in M : HomeOf(m) = <<a, k>>

\* While a split leaf is trimmed: its right half is there, and so is the left.
Trimming ==
    \A k \in Index :
        /\ Alive("right", k) <=> SplitAt + k <= LeafSize
        /\ Alive("self", k) <=> persistent \/ k < SplitAt \/ i <= k
        /\ persistent => (Alive("left", k) <=> k < SplitAt)

\* What the call leaves behind, with lengths n.
Divided(n) ==
    \A a \in {"self", Dst} \cup
             (IF call.name = "insert" /\ n["right"] > 0 THEN {"right"} ELSE {}) :
        /\ n[a] \in 0 .. LeafSize
        /\ \A k \in Index :
             Alive(a, k) <=> \/ k < n[a]
                             \/ k \in Stranded(a)
                             \/ (a = "left" /\ k \in StrandedBy(call))

\* The leaf between and during the calls; the stranded values are above it.
Sizes ==
    /\ persistent \in BOOLEAN
    /\ length["self"] \in 0 .. LeafSize
    /\ stranded \subseteq Index
    /\ phase # "done" => \A k \in stranded : length["self"] <= k

\* The call is done.
Ending ==
    /\ Divided(length)
    /\ persistent /\ call.name = "pop_back" =>
         /\ Len(before) = length["self"] /\ length["self"] > 1
         /\ length["left"] = length["self"] - 1

\* The destructor has got to slot i.
Destroying ==
    \A k \in Index : Alive("self", k) <=> (i <= k /\ k < length["self"]) \/ k \in stranded

\* The phases in which Filled(Placed) says which slots have values.
Placing == phase \in {"idle", "shift", "clone", "emplace", "prefix", "close"}

\* SlotsRespected needs to know, before every step, which slots have values.
SlotsInv ==
    /\ Shaped
    /\ Sizes
    /\ Position
    /\ Running => CallFits
    /\ Placing => Filled(Placed)
    /\ phase = "trim" => Trimming
    /\ phase = "finish" => Divided(NewLengths)
    /\ phase = "done" => Ending
    /\ phase = "destroy" => Destroying
    /\ misuse = {}

-----------------------------------------------------------------------------
(* One store *)

\* Moving value j to a slot: that slot has it, its own has what a move leaves
\* behind, and the others are as they were.
LEMMA TransfersValues ==
  ASSUME IsArrays(slots), NEW j \in Index, NEW a \in Leaf, NEW k \in Index,
         Transfers(j, a, k)
  PROVE  \A c \in Leaf, m \in Index :
            slots'[c][m] = IF c = a /\ m = k THEN slots["self"][j]
                           ELSE IF c = "self" /\ m = j THEN LeavesBehind(j)
                           ELSE slots[c][m]
<1>1. PICK v, w : v = slots["self"][j] /\ w = LeavesBehind(j)
  OBVIOUS
<1>2. PICK mid : mid = [slots EXCEPT !["self"][j] = w]
  OBVIOUS
<1>3. PICK new : new = [mid EXCEPT ![a][k] = v]
  OBVIOUS
<1>4. slots' = new
  BY <1>1, <1>2, <1>3, Zenon DEF Transfers
<1>5. IsArrays(mid)
  BY <1>2, Stored
<1>6. \A c \in Leaf, m \in Index :
         mid[c][m] = IF c = "self" /\ m = j THEN w ELSE slots[c][m]
  BY <1>2 DEF IsArrays, Leaf
<1>7. \A c \in Leaf, m \in Index : new[c][m] = IF c = a /\ m = k THEN v ELSE mid[c][m]
  BY <1>3, <1>5 DEF IsArrays
<1> QED BY <1>1, <1>4, <1>6, <1>7

\* No slot gets empty by a move, and none but the target gets a value.
LEMMA TransfersFill ==
  ASSUME IsArrays(slots), NEW j \in Index, NEW a \in Leaf, NEW k \in Index,
         Alive("self", j), Transfers(j, a, k)
  PROVE  \A c \in Leaf, m \in Index :
            Alive(c, m)' <=> Alive(c, m) \/ (c = a /\ m = k)
<1>1. LeavesBehind(j) # Raw /\ slots["self"][j] # Raw
  BY DEF LeavesBehind, Alive, Raw, Moved
<1> QED BY <1>1, TransfersValues DEF Alive

\* Only the slot of the value destroyed gets empty.
LEMMA DestructsEmpty ==
  ASSUME IsArrays(slots), NEW a \in Leaf, NEW k \in Index, Destructs(a, k)
  PROVE  \A c \in Leaf, m \in Index :
            Alive(c, m)' <=> Alive(c, m) /\ ~(c = a /\ m = k)
<1>1. PICK new : new = [slots EXCEPT ![a][k] = Raw]
  OBVIOUS
<1>2. \A c \in Leaf, m \in Index : new[c][m] = IF c = a /\ m = k THEN Raw ELSE slots[c][m]
  BY <1>1 DEF IsArrays
<1> QED BY <1>1, <1>2 DEF Destructs, Alive

-----------------------------------------------------------------------------
(* Homes *)

\* A full leaf is split so that both halves get something.
LEMMA SplitPoint ==
  ASSUME CallFits, Splits
  PROVE  SplitAt \in 1 .. LeafSize /\ length["self"] = LeafSize /\ LeafSize \in Nat
  BY NodeSizeAssumption, LeafSplitPointRange DEF CallFits, Splits, SplitAt

\* The values of the new contents.
IsNew(k) == k \in 0 .. length["self"] /\ (k = length["self"] => call.name = "insert")

\* Every value of the new contents has its home in the array of a leaf.
LEMMA HomeInRange ==
  ASSUME CallFits, length["self"] \in 0 .. LeafSize, NEW k, IsNew(k)
  PROVE  /\ HomeOf(k)[1] \in Leaf /\ HomeOf(k)[2] \in Index
         /\ HomeOf(k) = <<HomeOf(k)[1], HomeOf(k)[2]>>
<1>1. CASE Splits /\ k >= SplitAt
  <2>1. HomeOf(k) = <<"right", k - SplitAt>>
    BY <1>1 DEF HomeOf
  <2>2. k - SplitAt \in Index
    BY <1>1, SplitPoint DEF IsNew, Index
  <2> QED BY <2>1, <2>2 DEF Leaf
<1>2. CASE ~(Splits /\ k >= SplitAt)
  <2>1. HomeOf(k) = <<Dst, k>>
    BY <1>2 DEF HomeOf
  <2>2. k \in Index
    <3>1. CASE Splits
      BY <1>2, <3>1, SplitPoint DEF IsNew, Index
    <3>2. CASE ~Splits
      BY <3>2, NodeSizeAssumption DEF IsNew, Index, Splits
    <3> QED BY <3>1, <3>2
  <2> QED BY <2>1, <2>2 DEF Leaf, Dst
<1> QED BY <1>1, <1>2

\* No two have the same home.
LEMMA HomesApart ==
  ASSUME CallFits, length["self"] \in 0 .. LeafSize,
         NEW k \in 0 .. length["self"], NEW m \in 0 .. length["self"], HomeOf(k) = HomeOf(m)
  PROVE  k = m
<1>1. Dst # "right"
  BY DEF Dst
<1>2. Splits => SplitAt \in Nat /\ k \in Int /\ m \in Int
  BY SplitPoint
<1>3. CASE Splits
  BY <1>1, <1>2, <1>3 DEF HomeOf
<1>4. CASE ~Splits
  BY <1>4 DEF HomeOf
<1> QED BY <1>3, <1>4

\* A home depends on the call and the leaf's length and flag, nothing else.
LEMMA HomesStay ==
  ASSUME UNCHANGED <<call, persistent>>, length'["self"] = length["self"]
  PROVE  /\ \A m : HomeOf(m)' = HomeOf(m)
         /\ Splits' = Splits /\ SplitAt' = SplitAt /\ Dst' = Dst
  BY DEF HomeOf, Splits, SplitAt, Dst

\* Put has no complaint about a value that goes home for the first time.
LEMMA HomeFree ==
  ASSUME CallFits, length["self"] \in 0 .. LeafSize, length["left"] = 0,
         NEW M \in SUBSET (0 .. length["self"]), Filled(M),
         NEW k, IsNew(k), k \notin M
  PROVE  Put(HomeOf(k)[1], HomeOf(k)[2]) = {}
<1>1. PICK a, s : a = HomeOf(k)[1] /\ s = HomeOf(k)[2]
  OBVIOUS
<1>2. a \in Leaf /\ s \in Index /\ HomeOf(k) = <<a, s>> /\ s \in Nat
  BY <1>1, HomeInRange DEF Index
<1>3. Alive(a, s) <=> (a = "self" /\ (s < length["self"] \/ s \in stranded))
  <2>1. ~ \E m \in M : HomeOf(m) = <<a, s>>
    BY <1>2, HomesApart DEF IsNew
  <2> QED BY <1>2, <2>1 DEF Filled
<1>4. a # "self" => length[a] = 0
  BY <1>2 DEF Leaf, CallFits
<1>5. Put(a, s) = {}
  <2>1. CASE a = "self"
    BY <1>2, <1>3, <2>1 DEF Put, Stranded
  <2>2. CASE a # "self"
    <3>1. ~(s < length[a]) /\ ~Alive(a, s)
      BY <1>2, <1>3, <1>4, <2>2
    <3> QED BY <3>1 DEF Put
  <2> QED BY <2>1, <2>2
<1> QED BY <1>1, <1>5

\* A loop's move of a value to a home that is free is no misuse, and it is the
\* only home that gets a value.
LEMMA HomeFills ==
  ASSUME Shaped, CallFits, length["self"] \in 0 .. LeafSize, length["left"] = 0,
         NEW M \in SUBSET (0 .. length["self"]), Filled(M), misuse = {},
         NEW k, IsNew(k), k \notin M,
         NEW j \in 0 .. length["self"] - 1, TransfersHome(j, k),
         UNCHANGED <<length, persistent, call, stranded>>
  PROVE  misuse' = {} /\ \A N : N = M \cup {k} => Filled(N)'
<1>1. PICK a, s : a = HomeOf(k)[1] /\ s = HomeOf(k)[2]
  OBVIOUS
<1>2. a \in Leaf /\ s \in Index /\ HomeOf(k) = <<a, s>>
  BY <1>1, HomeInRange
<1>3. j \in Index /\ j < length["self"]
  BY NodeSizeAssumption DEF Index
<1>4. Alive("self", j)
  BY <1>3 DEF Filled, Leaf
<1>5. Transfers(j, a, s)
  BY <1>1 DEF TransfersHome
<1>6. \A c \in Leaf, m \in Index : Alive(c, m)' <=> Alive(c, m) \/ (c = a /\ m = s)
  BY <1>2, <1>3, <1>4, <1>5, TransfersFill DEF Shaped
<1>7. misuse' = {}
  BY <1>1, <1>4, <1>5, HomeFree DEF Transfers, Read
<1>8. ASSUME NEW N, N = M \cup {k} PROVE Filled(N)'
  <2>1. \A c \in Leaf, m \in Index :
           (\E n \in N : HomeOf(n) = <<c, m>>)
             <=> (\E n \in M : HomeOf(n) = <<c, m>>) \/ (c = a /\ m = s)
    <3> SUFFICES ASSUME NEW c \in Leaf, NEW m \in Index
                PROVE  (\E n \in N : HomeOf(n) = <<c, m>>)
                         <=> (\E n \in M : HomeOf(n) = <<c, m>>) \/ (c = a /\ m = s)
      OBVIOUS
    <3>1. HomeOf(k) = <<c, m>> <=> c = a /\ m = s
      BY <1>2
    <3>2. \A n : n \in N <=> n \in M \/ n = k
      BY <1>8
    <3> QED BY <3>1, <3>2
  <2>2. \A m : HomeOf(m)' = HomeOf(m)
    BY HomesStay
  <2> QED BY <1>6, <2>1, <2>2 DEF Filled
<1> QED BY <1>7, <1>8

-----------------------------------------------------------------------------
(* The steps *)

\* A step that touches no slot of a leaf leaves its homes filled.
LEMMA FilledStays ==
  ASSUME NEW M, Filled(M), length'["self"] = length["self"],
         UNCHANGED <<slots, call, persistent, stranded>>
  PROVE  Filled(M)'
<1>1. \A m : HomeOf(m)' = HomeOf(m)
  BY HomesStay
<1>2. \A a \in Leaf, k \in Index : Alive(a, k)' <=> Alive(a, k)
  BY DEF Alive
<1> QED BY <1>1, <1>2 DEF Filled

\* In a call, the loop's variables and the sizes are integers.
LEMMA InCall ==
  ASSUME SlotsInv, Running
  PROVE  /\ CallFits /\ Shaped /\ misuse = {}
         /\ length["self"] \in Nat /\ LeafSize \in Nat /\ length["self"] <= LeafSize
         /\ call.index \in Nat /\ call.index <= length["self"] /\ i \in Nat
         /\ \A k \in stranded : length["self"] <= k
  BY NodeSizeAssumption DEF SlotsInv, Sizes, Position, CallFits, Running

\* insert_index, the loop over the values right of the index.
LEMMA ShiftSlots == ASSUME SlotsInv, Shift PROVE SlotsInv'
<1>0. Running /\ phase = "shift"
  BY DEF Shift, Running
<1>1. /\ CallFits /\ Shaped /\ misuse = {} /\ call.name = "insert"
      /\ length["self"] \in Nat /\ call.index \in Nat /\ i \in Nat
      /\ i \in call.index .. length["self"] /\ length["left"] = 0
  BY <1>0, InCall DEF SlotsInv, Position, CallFits
<1>2. PICK M : M = {k \in 0 .. length["self"] : i < k}
  OBVIOUS
<1>3. Filled(M)
  BY <1>0, <1>2 DEF SlotsInv, Placing, Placed
<1>4. Shaped'
  BY <1>1, ShiftStep
<1>5. UNCHANGED <<length, persistent, call, stranded, before>>
  BY DEF Shift
<1>6. CASE i > call.index
  <2>1. TransfersHome(i - 1, i) /\ phase' = "shift" /\ i' = i - 1
    BY <1>0, <1>6 DEF Shift, ShiftOrder
  <2>2. IsNew(i) /\ i - 1 \in 0 .. length["self"] - 1 /\ i \notin M
    BY <1>1, <1>2, <1>6 DEF IsNew
  <2>3. misuse' = {} /\ \A N : N = M \cup {i} => Filled(N)'
    BY <1>1, <1>2, <1>3, <1>5, <2>1, <2>2, HomeFills DEF SlotsInv, Sizes
  <2>4. Placed' = M \cup {i}
    <3>1. Placed' = {k \in 0 .. length["self"] : i - 1 < k}
      BY <2>1, <1>5 DEF Placed
    <3> QED BY <3>1, <1>1, <1>2
  <2>5. Filled(Placed)'
    BY <2>3, <2>4 DEF Filled
  <2>6. Position' /\ CallFits' /\ Sizes'
    BY <1>0, <1>1, <1>5, <1>6, <2>1 DEF SlotsInv, Position, CallFits, Sizes
  <2> QED BY <1>4, <2>1, <2>3, <2>5, <2>6 DEF SlotsInv
<1>7. CASE ~(i > call.index)
  <2>1. phase' = "emplace" /\ i' = 0 /\ UNCHANGED <<slots, misuse>>
    BY <1>7 DEF Shift, Continues
  <2>2. Filled(M)'
    BY <1>3, <1>5, <2>1, FilledStays
  <2>3. Placed' = M
    <3>1. Placed' = {k \in 0 .. length["self"] : call.index < k}
      BY <1>1, <1>5, <2>1 DEF Placed
    <3> QED BY <3>1, <1>1, <1>2, <1>7
  <2>4. Filled(Placed)'
    BY <2>2, <2>3 DEF Filled
  <2>5. Position' /\ CallFits' /\ Sizes'
    BY <1>0, <1>1, <1>5, <2>1 DEF SlotsInv, Position, CallFits, Sizes
  <2> QED BY <1>1, <1>4, <2>1, <2>4, <2>5 DEF SlotsInv
<1> QED BY <1>6, <1>7

\* The copy constructor.
LEMMA CloneSlots == ASSUME SlotsInv, Clone PROVE SlotsInv'
<1>0. Running /\ phase = "clone"
  BY DEF Clone, Running
<1>1. /\ CallFits /\ Shaped /\ misuse = {} /\ call.name = "assign" /\ persistent
      /\ length["self"] \in Nat /\ call.index \in Nat /\ i \in Nat
      /\ i <= length["self"] /\ length["left"] = 0 /\ call.index < length["self"]
  BY <1>0, InCall DEF SlotsInv, Position, CallFits
<1>2. PICK M : M = {k \in 0 .. length["self"] : k < i}
  OBVIOUS
<1>3. Filled(M)
  BY <1>0, <1>2 DEF SlotsInv, Placing, Placed
<1>4. Shaped'
  BY <1>1, CloneStep
<1>5. UNCHANGED <<persistent, call, stranded, before>>
  BY DEF Clone
<1>6. CASE i < length["self"]
  <2>1. Transfers(i, "left", i) /\ phase' = "clone" /\ i' = i + 1 /\ UNCHANGED length
    BY <1>0, <1>6 DEF Clone
  <2>2. HomeOf(i) = <<"left", i>>
    BY <1>1 DEF HomeOf, Splits, Dst
  <2>3. TransfersHome(i, i)
    BY <2>1, <2>2 DEF TransfersHome
  <2>4. IsNew(i) /\ i \in 0 .. length["self"] - 1 /\ i \notin M
    BY <1>1, <1>2, <1>6 DEF IsNew
  <2>5. misuse' = {} /\ \A N : N = M \cup {i} => Filled(N)'
    BY <1>1, <1>2, <1>3, <1>5, <2>1, <2>3, <2>4, HomeFills DEF SlotsInv, Sizes
  <2>6. Placed' = M \cup {i}
    <3>1. Placed' = {k \in 0 .. length["self"] : k < i + 1}
      BY <2>1, <1>5 DEF Placed
    <3> QED BY <3>1, <1>1, <1>2, <1>6
  <2>7. Filled(Placed)'
    BY <2>5, <2>6 DEF Filled
  <2>8. Position' /\ CallFits' /\ Sizes'
    BY <1>0, <1>1, <1>5, <1>6, <2>1 DEF SlotsInv, Position, CallFits, Sizes
  <2> QED BY <1>4, <2>1, <2>5, <2>7, <2>8 DEF SlotsInv
<1>7. CASE ~(i < length["self"])
  <2>1. /\ phase' = "emplace" /\ i' = 0 /\ UNCHANGED <<slots, misuse>>
        /\ length' = [length EXCEPT !["left"] = length["self"]]
    BY <1>7 DEF Clone, Continues
  <2>2. /\ length'["self"] = length["self"] /\ length'["left"] = length["self"]
        /\ length'["right"] = length["right"]
    BY <1>1, <2>1 DEF Shaped, IsLengths, Leaf
  <2>3. Filled(M)'
    BY <1>3, <1>5, <2>1, <2>2, FilledStays
  <2>4. Placed' = M
    <3>1. Placed' = {k \in 0 .. length["self"] : k < length["self"]}
      BY <1>1, <1>5, <2>1, <2>2 DEF Placed
    <3> QED BY <3>1, <1>1, <1>2, <1>7
  <2>5. Filled(Placed)'
    BY <2>3, <2>4 DEF Filled
  <2>6. Position' /\ CallFits' /\ Sizes'
    BY <1>0, <1>1, <1>5, <2>1, <2>2 DEF SlotsInv, Position, CallFits, Sizes
  <2> QED BY <1>1, <1>4, <2>1, <2>5, <2>6 DEF SlotsInv
<1> QED BY <1>6, <1>7

\* Storing the call's argument.
LEMMA EmplaceFills ==
  ASSUME Shaped, CallFits, length["self"] \in 0 .. LeafSize, Emplace,
         call.name \in {"insert", "assign"}
  PROVE  \E a \in Leaf, s \in Index :
            /\ HomeOf(call.index) = <<a, s>>
            /\ misuse' = misuse \cup Put(a, s)
            /\ \A c \in Leaf, m \in Index : Alive(c, m)' <=> Alive(c, m) \/ (c = a /\ m = s)
<1>1. IsNew(call.index)
  BY DEF CallFits, IsNew, Emplace
<1>2. PICK a \in Leaf, s \in Index :
        /\ HomeOf(call.index) = <<a, s>>
        /\ a = HomeOf(call.index)[1] /\ s = HomeOf(call.index)[2]
  BY <1>1, HomeInRange
<1>3. PICK v : v # Raw /\ slots' = [slots EXCEPT ![a][s] = v]
  <2>1. PICK u : u = ArgumentAt(a, s)
    OBVIOUS
  <2>2. PICK v : v = IF u = Raw THEN Moved ELSE u
    OBVIOUS
  <2>3. slots' = [slots EXCEPT ![a][s] = v]
    BY <1>2, <2>1, <2>2 DEF Emplace
  <2>4. v # Raw
    BY <2>2 DEF Raw, Moved
  <2> QED BY <2>3, <2>4
<1>4. \A c \in Leaf, m \in Index : Alive(c, m)' <=> Alive(c, m) \/ (c = a /\ m = s)
  <2>1. PICK new : new = [slots EXCEPT ![a][s] = v]
    OBVIOUS
  <2>2. \A c \in Leaf, m \in Index : new[c][m] = IF c = a /\ m = s THEN v ELSE slots[c][m]
    BY <2>1 DEF Shaped, IsArrays
  <2> QED BY <1>3, <2>1, <2>2 DEF Alive
<1>5. misuse' = misuse \cup Put(a, s)
  BY <1>2 DEF Emplace
<1> QED BY <1>2, <1>4, <1>5

\* The new value of an insertion goes to a home that is still free.
LEMMA EmplaceInsertSlots ==
  ASSUME SlotsInv, Emplace, call.name = "insert" PROVE SlotsInv'
<1>0. Running /\ phase = "emplace"
  BY DEF Emplace, Running
<1>1. /\ CallFits /\ Shaped /\ misuse = {} /\ length["left"] = 0
      /\ length["self"] \in Nat /\ call.index \in Nat /\ call.index <= length["self"]
      /\ length["self"] \in 0 .. LeafSize
  BY <1>0, InCall DEF SlotsInv, Sizes, CallFits
<1>2. PICK M : M = {k \in 0 .. length["self"] : call.index < k}
  OBVIOUS
<1>3. Filled(M)
  <2>1. Placed = M
    BY <1>0, <1>2 DEF Placed
  <2> QED BY <1>0, <2>1 DEF SlotsInv, Placing
<1>4. Shaped'
  BY <1>1, EmplaceStep
<1>5. /\ UNCHANGED <<length, persistent, call, stranded, before>>
      /\ phase' = "prefix" /\ i' = PrefixStart(call)
  BY DEF Emplace
<1>6. PICK a \in Leaf, s \in Index :
        /\ HomeOf(call.index) = <<a, s>>
        /\ misuse' = misuse \cup Put(a, s)
        /\ \A c \in Leaf, m \in Index : Alive(c, m)' <=> Alive(c, m) \/ (c = a /\ m = s)
  BY <1>1, EmplaceFills
<1>7. misuse' = {}
  <2>1. IsNew(call.index) /\ call.index \notin M
    BY <1>1, <1>2 DEF IsNew
  <2>2. Put(HomeOf(call.index)[1], HomeOf(call.index)[2]) = {}
    BY <1>1, <1>2, <1>3, <2>1, HomeFree
  <2> QED BY <1>1, <1>6, <2>2
<1>8. PrefixStart(call)' = PrefixStart(call) /\ PrefixStart(call) \in Nat
  <2>1. Splits' = Splits /\ SplitAt' = SplitAt
    BY <1>5, HomesStay
  <2>2. Splits => SplitAt \in Nat
    BY <1>1, SplitPoint
  <2> QED BY <1>1, <1>5, <2>1, <2>2 DEF PrefixStart
<1>9. Filled(Placed)'
  <2>1. PICK N : N = M \cup {call.index}
    OBVIOUS
  <2>2. Placed' = N
    <3>1. Placed' = {k \in 0 .. length["self"] :
                       call.index <= k \/ (PrefixStart(call) <= k /\ k < PrefixStart(call))}
      BY <1>5, <1>8 DEF Placed
    <3> QED BY <3>1, <2>1, <1>1, <1>2, <1>8
  <2>3. \A c \in Leaf, m \in Index :
           (\E n \in N : HomeOf(n) = <<c, m>>)
             <=> (\E n \in M : HomeOf(n) = <<c, m>>) \/ (c = a /\ m = s)
    <3> SUFFICES ASSUME NEW c \in Leaf, NEW m \in Index
                PROVE  (\E n \in N : HomeOf(n) = <<c, m>>)
                         <=> (\E n \in M : HomeOf(n) = <<c, m>>) \/ (c = a /\ m = s)
      OBVIOUS
    <3>1. HomeOf(call.index) = <<c, m>> <=> c = a /\ m = s
      BY <1>6
    <3>2. \A n : n \in N <=> n \in M \/ n = call.index
      BY <2>1
    <3> QED BY <3>1, <3>2
  <2>4. \A m : HomeOf(m)' = HomeOf(m)
    BY <1>5, HomesStay
  <2>5. Filled(N)'
    BY <1>3, <1>5, <1>6, <2>3, <2>4 DEF Filled
  <2> QED BY <2>2, <2>5 DEF Filled
<1>10. Position' /\ CallFits' /\ Sizes'
  BY <1>0, <1>1, <1>5, <1>8 DEF SlotsInv, Position, CallFits, Sizes
<1> QED BY <1>4, <1>5, <1>7, <1>9, <1>10 DEF SlotsInv

\* The new value of an assignment replaces one.
LEMMA EmplaceAssignSlots ==
  ASSUME SlotsInv, Emplace, call.name = "assign" PROVE SlotsInv'
<1>0. Running /\ phase = "emplace"
  BY DEF Emplace, Running
<1>1. /\ CallFits /\ Shaped /\ misuse = {}
      /\ length["self"] \in Nat /\ call.index \in Nat /\ call.index < length["self"]
      /\ length["self"] \in 0 .. LeafSize
      /\ length["left"] = IF persistent THEN length["self"] ELSE 0
      /\ length["right"] = 0 /\ persistent \in BOOLEAN
  BY <1>0, InCall DEF SlotsInv, Sizes, CallFits
<1>2. PICK M : M = {k \in 0 .. length["self"] : persistent /\ k < length["self"]}
  OBVIOUS
<1>3. Filled(M)
  <2>1. Placed = M
    BY <1>0, <1>2 DEF Placed
  <2> QED BY <1>0, <2>1 DEF SlotsInv, Placing
<1>4. Shaped'
  BY <1>1, EmplaceStep
<1>5. /\ UNCHANGED <<length, persistent, call, stranded, before>>
      /\ phase' = "finish" /\ i' = 0
  BY DEF Emplace
<1>6. PICK a \in Leaf, s \in Index :
        /\ HomeOf(call.index) = <<a, s>>
        /\ misuse' = misuse \cup Put(a, s)
        /\ \A c \in Leaf, m \in Index : Alive(c, m)' <=> Alive(c, m) \/ (c = a /\ m = s)
  BY <1>1, EmplaceFills
<1>7. \A k : HomeOf(k) = <<Dst, k>>
  BY DEF HomeOf, Splits
<1>8. a = Dst /\ s = call.index /\ length[a] = length["self"]
  <2>1. <<a, s>> = <<Dst, call.index>>
    BY <1>6, <1>7
  <2> QED BY <1>1, <2>1 DEF Dst
<1>9. \A k \in Index : /\ Alive("self", k) <=> k < length["self"] \/ k \in stranded
                       /\ persistent => (Alive("left", k) <=> k < length["self"])
  <2> SUFFICES ASSUME NEW k \in Index
               PROVE  /\ Alive("self", k) <=> k < length["self"] \/ k \in stranded
                      /\ persistent => (Alive("left", k) <=> k < length["self"])
    OBVIOUS
  <2>1. \A m \in M : <<Dst, m>> = <<"self", k>> <=> Dst = "self" /\ m = k
    OBVIOUS
  <2>2. \A m \in M : <<Dst, m>> = <<"left", k>> <=> Dst = "left" /\ m = k
    OBVIOUS
  <2>3. k \in Nat
    BY DEF Index
  <2> QED BY <1>1, <1>2, <1>3, <1>7, <2>1, <2>2, <2>3 DEF Filled, Leaf, Dst
<1>10. /\ misuse' = {}
       /\ \A c \in Leaf, m \in Index :
            c \in {"self", Dst} => (Alive(c, m)' <=> Alive(c, m))
  <2>1. Alive(a, s)
    BY <1>1, <1>6, <1>8, <1>9 DEF Dst
  <2>2. Put(a, s) = {}
    BY <1>1, <1>8, <2>1 DEF Put
  <2> QED BY <1>1, <1>6, <2>1, <2>2
<1>11. Divided(NewLengths)'
  <2>1. NewLengths' = length /\ Dst' = Dst /\ StrandedBy(call)' = {} /\ Stranded("self")' = stranded
        /\ Stranded("left")' = {}
    BY <1>5 DEF NewLengths, Splits, Dst, StrandedBy, Stranded
  <2>2. call'.name # "insert"
    BY <1>5
  <2>3. \A k \in Index : /\ Alive("self", k)' <=> k < length["self"] \/ k \in stranded
                         /\ persistent => (Alive("left", k)' <=> k < length["left"])
    BY <1>1, <1>9, <1>10 DEF Dst, Leaf
  <2> QED BY <1>1, <2>1, <2>2, <2>3 DEF Divided, Dst
<1>12. Position' /\ CallFits' /\ Sizes'
  BY <1>0, <1>1, <1>5 DEF SlotsInv, Position, CallFits, Sizes
<1> QED BY <1>4, <1>5, <1>10, <1>11, <1>12 DEF SlotsInv, Placing

\* The loop over the values left of the index, and the step to the next loop.
LEMMA PrefixSlots == ASSUME SlotsInv, Prefix PROVE SlotsInv'
<1>0. Running /\ phase = "prefix"
  BY DEF Prefix, Running
<1>1. /\ CallFits /\ Shaped /\ misuse = {} /\ persistent \in BOOLEAN
      /\ call.name \in {"insert", "erase", "pop_back"}
      /\ length["self"] \in Nat /\ call.index \in Nat /\ i \in Nat /\ LeafSize \in Nat
      /\ call.index <= length["self"] /\ length["left"] = 0 /\ length["right"] = 0
      /\ length["self"] \in 0 .. LeafSize
      /\ \A k \in stranded : length["self"] <= k
  BY <1>0, InCall DEF SlotsInv, Position, CallFits, Sizes
<1>2. /\ i <= call.index \/ (call.name = "insert" /\ i = PrefixStart(call))
      /\ call.name = "insert" => PrefixStart(call) <= i
      /\ persistent \/ call.name = "insert" \/ i = call.index
  BY <1>0 DEF SlotsInv, Position
<1>3. PICK M : M = {k \in 0 .. length["self"] :
                      IF call.name = "insert"
                        THEN call.index <= k \/ (PrefixStart(call) <= k /\ k < i)
                        ELSE k < i}
  OBVIOUS
<1>4. Filled(M)
  <2>1. Placed = M
    BY <1>0, <1>3 DEF Placed
  <2> QED BY <1>0, <2>1 DEF SlotsInv, Placing
<1>5. UNCHANGED <<length, persistent, call, stranded, before>>
  BY DEF Prefix
<1>6. PrefixStart(call)' = PrefixStart(call) /\ PrefixStart(call) \in Nat
  <2>1. Splits' = Splits /\ SplitAt' = SplitAt
    BY <1>5, HomesStay
  <2>2. Splits => SplitAt \in Nat
    BY <1>1, SplitPoint
  <2> QED BY <1>1, <1>5, <2>1, <2>2 DEF PrefixStart
<1>7. Shaped'
  BY <1>1, PrefixStep
<1>8. CASE i < call.index
  <2>1. TransfersHome(i, i) /\ phase' = "prefix" /\ i' = i + 1
    BY <1>0, <1>8 DEF Prefix
  <2>2. IsNew(i) /\ i \in 0 .. length["self"] - 1 /\ i \notin M
    BY <1>1, <1>3, <1>8 DEF IsNew
  <2>3. misuse' = {} /\ \A N : N = M \cup {i} => Filled(N)'
    BY <1>1, <1>3, <1>4, <1>5, <2>1, <2>2, HomeFills
  <2>4. Placed' = M \cup {i}
    <3>1. Placed' = {k \in 0 .. length["self"] :
                       IF call.name = "insert"
                         THEN call.index <= k \/ (PrefixStart(call) <= k /\ k < i + 1)
                         ELSE k < i + 1}
      BY <2>1, <1>5, <1>6 DEF Placed
    <3> QED BY <3>1, <1>1, <1>2, <1>3, <1>6, <1>8
  <2>5. Filled(Placed)'
    BY <2>3, <2>4 DEF Filled
  <2>6. Position' /\ CallFits' /\ Sizes'
    BY <1>0, <1>1, <1>2, <1>5, <1>6, <1>8, <2>1 DEF SlotsInv, Position, CallFits, Sizes
  <2> QED BY <1>7, <2>1, <2>3, <2>5, <2>6 DEF SlotsInv
<1>9. CASE ~(i < call.index) /\ call.name # "insert"
  <2>1. phase' = "close" /\ i' = call.index + 1 /\ UNCHANGED <<slots, misuse>>
    BY <1>9 DEF Prefix, Continues
  <2>2. Filled(M)'
    BY <1>4, <1>5, <2>1, FilledStays
  <2>3. Placed' = M
    <3>1. Placed' = {k \in 0 .. length["self"] : k < (call.index + 1) - 1}
      BY <1>5, <2>1 DEF Placed
    <3>2. i = call.index
      BY <1>1, <1>2, <1>9
    <3> QED BY <3>1, <3>2, <1>1, <1>3, <1>9
  <2>4. Filled(Placed)'
    BY <2>2, <2>3 DEF Filled
  <2>5. Position' /\ CallFits' /\ Sizes'
    BY <1>0, <1>1, <1>5, <1>9, <2>1 DEF SlotsInv, Position, CallFits, Sizes
  <2> QED BY <1>1, <1>7, <2>1, <2>4, <2>5 DEF SlotsInv
<1>10. CASE ~(i < call.index) /\ call.name = "insert" /\ ~Splits
  <2>1. phase' = "finish" /\ i' = 0 /\ UNCHANGED <<slots, misuse>>
    BY <1>10 DEF Prefix, Continues
  <2>2. length["self"] < LeafSize
    BY <1>1, <1>10 DEF Splits
  <2>3. \A k : HomeOf(k) = <<Dst, k>>
    BY <1>10 DEF HomeOf
  <2>4. /\ length["self"] \in M
        /\ persistent => M = 0 .. length["self"]
    BY <1>1, <1>2, <1>3, <1>10 DEF PrefixStart
  <2>5. \A k \in Index :
          /\ Alive("self", k) <=> \/ k < IF persistent THEN length["self"] ELSE length["self"] + 1
                                  \/ k \in stranded
          /\ persistent => (Alive("left", k) <=> k < length["self"] + 1)
    <3> SUFFICES ASSUME NEW k \in Index
                 PROVE  /\ Alive("self", k) <=>
                              \/ k < IF persistent THEN length["self"]
                                     ELSE length["self"] + 1
                              \/ k \in stranded
                        /\ persistent => (Alive("left", k) <=> k < length["self"] + 1)
      OBVIOUS
    <3>1. \A m \in M : HomeOf(m) = <<"self", k>> <=> ~persistent /\ m = k
      BY <2>3 DEF Dst
    <3>2. \A m \in M : HomeOf(m) = <<"left", k>> <=> persistent /\ m = k
      BY <2>3 DEF Dst
    <3>3. k \in Nat /\ \A m \in M : m \in 0 .. length["self"]
      BY <1>3 DEF Index
    <3>4. Alive("self", k) <=> (k < length["self"] \/ k \in stranded) \/ (~persistent /\ k \in M)
      BY <1>4, <3>1 DEF Filled, Leaf
    <3>5. Alive("left", k) <=> (persistent /\ k \in M)
      BY <1>4, <3>2 DEF Filled, Leaf
    <3> QED BY <1>1, <2>4, <3>3, <3>4, <3>5
  <2>6. Divided(NewLengths)'
    <3>1. /\ NewLengths' = [length EXCEPT ![Dst] = length["self"] + 1]
          /\ Dst' = Dst /\ StrandedBy(call)' = {} /\ Stranded("self")' = stranded
          /\ Stranded("left")' = {}
      <4>1. Splits' = Splits /\ Dst' = Dst
        BY <1>5, HomesStay
      <4>2. StrandedBy(call)' = {} /\ Stranded("self")' = stranded /\ Stranded("left")' = {}
        BY <1>5, <1>10 DEF StrandedBy, Stranded
      <4>3. NewLengths' = [length EXCEPT ![Dst] = length["self"] + 1]
        BY <1>5, <1>10, <4>1 DEF NewLengths
      <4> QED BY <4>1, <4>2, <4>3
    <3>2. PICK n : n = NewLengths'
      OBVIOUS
    <3>3. /\ n["right"] = 0
          /\ n["self"] = IF persistent THEN length["self"] ELSE length["self"] + 1
          /\ persistent => n["left"] = length["self"] + 1
      BY <1>1, <3>1, <3>2 DEF Shaped, IsLengths, Leaf, Dst
    <3>4. \A k \in Index : /\ Alive("self", k)' <=> k < n["self"] \/ k \in stranded
                           /\ persistent => (Alive("left", k)' <=> k < n["left"])
      BY <1>1, <2>1, <2>5, <3>3 DEF Alive
    <3>5. n["self"] \in 0 .. LeafSize /\ (persistent => n["left"] \in 0 .. LeafSize)
      BY <1>1, <2>2, <3>3
    <3> QED BY <1>1, <3>1, <3>2, <3>3, <3>4, <3>5 DEF Divided, Dst
  <2>7. Position' /\ CallFits' /\ Sizes'
    BY <1>0, <1>1, <1>5, <1>10, <2>1 DEF SlotsInv, Position, CallFits, Sizes
  <2> QED BY <1>1, <1>7, <2>1, <2>6, <2>7 DEF SlotsInv, Placing
<1>11. CASE ~(i < call.index) /\ Splits
  <2>1. phase' = "trim" /\ i' = SplitAt /\ UNCHANGED <<slots, misuse>>
    BY <1>11 DEF Prefix, Continues, Splits
  <2>2. /\ SplitAt \in 1 .. LeafSize /\ length["self"] = LeafSize
        /\ Splits' = Splits /\ SplitAt' = SplitAt /\ call.name = "insert"
    BY <1>1, <1>5, <1>11, SplitPoint, HomesStay DEF Splits
  <2>3. \A m \in 0 .. LeafSize : SplitAt <= m \/ persistent => m \in M
    BY <1>1, <1>2, <1>3, <1>11, <2>2 DEF PrefixStart
  <2>4. \A k \in Index :
          /\ Alive("right", k) <=> SplitAt + k <= LeafSize
          /\ Alive("self", k)
          /\ persistent => (Alive("left", k) <=> k < SplitAt)
    <3> SUFFICES ASSUME NEW k \in Index
                 PROVE  /\ Alive("right", k) <=> SplitAt + k <= LeafSize
                        /\ Alive("self", k)
                        /\ persistent => (Alive("left", k) <=> k < SplitAt)
      OBVIOUS
    <3>1. k \in Nat /\ k < LeafSize /\ \A m \in M : m \in Nat /\ m <= LeafSize
      BY <1>1, <1>3, <2>2 DEF Index
    <3>2. \A m \in M : HomeOf(m) = <<"right", k>> <=> m = SplitAt + k
      BY <1>11, <2>2, <3>1 DEF HomeOf, Dst
    <3>3. persistent => \A m \in M : HomeOf(m) = <<"left", k>> <=> m = k /\ m < SplitAt
      BY <1>11, <2>2, <3>1 DEF HomeOf, Dst
    <3>4. Alive("self", k)
      BY <1>1, <1>4, <2>2, <3>1 DEF Filled, Leaf
    <3>5. Alive("right", k) <=> SplitAt + k \in M
      BY <1>4, <3>2 DEF Filled, Leaf
    <3>6. persistent => (Alive("left", k) <=> k \in M /\ k < SplitAt)
      BY <1>4, <3>3 DEF Filled, Leaf
    <3>7. SplitAt + k \in M <=> SplitAt + k <= LeafSize
      BY <1>1, <2>2, <2>3, <3>1
    <3>8. persistent => k \in M
      BY <1>1, <2>3, <3>1
    <3> QED BY <3>4, <3>5, <3>6, <3>7, <3>8
  <2>5. Trimming'
    <3>1. \A a \in Leaf, k \in Index : Alive(a, k)' <=> Alive(a, k)
      BY <2>1 DEF Alive
    <3>2. \A k \in Index : k < SplitAt \/ SplitAt <= k
      BY <2>2 DEF Index
    <3> QED BY <1>5, <2>1, <2>2, <2>4, <3>1, <3>2 DEF Trimming, Leaf
  <2>6. Position' /\ CallFits' /\ Sizes'
    BY <1>0, <1>1, <1>5, <1>11, <2>1, <2>2 DEF SlotsInv, Position, CallFits, Sizes
  <2> QED BY <1>1, <1>7, <2>1, <2>5, <2>6 DEF SlotsInv, Placing
<1> QED BY <1>1, <1>8, <1>9, <1>10, <1>11

\* The places of a split leaf that the right half has taken.
LEMMA TrimSlots == ASSUME SlotsInv, Trim PROVE SlotsInv'
<1>0. Running /\ phase = "trim"
  BY DEF Trim, Running
<1>1. /\ CallFits /\ Shaped /\ misuse = {} /\ persistent \in BOOLEAN /\ Trimming
      /\ Splits /\ call.name = "insert" /\ length["left"] = 0 /\ length["right"] = 0
      /\ i \in SplitAt .. LeafSize /\ (persistent => i = SplitAt)
      /\ stranded \subseteq Index
      /\ \A k \in stranded : length["self"] <= k
  BY <1>0, InCall DEF SlotsInv, Position, CallFits, Sizes, Splits
<1>2. /\ SplitAt \in 1 .. LeafSize /\ SplitAt \in Nat /\ length["self"] = LeafSize
      /\ LeafSize \in Nat /\ i \in Nat
  BY <1>1, SplitPoint
<1>3. stranded = {} /\ \A k \in Index : k \in Nat /\ k < LeafSize
  BY <1>1, <1>2 DEF Index
<1>4. UNCHANGED <<length, persistent, call, stranded, before>>
  BY DEF Trim
<1>5. /\ Splits' = Splits /\ SplitAt' = SplitAt /\ Dst' = Dst
  BY <1>4, HomesStay
<1>6. TrimEnd = IF persistent THEN 0 ELSE LeafSize
  BY <1>1, <1>2 DEF TrimEnd, Dst
<1>7. Shaped'
  BY <1>1, TrimStep
<1>8. CASE i < TrimEnd
  <2>1. ~persistent /\ Dst = "self" /\ i \in Index
    BY <1>2, <1>6, <1>8 DEF Dst, Index
  <2>2. Destructs("self", i) /\ i' = i + 1 /\ phase' = "trim"
    BY <1>0, <1>8, <2>1 DEF Trim
  <2>3. \A c \in Leaf, m \in Index : Alive(c, m)' <=> Alive(c, m) /\ ~(c = "self" /\ m = i)
    BY <1>1, <2>1, <2>2, DestructsEmpty DEF Shaped, Leaf
  <2>4. misuse' = {}
    <3>1. Alive("self", i)
      BY <1>1, <1>2, <2>1 DEF Trimming
    <3> QED BY <1>1, <2>2, <3>1 DEF Destructs
  <2>5. Trimming'
    <3> SUFFICES ASSUME NEW k \in Index
                 PROVE  /\ Alive("right", k)' <=> SplitAt + k <= LeafSize
                        /\ Alive("self", k)' <=> k < SplitAt \/ i + 1 <= k
      BY <1>4, <1>5, <2>1, <2>2 DEF Trimming
    <3>1. /\ Alive("right", k)' <=> Alive("right", k)
          /\ Alive("self", k)' <=> Alive("self", k) /\ k # i
      BY <2>3 DEF Leaf
    <3>2. /\ Alive("right", k) <=> SplitAt + k <= LeafSize
          /\ Alive("self", k) <=> k < SplitAt \/ i <= k
      BY <1>1, <2>1 DEF Trimming
    <3> QED BY <1>1, <1>2, <1>3, <3>1, <3>2
  <2>6. Position' /\ CallFits' /\ Sizes'
    BY <1>0, <1>1, <1>2, <1>3, <1>4, <1>5, <1>6, <1>8, <2>1, <2>2
    DEF SlotsInv, Position, CallFits, Sizes
  <2> QED BY <1>7, <2>2, <2>4, <2>5, <2>6 DEF SlotsInv, Placing
<1>9. CASE ~(i < TrimEnd)
  <2>1. phase' = "finish" /\ i' = 0 /\ UNCHANGED <<slots, misuse>>
    BY <1>9 DEF Trim, Continues
  <2>2. PICK n : n = NewLengths'
    OBVIOUS
  <2>3. NewLengths' = [length EXCEPT ![Dst] = SplitAt, !["right"] = LeafSize + 1 - SplitAt]
    BY <1>1, <1>4, <1>5 DEF NewLengths
  <2>4. /\ n["right"] = LeafSize + 1 - SplitAt
        /\ n["self"] = IF persistent THEN LeafSize ELSE SplitAt
        /\ persistent => n["left"] = SplitAt
    BY <1>1, <1>2, <2>2, <2>3 DEF Shaped, IsLengths, Leaf, Dst
  <2>5. StrandedBy(call)' = {} /\ \A a \in Leaf : Stranded(a)' = {}
    BY <1>1, <1>3, <1>4 DEF StrandedBy, Stranded
  <2>6. \A k \in Index : /\ Alive("right", k)' <=> k < n["right"]
                         /\ Alive("self", k)' <=> k < n["self"]
                         /\ persistent => (Alive("left", k)' <=> k < n["left"])
    <3> SUFFICES ASSUME NEW k \in Index
                 PROVE  /\ Alive("right", k)' <=> k < n["right"]
                        /\ Alive("self", k)' <=> k < n["self"]
                        /\ persistent => (Alive("left", k)' <=> k < n["left"])
      OBVIOUS
    <3>1. \A a \in Leaf : Alive(a, k)' <=> Alive(a, k)
      BY <2>1 DEF Alive
    <3>2. /\ Alive("right", k) <=> SplitAt + k <= LeafSize
          /\ Alive("self", k) <=> persistent \/ k < SplitAt \/ i <= k
          /\ persistent => (Alive("left", k) <=> k < SplitAt)
      BY <1>1 DEF Trimming
    <3> QED BY <1>1, <1>2, <1>3, <1>6, <1>9, <2>4, <3>1, <3>2 DEF Leaf
  <2>7. n["right"] \in 0 .. LeafSize /\ n["self"] \in 0 .. LeafSize
        /\ (persistent => n["left"] \in 0 .. LeafSize)
    BY <1>1, <1>2, <2>4
  <2>8. Divided(NewLengths)'
    BY <1>1, <1>4, <1>5, <2>2, <2>5, <2>6, <2>7 DEF Divided, Dst, Leaf
  <2>9. Position' /\ CallFits' /\ Sizes'
    BY <1>0, <1>1, <1>2, <1>3, <1>4, <2>1 DEF SlotsInv, Position, CallFits, Sizes
  <2> QED BY <1>1, <1>7, <2>1, <2>8, <2>9 DEF SlotsInv, Placing
<1> QED BY <1>8, <1>9

\* erase: the loop over the values right of the index, and the last one.
LEMMA CloseSlots == ASSUME SlotsInv, Close PROVE SlotsInv'
<1>0. Running /\ phase = "close"
  BY DEF Close, Running
<1>1. /\ CallFits /\ Shaped /\ misuse = {} /\ persistent \in BOOLEAN
      /\ call.name \in {"erase", "pop_back"} /\ length["left"] = 0 /\ length["right"] = 0
      /\ length["self"] \in Nat /\ call.index \in Nat /\ i \in Nat /\ LeafSize \in Nat
      /\ length["self"] \in 0 .. LeafSize /\ length["self"] > 1
      /\ call.index < i /\ i <= length["self"] + 1
      /\ call.name = "erase" => i <= length["self"]
      /\ call.name = "pop_back" => call.index = length["self"]
      /\ stranded \subseteq Index
      /\ \A k \in stranded : length["self"] <= k
  BY <1>0, InCall DEF SlotsInv, Position, CallFits, Sizes
<1>2. PICK M : M = {k \in 0 .. length["self"] : k < i - 1}
  OBVIOUS
<1>3. Filled(M)
  <2>1. Placed = M
    BY <1>0, <1>2 DEF Placed
  <2> QED BY <1>0, <2>1 DEF SlotsInv, Placing
<1>4. UNCHANGED <<length, persistent, call, stranded, before>>
  BY DEF Close
<1>5. \A k : HomeOf(k) = <<Dst, k>>
  BY <1>1 DEF HomeOf, Splits
<1>6. Shaped'
  BY <1>1, CloseStep
<1>7. CASE i < length["self"]
  <2>1. Transfers(i, Dst, i - 1) /\ phase' = "close" /\ i' = i + 1
    BY <1>0, <1>7 DEF Close
  <2>2. TransfersHome(i, i - 1)
    BY <1>5, <2>1 DEF TransfersHome
  <2>3. IsNew(i - 1) /\ i \in 0 .. length["self"] - 1 /\ i - 1 \notin M
    BY <1>1, <1>2, <1>7 DEF IsNew
  <2>4. misuse' = {} /\ \A N : N = M \cup {i - 1} => Filled(N)'
    BY <1>1, <1>2, <1>3, <1>4, <2>2, <2>3, HomeFills
  <2>5. Placed' = M \cup {i - 1}
    <3>1. Placed' = {k \in 0 .. length["self"] : k < (i + 1) - 1}
      BY <2>1, <1>4 DEF Placed
    <3> QED BY <3>1, <1>1, <1>2, <1>7
  <2>6. Filled(Placed)'
    BY <2>4, <2>5 DEF Filled
  <2>7. Position' /\ CallFits' /\ Sizes'
    BY <1>0, <1>1, <1>4, <1>7, <2>1 DEF SlotsInv, Position, CallFits, Sizes
  <2> QED BY <1>6, <2>1, <2>4, <2>6, <2>7 DEF SlotsInv
<1>8. CASE ~(i < length["self"])
  <2>1. phase' = "finish" /\ i' = 0
    BY <1>8 DEF Close
  <2>2. i = IF call.name = "erase" THEN length["self"] ELSE length["self"] + 1
    BY <1>1, <1>8
  <2>3. \A k \in Index :
          /\ k \in Nat
          /\ Alive("self", k) <=> k < length["self"] \/ k \in stranded
          /\ persistent => (Alive("left", k) <=> k \in M)
    <3> SUFFICES ASSUME NEW k \in Index
                 PROVE  /\ Alive("self", k) <=> k < length["self"] \/ k \in stranded
                        /\ persistent => (Alive("left", k) <=> k \in M)
      BY DEF Index
    <3>1. \A m \in M : HomeOf(m) = <<"self", k>> <=> ~persistent /\ m = k
      BY <1>5 DEF Dst
    <3>2. \A m \in M : HomeOf(m) = <<"left", k>> <=> persistent /\ m = k
      BY <1>5 DEF Dst
    <3>3. Alive("self", k) <=> (k < length["self"] \/ k \in stranded) \/ (~persistent /\ k \in M)
      BY <1>3, <3>1 DEF Filled, Leaf
    <3>4. Alive("left", k) <=> (persistent /\ k \in M)
      BY <1>3, <3>2 DEF Filled, Leaf
    <3>5. k \in M => k < length["self"]
      BY <1>1, <1>2, <2>2
    <3> QED BY <3>3, <3>4, <3>5
  <2>4. /\ ClosesGap <=> ~persistent
        /\ NewLengths' = [length EXCEPT ![Dst] = length["self"] - 1]
        /\ Dst' = Dst
    BY <1>1, <1>4 DEF ClosesGap, NewLengths, Dst, Splits
  <2>5. PICK n : n = NewLengths'
    OBVIOUS
  <2>6. /\ n["self"] = IF persistent THEN length["self"] ELSE length["self"] - 1
        /\ persistent => n["left"] = length["self"] - 1
    BY <1>1, <2>4, <2>5 DEF Shaped, IsLengths, Leaf, Dst
  <2>7. /\ misuse' = {}
        /\ \A k \in Index :
             /\ Alive("self", k)' <=> k < n["self"] \/ k \in stranded
             /\ persistent => (Alive("left", k)' <=> k \in M)
    <3>1. CASE persistent
      <4>1. UNCHANGED <<slots, misuse>>
        BY <1>8, <2>4, <3>1 DEF Close
      <4> QED BY <1>1, <2>3, <2>6, <3>1, <4>1 DEF Alive
    <3>2. CASE ~persistent
      <4>1. Destructs("self", length["self"] - 1)
        BY <1>8, <2>4, <3>2 DEF Close, Dst
      <4>2. length["self"] - 1 \in Index
        BY <1>1 DEF Index
      <4>3. \A m \in Index : Alive("self", m)' <=> Alive("self", m) /\ m # length["self"] - 1
        BY <1>1, <4>1, <4>2, DestructsEmpty DEF Shaped, Leaf
      <4>4. misuse' = {}
        <5>1. Alive("self", length["self"] - 1)
          BY <1>1, <2>3, <4>2
        <5> QED BY <1>1, <4>1, <5>1 DEF Destructs
      <4>5. \A k \in stranded : k \in Nat /\ k # length["self"] - 1
        BY <1>1, <4>2 DEF Index
      <4> QED BY <1>1, <2>3, <2>6, <3>2, <4>3, <4>4, <4>5
    <3> QED BY <3>1, <3>2
  <2>8. persistent => \A k \in Index :
          k \in M <=> k < n["left"] \/ k \in StrandedBy(call)
    <3>1. persistent =>
            StrandedBy(call) = IF call.name = "pop_back" THEN {length["self"] - 1} ELSE {}
      BY <1>1 DEF StrandedBy, CallFits
    <3> QED BY <1>1, <1>2, <2>2, <2>3, <2>6, <3>1
  <2>9. Divided(NewLengths)'
    <3>1. /\ StrandedBy(call)' = StrandedBy(call) /\ Stranded("self")' = stranded
          /\ Stranded("left")' = {} /\ Dst' = Dst /\ call'.name # "insert"
      BY <1>1, <1>4, <2>4 DEF StrandedBy, Stranded
    <3>2. n["self"] \in 0 .. LeafSize /\ (persistent => n["left"] \in 0 .. LeafSize)
      BY <1>1, <2>6
    <3> QED BY <1>1, <2>5, <2>7, <2>8, <3>1, <3>2 DEF Divided, Dst
  <2>10. Position' /\ CallFits' /\ Sizes'
    BY <1>0, <1>1, <1>4, <2>1 DEF SlotsInv, Position, CallFits, Sizes
  <2> QED BY <1>6, <2>1, <2>7, <2>9, <2>10 DEF SlotsInv, Placing
<1> QED BY <1>7, <1>8

\* An exception leaves the leaf as it was.
LEMMA ThrowSlots == ASSUME SlotsInv, Throw PROVE SlotsInv'
<1>0. Running
  BY DEF Throw, Running
<1>1. /\ CallFits /\ Shaped /\ misuse = {} /\ persistent \in BOOLEAN /\ Placing
      /\ length["left"] = 0 /\ length["right"] = 0
  BY <1>0, InCall DEF SlotsInv, CallFits, Sizes, Throw, Placing
<1>2. Filled(Placed)
  BY <1>1 DEF SlotsInv
<1>3. /\ UNCHANGED <<length, persistent, misuse, stranded>> /\ persistent
      /\ phase' = "idle" /\ i' = 0
      /\ slots' = [slots EXCEPT !["left"] = Blank, !["right"] = Blank]
  BY DEF Throw
<1>4. \A k \in Index : /\ ~Alive("left", k)' /\ ~Alive("right", k)'
                       /\ Alive("self", k)' <=> Alive("self", k)
  BY <1>1, <1>3 DEF Alive, Shaped, IsArrays, Leaf, Blank
<1>5. Dst # "self"
  BY <1>3 DEF Dst
<1>6. \A k \in Index : Alive("self", k) <=> k < length["self"] \/ k \in stranded
  <2>1. \A m, k : HomeOf(m) # <<"self", k>>
    BY <1>5 DEF HomeOf
  <2> QED BY <1>2, <2>1 DEF Filled, Leaf
<1>7. Placed' = {}
  BY <1>3 DEF Placed
<1>8. Filled(Placed)'
  <2>1. \A a \in Leaf, k \in Index :
          Alive(a, k)' <=> (a = "self" /\ (k < length["self"] \/ k \in stranded))
    BY <1>4, <1>6 DEF Leaf
  <2> QED BY <1>3, <1>7, <2>1 DEF Filled
<1>9. Position' /\ Sizes'
  BY <1>0, <1>1, <1>3 DEF SlotsInv, Position, Sizes, Running
<1>10. Shaped'
  BY <1>1, ThrowStep
<1> QED BY <1>1, <1>3, <1>8, <1>9, <1>10 DEF SlotsInv, Running

\* The lengths are set.
LEMMA FinishSlots == ASSUME SlotsInv, Finish PROVE SlotsInv'
<1>0. Running /\ phase = "finish"
  BY DEF Finish, Running
<1>1. /\ CallFits /\ Shaped /\ misuse = {} /\ persistent \in BOOLEAN
      /\ length["self"] \in Nat /\ Divided(NewLengths)
  BY <1>0, InCall DEF SlotsInv, Sizes
<1>2. /\ UNCHANGED <<slots, persistent, call, history>> /\ length' = NewLengths
      /\ phase' = "done" /\ i' = 0
  BY DEF Finish
<1>3. Divided(length)'
  <2>1. PICK n : n = NewLengths
    OBVIOUS
  <2>2. length' = n /\ Divided(n)
    BY <1>1, <1>2, <2>1 DEF Divided
  <2>3. /\ Dst' = Dst /\ StrandedBy(call)' = StrandedBy(call)
        /\ \A a : Stranded(a)' = Stranded(a)
        /\ \A a, k : Alive(a, k)' <=> Alive(a, k)
    BY <1>2 DEF Dst, StrandedBy, Stranded, Alive, history
  <2> QED BY <1>2, <2>2, <2>3 DEF Divided
<1>4. length'["self"] \in 0 .. LeafSize
  BY <1>1, <1>2 DEF Divided
<1>5. Ending'
  <2>1. ASSUME persistent, call.name = "pop_back"
        PROVE  /\ Len(before) = length["self"] /\ length["self"] > 1
               /\ NewLengths["left"] = length["self"] - 1
               /\ NewLengths["self"] = length["self"]
    <3>1. NewLengths = [length EXCEPT !["left"] = length["self"] - 1]
      BY <2>1 DEF NewLengths, Splits, Dst
    <3> QED BY <1>1, <2>1, <3>1 DEF CallFits, Shaped, IsLengths, Leaf
  <2> QED BY <1>2, <1>3, <2>1 DEF Ending, history
<1>6. Position' /\ Sizes'
  BY <1>0, <1>1, <1>2, <1>4 DEF SlotsInv, Position, Sizes, history
<1>7. Shaped'
  BY <1>1, FinishStep
<1> QED BY <1>1, <1>2, <1>3, <1>5, <1>6, <1>7 DEF SlotsInv, Running, Placing, history

\* The tree takes a result over.
LEMMA TakeSlots == ASSUME SlotsInv, NEW a \in Results, Take(a) PROVE SlotsInv'
<1>1. /\ phase = "done" /\ Ending /\ Divided(length) /\ Shaped /\ misuse = {}
      /\ persistent \in BOOLEAN /\ stranded \subseteq Index
      /\ length["self"] \in 0 .. LeafSize /\ LeafSize \in Nat
  BY NodeSizeAssumption DEF SlotsInv, Take, Ending, Sizes
<1>2. a \in {"self", Dst} \cup
            (IF call.name = "insert" /\ length["right"] > 0 THEN {"right"} ELSE {})
  BY DEF Results
<1>3. /\ a \in Leaf /\ length[a] \in 0 .. LeafSize
      /\ \A k \in Index : Alive(a, k) <=> \/ k < length[a] \/ k \in Stranded(a)
                                          \/ (a = "left" /\ k \in StrandedBy(call))
  BY <1>1, <1>2 DEF Divided, Leaf, Dst
<1>4. /\ phase' = "idle" /\ i' = 0 /\ misuse' = {}
      /\ persistent' = (persistent /\ a = "self")
  BY <1>1 DEF Take
<1>5. /\ \A k \in Index : Alive("self", k)' <=> Alive(a, k)
      /\ \A b \in {"left", "right"}, k \in Index : ~Alive(b, k)'
      /\ length'["self"] = length[a] /\ length'["left"] = 0 /\ length'["right"] = 0
  BY DEF Take, Alive, Leaf, Blank
<1>6. /\ stranded' \subseteq Index /\ \A k \in stranded' : length[a] <= k
      /\ \A k \in Index : Alive(a, k) <=> k < length[a] \/ k \in stranded'
  <2>1. CASE a = "self"
    <3>1. stranded' = {k \in stranded : k >= length["self"]}
      BY <2>1 DEF Take
    <3>2. \A k \in Index : Alive(a, k) <=> k < length[a] \/ k \in stranded
      BY <1>3, <2>1 DEF Stranded
    <3>3. \A k \in Index : k \in Nat
      BY DEF Index
    <3> QED BY <1>1, <2>1, <3>1, <3>2, <3>3
  <2>2. CASE a = "left"
    <3>1. stranded' = StrandedBy(call) /\ persistent
      BY <1>2, <2>2 DEF Take, Dst
    <3>2. \A k \in StrandedBy(call) : k \in Index /\ length[a] <= k
      BY <1>1, <2>2, <3>1 DEF StrandedBy, Ending, Index
    <3>3. \A k \in Index : Alive(a, k) <=> k < length[a] \/ k \in StrandedBy(call)
      BY <1>3, <2>2 DEF Stranded
    <3> QED BY <3>1, <3>2, <3>3
  <2>3. CASE a = "right"
    BY <1>3, <2>3 DEF Take, Stranded
  <2> QED BY <1>3, <2>1, <2>2, <2>3 DEF Leaf
<1>7. Placed' = {}
  BY <1>4 DEF Placed
<1>8. Filled(Placed)'
  <2>1. \A b \in Leaf, k \in Index :
          Alive(b, k)' <=> (b = "self" /\ (k < length'["self"] \/ k \in stranded'))
    BY <1>5, <1>6 DEF Leaf
  <2> QED BY <1>7, <2>1 DEF Filled
<1>9. Position' /\ Sizes'
  BY <1>1, <1>3, <1>4, <1>5, <1>6 DEF Position, Sizes
<1>10. Shaped'
  BY <1>1, TakeStep
<1> QED BY <1>4, <1>8, <1>9, <1>10 DEF SlotsInv, Running

\* What a request says of the leaf as it is.
LEMMA RequestFits ==
  ASSUME NEW c \in Requests
  PROVE  /\ c.name \in {"insert", "assign", "erase", "pop_back"}
         /\ c.index \in IndexesFor(c.name) /\ c.rightMost \in BOOLEAN
         /\ c.several \in BOOLEAN
         /\ c.arg \in Arguments \cup {0}
         /\ c.name \in {"insert", "assign"} => c.arg \in Arguments
<1>1. PICK name \in Calls :
        c \in [name : {name}, index : IndexesFor(name), rightMost : BOOLEAN,
               arg : IF name \in {"insert", "assign"} THEN Arguments ELSE {0},
               several : IF name \in {"insert", "assign"} THEN BOOLEAN ELSE {FALSE}]
  BY DEF Requests
<1> QED BY <1>1, SlotsAssumption

\* A call begins.
LEMMA BeginSlots == ASSUME SlotsInv, NEW c \in Requests, Begin(c) PROVE SlotsInv'
<1>1. /\ phase = "idle" /\ Shaped /\ misuse = {} /\ persistent \in BOOLEAN /\ i = 0
      /\ length["self"] \in 0 .. LeafSize /\ length["self"] \in Nat
      /\ length["left"] = 0 /\ length["right"] = 0
      /\ stranded \subseteq Index /\ \A k \in stranded : length["self"] <= k
  BY NodeSizeAssumption DEF SlotsInv, Begin, Sizes, Position
<1>2. Filled({})
  <2>1. Placed = {}
    BY <1>1 DEF Placed
  <2> QED BY <1>1, <2>1 DEF SlotsInv, Placing
<1>3. /\ c.name \in {"insert", "assign", "erase", "pop_back"} /\ c.rightMost \in BOOLEAN
      /\ c.index \in 0 .. length["self"] /\ c.index \in Nat
      /\ c.name \in {"assign", "erase"} => c.index < length["self"]
      /\ c.name = "pop_back" => c.index = length["self"]
      /\ c.name \in {"erase", "pop_back"} => length["self"] > 1
  BY <1>1, RequestFits DEF IndexesFor, Begin
<1>4. /\ call' = c /\ before' = Contents("self")
      /\ UNCHANGED <<slots, length, persistent, misuse, stranded>>
  BY DEF Begin
<1>5. Len(before') = length["self"]
  BY <1>1, <1>4 DEF Contents
<1>6. /\ \A a \in Leaf, k \in Index :
           Alive(a, k)' <=> (a = "self" /\ (k < length["self"] \/ k \in stranded))
  BY <1>2, <1>4 DEF Filled, Alive
<1>7. /\ c.name = "insert" => phase' = "shift" /\ i' = length["self"]
      /\ c.name = "assign" => phase' = (IF persistent THEN "clone" ELSE "emplace") /\ i' = 0
      /\ c.name \in {"erase", "pop_back"} =>
           phase' = "prefix" /\ i' = (IF persistent THEN 0 ELSE c.index)
  BY <1>3 DEF Begin
<1>8. \A m \in Placed' : m \in 0 .. length["self"] - 1 /\ ~persistent /\ HomeOf(m)' = <<"self", m>>
  <2>1. CASE c.name = "insert"
    <3>1. Placed' = {k \in 0 .. length["self"] : length["self"] < k}
      BY <1>4, <1>7, <2>1 DEF Placed
    <3> QED BY <1>1, <3>1
  <2>2. CASE c.name = "assign"
    <3>1. Placed' = {}
      BY <1>1, <1>4, <1>7, <2>2 DEF Placed
    <3> QED BY <3>1
  <2>3. CASE c.name \in {"erase", "pop_back"}
    <3>1. Placed' = {k \in 0 .. length["self"] : k < IF persistent THEN 0 ELSE c.index}
      BY <1>4, <1>7, <2>3 DEF Placed
    <3>2. ~persistent => \A m : HomeOf(m)' = <<"self", m>>
      BY <1>4, <2>3 DEF HomeOf, Splits, Dst
    <3> QED BY <1>1, <1>3, <3>1, <3>2
  <2> QED BY <1>3, <2>1, <2>2, <2>3
<1>9. Filled(Placed)'
  <2> SUFFICES ASSUME NEW a \in Leaf, NEW k \in Index
               PROVE  (\E m \in Placed' : HomeOf(m)' = <<a, k>>)
                        => a = "self" /\ k < length["self"]
    BY <1>4, <1>6 DEF Filled
  <2> QED BY <1>1, <1>8
<1>10. CallFits'
  BY <1>1, <1>3, <1>4, <1>5, <1>7 DEF CallFits
<1>11. PrefixStart(call)' \in Nat
  <2>1. Splits' => SplitAt' \in Nat
    <3>1. Splits' => LeafSplitPoint(c.index, c.rightMost) \in 1 .. LeafSize
      BY <1>1, <1>3, <1>4, LeafSplitPointRange, NodeSizeAssumption DEF Splits
    <3> QED BY <1>4, <3>1, NodeSizeAssumption DEF SplitAt
  <2> QED BY <1>3, <1>4, <2>1 DEF PrefixStart
<1>12. Position' /\ Sizes'
  BY <1>1, <1>3, <1>4, <1>7 DEF Position, Sizes
<1>13. Shaped'
  BY <1>1, <1>4 DEF Shaped, IsLengths
<1> QED BY <1>1, <1>3, <1>4, <1>7, <1>9, <1>10, <1>12, <1>13 DEF SlotsInv, Placing

\* The steps between the calls, and the destructor.
LEMMA OutsideSlots ==
  ASSUME SlotsInv, MakePersistent \/ Destroy \/ DestroySlot \/ NewLeaf PROVE SlotsInv'
<1>1. /\ Shaped /\ misuse = {} /\ persistent \in BOOLEAN
      /\ length["self"] \in 0 .. LeafSize /\ length["self"] \in Nat
      /\ LeafSize \in Nat /\ i \in Nat
  BY NodeSizeAssumption DEF SlotsInv, Sizes, Position
<1>2. CASE MakePersistent
  <2>1. /\ phase = "idle" /\ persistent' = TRUE
        /\ UNCHANGED <<slots, length, call, phase, i, before, misuse, argument, stranded>>
    BY <1>2 DEF MakePersistent, callVars, history
  <2>2. Placed = {} /\ Placed' = {}
    BY <2>1 DEF Placed
  <2>3. Filled(Placed)'
    BY <2>1, <2>2 DEF SlotsInv, Placing, Filled, Alive
  <2>4. Position' /\ Sizes' /\ Shaped'
    BY <1>1, <2>1 DEF SlotsInv, Position, Sizes, Shaped, IsLengths
  <2> QED BY <1>1, <2>1, <2>3, <2>4 DEF SlotsInv, Running
<1>3. CASE Destroy
  <2>1. /\ phase = "idle" /\ phase' = "destroy" /\ i = 0
        /\ UNCHANGED <<slots, length, persistent, call, i, before, misuse, argument, stranded>>
    BY <1>3 DEF Destroy, history, SlotsInv, Position
  <2>2. Placed = {}
    BY <2>1 DEF Placed
  <2>3. \A k \in Index : k \in Nat /\ (Alive("self", k)' <=> k < length["self"] \/ k \in stranded)
    BY <2>1, <2>2 DEF SlotsInv, Placing, Filled, Alive, Index, Leaf
  <2>4. Destroying'
    BY <1>1, <2>1, <2>3 DEF Destroying
  <2>5. Position' /\ Sizes' /\ Shaped'
    BY <1>1, <2>1 DEF SlotsInv, Position, Sizes, Shaped, IsLengths
  <2> QED BY <1>1, <2>1, <2>4, <2>5 DEF SlotsInv, Running, Placing
<1>4. CASE DestroySlot
  <2>1. /\ phase = "destroy" /\ Destroying /\ Shaped'
        /\ UNCHANGED <<length, persistent, call, before, argument, stranded>>
        /\ stranded \subseteq Index /\ \A k \in stranded : length["self"] <= k
    BY <1>1, <1>4, DestroyStep DEF SlotsInv, DestroySlot, Sizes
  <2>2. CASE i < length["self"]
    <3>1. Destructs("self", i) /\ i' = i + 1 /\ phase' = "destroy" /\ i \in Index
      BY <1>1, <1>4, <2>1, <2>2 DEF DestroySlot, Index
    <3>2. \A m \in Index : Alive("self", m)' <=> Alive("self", m) /\ m # i
      BY <1>1, <3>1, DestructsEmpty DEF Shaped, Leaf
    <3>3. Alive("self", i)
      BY <1>1, <2>1, <2>2, <3>1 DEF Destroying
    <3>4. misuse' = {}
      BY <1>1, <3>1, <3>3 DEF Destructs
    <3>5. Destroying'
      <4> SUFFICES ASSUME NEW k \in Index
                   PROVE  Alive("self", k)' <=> (i + 1 <= k /\ k < length["self"]) \/ k \in stranded
        BY <2>1, <3>1 DEF Destroying
      <4>1. k \in Nat /\ (k \in stranded => length["self"] <= k)
        BY <2>1 DEF Index
      <4> QED BY <1>1, <2>1, <2>2, <3>2, <4>1 DEF Destroying
    <3>6. Position' /\ Sizes'
      BY <1>1, <2>1, <3>1 DEF SlotsInv, Position, Sizes
    <3> QED BY <2>1, <3>1, <3>4, <3>5, <3>6 DEF SlotsInv, Running, Placing
  <2>3. CASE ~(i < length["self"])
    <3>1. phase' = "freed" /\ i' = 0 /\ UNCHANGED misuse
      BY <1>4, <2>3 DEF DestroySlot, Continues
    <3>2. Position' /\ Sizes'
      BY <1>1, <2>1, <3>1 DEF SlotsInv, Position, Sizes
    <3> QED BY <1>1, <2>1, <3>1, <3>2 DEF SlotsInv, Running, Placing
  <2> QED BY <2>2, <2>3
<1>5. CASE NewLeaf
  <2>1. /\ phase' = "idle" /\ i' = 0 /\ misuse' = {} /\ persistent' = FALSE /\ stranded' = {}
        /\ \A a \in Leaf : length'[a] = 0
        /\ \A a \in Leaf, k \in Index : ~Alive(a, k)'
    BY <1>1, <1>5 DEF NewLeaf, SlotsInv, Position, Alive, Blank
  <2>2. Placed' = {}
    BY <2>1 DEF Placed
  <2>3. Filled(Placed)'
    <3>1. \A k \in Index : ~(k < 0)
      BY DEF Index
    <3> QED BY <2>1, <2>2, <3>1 DEF Filled, Leaf
  <2>4. Position' /\ Sizes'
    <3>1. length'["self"] = 0 /\ length'["left"] = 0 /\ length'["right"] = 0
      BY <2>1 DEF Leaf
    <3>2. Position'
      BY <2>1, <3>1 DEF Position
    <3>3. Sizes'
      <4>1. persistent' \in BOOLEAN
        BY <2>1, Zenon
      <4>2. length'["self"] \in 0 .. LeafSize /\ stranded' \subseteq Index
        BY <1>1, <2>1, <3>1
      <4> QED BY <2>1, <4>1, <4>2, Zenon DEF Sizes
    <3> QED BY <3>2, <3>3
  <2>5. Shaped'
    BY <1>1, <1>5, NewLeafStep
  <2> QED BY <2>1, <2>3, <2>4, <2>5 DEF SlotsInv, Running
<1> QED BY <1>2, <1>3, <1>4, <1>5

\* A new leaf is empty.
LEMMA SlotsStart == Init => SlotsInv
<1> SUFFICES ASSUME Init PROVE SlotsInv
  OBVIOUS
<1>1. /\ phase = "idle" /\ i = 0 /\ misuse = {} /\ persistent = FALSE /\ stranded = {}
      /\ length["self"] = 0 /\ length["left"] = 0 /\ length["right"] = 0
      /\ \A a \in Leaf, k \in Index : ~Alive(a, k)
  BY DEF Init, Alive, Blank, Leaf
<1>2. Filled(Placed)
  <2>1. Placed = {} /\ \A k \in Index : ~(k < 0)
    BY <1>1 DEF Placed, Index
  <2> QED BY <1>1, <2>1 DEF Filled
<1>3. Position
  BY <1>1 DEF Position
<1>4. Sizes
  <2>1. persistent \in BOOLEAN
    BY <1>1, Zenon
  <2>2. length["self"] \in 0 .. LeafSize /\ stranded \subseteq Index
    BY <1>1, NodeSizeAssumption
  <2> QED BY <1>1, <2>1, <2>2, Zenon DEF Sizes
<1>5. Shaped
  BY DEF Init, Shaped, IsArrays, IsLengths, Blank
<1> QED BY <1>1, <1>2, <1>3, <1>4, <1>5 DEF SlotsInv, Running

\* Every step keeps the invariant.
LEMMA SlotsKept == SlotsInv /\ [Next]_vars => SlotsInv'
<1> SUFFICES ASSUME SlotsInv, [Next]_vars PROVE SlotsInv'
  OBVIOUS
<1>1. CASE Emplace
  <2>1. call.name \in {"insert", "assign"}
    BY <1>1 DEF Emplace, SlotsInv, Position
  <2> QED BY <1>1, <2>1, EmplaceInsertSlots, EmplaceAssignSlots
<1>2. CASE UNCHANGED vars
  <2>1. /\ UNCHANGED <<slots, length, persistent, call, phase, i, before, misuse, stranded>>
    BY <1>2 DEF vars, callVars, history
  <2>2. \A k : HomeOf(k)' = HomeOf(k) /\ (\A a : Alive(a, k)' <=> Alive(a, k))
    BY <2>1, HomesStay DEF Alive
  <2>3. Splits' = Splits /\ SplitAt' = SplitAt /\ Dst' = Dst
        /\ PrefixStart(call)' = PrefixStart(call)
        /\ StrandedBy(call)' = StrandedBy(call) /\ \A a : Stranded(a)' = Stranded(a)
    BY <2>1 DEF Splits, SplitAt, Dst, PrefixStart, StrandedBy, Stranded
  <2>4. Placed' = Placed
    BY <2>1, <2>3 DEF Placed
  <2>5. (Filled(Placed) => Filled(Placed)') /\ (Trimming => Trimming')
    BY <2>1, <2>2, <2>3, <2>4 DEF Filled, Trimming
  <2>6. NewLengths' = NewLengths
    BY <2>1, <2>3 DEF NewLengths
  <2>7. (Divided(NewLengths) => Divided(NewLengths)') /\ (Divided(length) => Divided(length)')
    BY <2>1, <2>2, <2>3, <2>6 DEF Divided
  <2>8. (Ending => Ending') /\ (Destroying => Destroying')
    BY <2>1, <2>2, <2>7 DEF Ending, Destroying
  <2>9. Position' /\ Sizes' /\ Shaped' /\ (Running => CallFits')
    BY <2>1, <2>3 DEF SlotsInv, Position, Sizes, Shaped, IsLengths, CallFits
  <2> QED BY <2>1, <2>5, <2>7, <2>8, <2>9 DEF SlotsInv, Running, Placing
<1> QED
  BY <1>1, <1>2, BeginSlots, ShiftSlots, CloneSlots, PrefixSlots, TrimSlots, CloseSlots,
     ThrowSlots, FinishSlots, TakeSlots, OutsideSlots
  DEF Next

\* It holds in every reachable state.
LEMMA SlotsHold == Spec => []SlotsInv
  BY SlotsStart, SlotsKept, PTL DEF Spec

\* No loop reads, assigns or destroys a slot without a value or constructs one over
\* another, for all capacities, values and calls: set and emplace of
\* UninitializedArray are always told the truth.
THEOREM SlotsAreRespected == Spec => []SlotsRespected
<1>1. SlotsInv => SlotsRespected
  BY DEF SlotsInv, SlotsRespected
<1> QED BY <1>1, SlotsHold, PTL

\* After every call, for all capacities, the length of each leaf divides its values
\* from the raw memory, but for what pop_back strands.
THEOREM LengthsDivide == Spec => []LengthDivides
<1>1. SlotsInv => LengthDivides
  <2> SUFFICES ASSUME SlotsInv PROVE LengthDivides
    OBVIOUS
  <2>1. CASE phase = "idle"
    <3>1. Placed = {}
      BY <2>1 DEF Placed
    <3>2. \A k \in Index : Alive("self", k) <=> k < length["self"] \/ k \in stranded
      BY <2>1, <3>1 DEF SlotsInv, Placing, Filled, Leaf
    <3> QED BY <2>1, <3>2 DEF LengthDivides, Stranded
  <2>2. CASE phase = "done"
    BY <2>2 DEF SlotsInv, Ending, Divided, LengthDivides, Results
  <2> QED BY <2>1, <2>2 DEF LengthDivides
<1> QED BY <1>1, SlotsHold, PTL

-----------------------------------------------------------------------------
(* The values *)

\* What a slot may hold.
Cells == Values \cup {Raw, Moved}

\* The new contents, value by value.
NewItem(k) ==
    CASE call.name = "insert" ->
           IF k < call.index THEN before[k + 1]
           ELSE IF k = call.index THEN Wanted ELSE before[k]
      [] call.name = "assign" -> IF k = call.index THEN Wanted ELSE before[k + 1]
      [] OTHER -> IF k < call.index THEN before[k + 1] ELSE before[k + 2]

NewLen ==
    CASE call.name = "insert" -> length["self"] + 1
      [] call.name = "assign" -> length["self"]
      [] OTHER -> length["self"] - 1

\* Value k of the new contents is where it belongs.
At(k) == slots[HomeOf(k)[1]][HomeOf(k)[2]]
Correct(k) == (k = call.index /\ argument = "spoiled") \/ At(k) = NewItem(k)

\* The values the loops are still to read.
Todo ==
    {k \in 0 .. length["self"] - 1 :
       \/ persistent
       \/ CASE phase = "shift" -> k < i
            [] phase = "emplace" -> call.name = "insert" => k < call.index
            [] phase = "prefix" -> call.name = "insert" => i <= k /\ k < call.index
            [] phase = "close" -> i <= k
            [] OTHER -> FALSE}

\* The values of the new contents that are in place for good.
Settled ==
    CASE phase = "trim" -> 0 .. length["self"]
      [] phase = "finish" -> 0 .. NewLen - 1
      [] phase = "clone" -> {}
      [] phase = "emplace" -> IF call.name = "insert" THEN Placed ELSE {}
      [] phase = "prefix" ->
           Placed \cup {k \in 0 .. length["self"] :
                          /\ call.name = "insert" /\ ~persistent
                          /\ k < call.index /\ k < PrefixStart(call)}
      [] OTHER -> Placed

\* A leaf that is being copied for an assignment.
Copied ==
    phase \in {"clone", "emplace"} /\ call.name = "assign" =>
        \A k \in Placed : slots["left"][k] = before[k + 1]

\* The argument of a call is a value, or refers to one of the leaf.
ArgumentFits ==
    call.name \in {"insert", "assign"} =>
        /\ call.several \in BOOLEAN
        /\ call.arg \in Values \cup (0 .. length["self"] - 1)

\* During a call: the values still to be read, and those in place.
Loads ==
    /\ before \in Seq(Cells \ {Raw})
    /\ ArgumentFits
    /\ phase \in {"shift", "clone", "emplace", "prefix", "close"} =>
         \A k \in Todo : slots["self"][k] = before[k + 1]
    /\ \A k \in Settled : Correct(k)
    /\ Copied

\* The slots of all leaves.
Typed == slots \in [Leaf -> [Index -> Cells]]

\* A store of cells.
LEMMA TypedStays ==
  ASSUME IsArrays(slots'), \A c \in Leaf, m \in Index : slots'[c][m] \in Cells
  PROVE  Typed'
  BY DEF IsArrays, Typed

\* Only a leaf changed in place has homes in its own array, at their own index.
LEMMA HomeSelf ==
  ASSUME CallFits, length["self"] \in 0 .. LeafSize,
         NEW k \in 0 .. length["self"], NEW n, HomeOf(k) = <<"self", n>>
  PROVE  k = n /\ ~persistent
  BY DEF HomeOf, Dst

\* A loop's move to a home, by the values: that home has the value, the homes of
\* the others have what they had, and so has the leaf where the loop is not.
LEMMA HomeMoves ==
  ASSUME Shaped, CallFits, length["self"] \in 0 .. LeafSize, Typed,
         NEW k, IsNew(k), NEW j \in 0 .. length["self"] - 1, TransfersHome(j, k),
         UNCHANGED <<length, persistent, call>>
  PROVE  /\ Typed'
         /\ At(k)' = slots["self"][j]
         /\ \A m : IsNew(m) /\ m # k /\ (persistent \/ m # j) => At(m)' = At(m)
         /\ \A n \in Index : persistent \/ (n # j /\ n # k) =>
              slots'["self"][n] = slots["self"][n]
<1>1. PICK a, s : a = HomeOf(k)[1] /\ s = HomeOf(k)[2]
  OBVIOUS
<1>2. a \in Leaf /\ s \in Index /\ HomeOf(k) = <<a, s>>
  BY <1>1, HomeInRange
<1>3. j \in Index
  BY NodeSizeAssumption DEF Index
<1>4. Transfers(j, a, s)
  BY <1>1 DEF TransfersHome
<1>5. \A c \in Leaf, m \in Index :
            slots'[c][m] = IF c = a /\ m = s THEN slots["self"][j]
                           ELSE IF c = "self" /\ m = j THEN LeavesBehind(j)
                           ELSE slots[c][m]
  BY <1>2, <1>3, <1>4, TransfersValues DEF Shaped
<1>6. LeavesBehind(j) \in Cells /\ slots["self"][j] \in Cells
  BY <1>3 DEF LeavesBehind, Typed, Cells, Leaf
<1>7. Typed'
  <2>1. IsArrays(slots')
    BY <1>4, TransfersFrom DEF Shaped
  <2>2. \A c \in Leaf, m \in Index : slots'[c][m] \in Cells
    BY <1>5, <1>6 DEF Typed
  <2> QED BY <2>1, <2>2, TypedStays
<1>8. \A m : HomeOf(m)' = HomeOf(m)
  BY HomesStay
<1>9. At(k)' = slots["self"][j]
  BY <1>1, <1>2, <1>5, <1>8 DEF At
<1>10. ASSUME NEW m, IsNew(m), m # k, persistent \/ m # j
       PROVE  At(m)' = At(m)
  <2>1. PICK b, t : b = HomeOf(m)[1] /\ t = HomeOf(m)[2]
    OBVIOUS
  <2>2. b \in Leaf /\ t \in Index /\ HomeOf(m) = <<b, t>>
    BY <1>10, <2>1, HomeInRange
  <2>3. ~(b = a /\ t = s)
    BY <1>2, <1>10, <2>2, HomesApart DEF IsNew
  <2>4. b = "self" /\ t = j => ~persistent /\ m = j
    BY <1>10, <2>2, HomeSelf DEF IsNew
  <2>5. slots'[b][t] = slots[b][t]
    BY <1>5, <1>10, <2>2, <2>3, <2>4
  <2> QED BY <1>8, <2>1, <2>5 DEF At
<1>11. ASSUME NEW n \in Index, persistent \/ (n # j /\ n # k)
       PROVE  slots'["self"][n] = slots["self"][n]
  <2>1. CASE persistent
    <3>1. a # "self"
      BY <1>1, <2>1, Homes
    <3>2. slots'["self"] = slots["self"]
      BY <1>4, <2>1, <3>1, TransfersFrom DEF Shaped
    <3> QED BY <3>2
  <2>2. CASE n # j /\ n # k
    <3>1. ~(a = "self" /\ s = n)
      BY <1>2, <2>2, HomeSelf DEF IsNew
    <3> QED BY <1>5, <2>2, <3>1 DEF Leaf
  <2> QED BY <1>11, <2>1, <2>2
<1> QED BY <1>7, <1>9, <1>10, <1>11

\* The new contents depend on the call and the old contents only.
LEMMA ItemsStay ==
  ASSUME UNCHANGED <<call, before>>
  PROVE  Wanted' = Wanted /\ \A k : NewItem(k)' = NewItem(k)
  BY DEF Wanted, NewItem

\* What LoopsMatchNodeOps and ArgumentIntact need to know in the loops.
ValuesInv ==
    /\ Typed
    /\ Running => Loads
    /\ phase \in {"idle", "destroy", "freed"} => argument = "unread"
    /\ ArgumentIntact
    /\ LoopsMatchNodeOps

\* What became of the argument stays known.
LEMMA Unspoiled ==
  ASSUME ArgumentIntact, UNCHANGED <<persistent, call, argument>>
  PROVE  ArgumentIntact'
  BY DEF ArgumentIntact

-----------------------------------------------------------------------------
(* The steps *)

\* What every step of a running call can use.
LEMMA InCallValues ==
  ASSUME SlotsInv, ValuesInv, Running
  PROVE  /\ CallFits /\ Shaped /\ Typed /\ Loads /\ persistent \in BOOLEAN
         /\ length["self"] \in Nat /\ LeafSize \in Nat
         /\ length["self"] \in 0 .. LeafSize /\ length["self"] <= LeafSize
         /\ call.index \in Nat /\ call.index <= length["self"] /\ i \in Nat
         /\ ArgumentIntact
  BY InCall DEF SlotsInv, Sizes, ValuesInv

\* What the loop steps have in common: one value goes home, and the rest stays.
LEMMA LoopValues ==
  ASSUME SlotsInv, ValuesInv, Running, Running',
         UNCHANGED <<length, persistent, call, before, argument>>,
         NEW k, IsNew(k), NEW j \in 0 .. length["self"] - 1, TransfersHome(j, k),
         phase \in {"shift", "clone", "prefix", "close"}, phase' = phase,
         j \in Todo, Settled' \subseteq Settled \cup {k},
         k \in Settled' => NewItem(k) = before[j + 1],
         \A m \in Settled : IsNew(m) /\ m # j,
         Todo' \subseteq Todo, persistent \/ Todo' \cap {j, k} = {},
         Copied'
  PROVE  ValuesInv'
<1>1. /\ CallFits /\ Shaped /\ Typed /\ Loads
      /\ length["self"] \in 0 .. LeafSize /\ length["self"] \in Nat /\ LeafSize \in Nat
      /\ ArgumentIntact
  BY InCallValues
<1>2. /\ Typed'
      /\ At(k)' = slots["self"][j]
      /\ \A m : IsNew(m) /\ m # k /\ (persistent \/ m # j) => At(m)' = At(m)
      /\ \A n \in Index : persistent \/ (n # j /\ n # k) =>
           slots'["self"][n] = slots["self"][n]
  BY <1>1, HomeMoves
<1>3. slots["self"][j] = before[j + 1]
  BY <1>1 DEF Loads
<1>4. Wanted' = Wanted /\ \A m : NewItem(m)' = NewItem(m)
  BY ItemsStay
<1>5. ASSUME NEW m \in Settled' PROVE Correct(m)'
  <2>1. CASE m = k
    BY <1>2, <1>3, <1>4, <1>5, <2>1 DEF Correct
  <2>2. CASE m # k
    <3>1. m \in Settled /\ Correct(m)
      BY <1>1, <1>5, <2>2 DEF Loads
    <3>2. At(m)' = At(m)
      BY <1>2, <2>2, <3>1
    <3> QED BY <1>4, <3>1, <3>2 DEF Correct
  <2> QED BY <2>1, <2>2
<1>6. ASSUME NEW n \in Todo' PROVE slots'["self"][n] = before'[n + 1]
  <2>1. n \in Todo /\ n \in Index
    BY <1>1, <1>6 DEF Todo, Index
  <2>2. slots'["self"][n] = slots["self"][n]
    BY <1>2, <1>6, <2>1
  <2> QED BY <1>1, <2>1, <2>2 DEF Loads
<1>7. ArgumentFits' /\ before' \in Seq(Cells \ {Raw})
  BY <1>1 DEF Loads, ArgumentFits
<1>8. Loads'
  BY <1>5, <1>6, <1>7 DEF Loads
<1>9. ArgumentIntact'
  BY <1>1, Unspoiled
<1> QED BY <1>2, <1>8, <1>9 DEF ValuesInv, LoopsMatchNodeOps

\* Steps that only go on to the next loop.
LEMMA OnwardValues ==
  ASSUME SlotsInv, ValuesInv, Running, Running',
         UNCHANGED <<slots, persistent, call, before, argument>>,
         length'["self"] = length["self"],
         Settled' \subseteq Settled,
         phase' \in {"shift", "clone", "emplace", "prefix", "close"} =>
           Todo' \subseteq Todo /\ phase \in {"shift", "clone", "emplace", "prefix", "close"},
         Copied'
  PROVE  ValuesInv'
<1>1. Typed /\ Loads /\ ArgumentIntact
  BY InCallValues
<1>2. \A m : At(m)' = At(m)
  BY HomesStay DEF At
<1>3. Wanted' = Wanted /\ \A m : NewItem(m)' = NewItem(m)
  BY ItemsStay
<1>4. \A m \in Settled' : Correct(m)'
  BY <1>1, <1>2, <1>3 DEF Correct, Loads
<1>5. Loads'
  BY <1>1, <1>4 DEF Loads, ArgumentFits
<1>6. ArgumentIntact'
  BY <1>1, Unspoiled
<1>7. Typed'
  BY <1>1 DEF Typed
<1> QED BY <1>5, <1>6, <1>7 DEF ValuesInv, LoopsMatchNodeOps, Running

\* insert_index, the loop over the values right of the index.
LEMMA ShiftValues == ASSUME SlotsInv, ValuesInv, Shift PROVE ValuesInv'
<1>0. Running /\ phase = "shift"
  BY DEF Shift, Running
<1>1. /\ CallFits /\ call.name = "insert" /\ i \in call.index .. length["self"] /\ i \in Nat
      /\ length["self"] \in Nat /\ call.index \in Nat /\ persistent \in BOOLEAN
  BY <1>0, InCallValues DEF SlotsInv, Position
<1>2. UNCHANGED <<length, persistent, call, before, argument>>
  BY DEF Shift
<1>3. /\ Settled = {k \in 0 .. length["self"] : i < k}
      /\ Todo = {k \in 0 .. length["self"] - 1 : persistent \/ k < i}
  BY <1>0 DEF Settled, Todo, Placed
<1>4. CASE i > call.index
  <2>1. TransfersHome(i - 1, i) /\ phase' = "shift" /\ i' = i - 1
    BY <1>0, <1>4 DEF Shift, ShiftOrder
  <2>2. /\ Settled' = {k \in 0 .. length["self"] : i - 1 < k}
        /\ Todo' = {k \in 0 .. length["self"] - 1 : persistent \/ k < i - 1}
    BY <1>2, <2>1 DEF Settled, Todo, Placed
  <2>3. IsNew(i) /\ i - 1 \in 0 .. length["self"] - 1 /\ i - 1 \in Todo
    BY <1>1, <1>3, <1>4 DEF IsNew
  <2>4. Settled' \subseteq Settled \cup {i} /\ \A m \in Settled : IsNew(m) /\ m # i - 1
    BY <1>1, <1>3, <2>2 DEF IsNew
  <2>5. NewItem(i) = before[(i - 1) + 1]
    BY <1>1, <1>4 DEF NewItem
  <2>6. Todo' \subseteq Todo /\ (persistent \/ Todo' \cap {i - 1, i} = {})
    BY <1>1, <1>3, <2>2
  <2>7. Copied'
    BY <2>1 DEF Copied
  <2> QED BY <1>0, <1>2, <2>1, <2>3, <2>4, <2>5, <2>6, <2>7, LoopValues DEF Running
<1>5. CASE ~(i > call.index)
  <2>1. phase' = "emplace" /\ i' = 0 /\ UNCHANGED slots
    BY <1>5 DEF Shift, Continues
  <2>2. /\ Settled' = {k \in 0 .. length["self"] : call.index < k}
        /\ Todo' = {k \in 0 .. length["self"] - 1 : persistent \/ k < call.index}
    BY <1>1, <1>2, <2>1 DEF Settled, Todo, Placed
  <2>3. Settled' \subseteq Settled /\ Todo' \subseteq Todo
    BY <1>1, <1>3, <1>5, <2>2
  <2>4. Copied'
    BY <1>1, <1>2 DEF Copied
  <2> QED BY <1>0, <1>2, <2>1, <2>3, <2>4, OnwardValues DEF Running
<1> QED BY <1>4, <1>5

\* The copy constructor.
LEMMA CloneValues == ASSUME SlotsInv, ValuesInv, Clone PROVE ValuesInv'
<1>0. Running /\ phase = "clone"
  BY DEF Clone, Running
<1>1. /\ CallFits /\ call.name = "assign" /\ persistent /\ i \in Nat /\ i <= length["self"]
      /\ length["self"] \in Nat /\ Shaped /\ Typed /\ Loads /\ length["self"] \in 0 .. LeafSize
      /\ LeafSize \in Nat
  BY <1>0, InCallValues DEF SlotsInv, Position
<1>2. UNCHANGED <<persistent, call, before, argument>>
  BY DEF Clone
<1>3. /\ Placed = {k \in 0 .. length["self"] : k < i}
      /\ Todo = 0 .. length["self"] - 1
  BY <1>0, <1>1 DEF Placed, Todo
<1>4. CASE i < length["self"]
  <2>1. Transfers(i, "left", i) /\ phase' = "clone" /\ i' = i + 1 /\ UNCHANGED length
    BY <1>0, <1>4 DEF Clone
  <2>2. HomeOf(i) = <<"left", i>>
    BY <1>1 DEF HomeOf, Splits, Dst
  <2>3. TransfersHome(i, i)
    BY <2>1, <2>2 DEF TransfersHome
  <2>4. /\ Placed' = {k \in 0 .. length["self"] : k < i + 1}
        /\ Todo' = Todo /\ Settled = {} /\ Settled' = {}
    BY <1>0, <1>1, <1>2, <1>3, <2>1 DEF Placed, Todo, Settled
  <2>5. IsNew(i) /\ i \in 0 .. length["self"] - 1 /\ i \in Todo /\ i \in Index
    BY <1>1, <1>3, <1>4 DEF IsNew, Index
  <2>6. \A m \in Index : slots'["left"][m] = IF m = i THEN slots["self"][i] ELSE slots["left"][m]
    BY <1>1, <2>1, <2>5, TransfersValues DEF Shaped, Leaf
  <2>7. Copied'
    <3>1. \A k \in Placed' : k \in Index /\ (k # i => k \in Placed)
      BY <1>1, <1>3, <1>4, <2>4 DEF Index
    <3>2. slots["self"][i] = before[i + 1]
      BY <1>0, <1>1, <2>5 DEF Loads
    <3>3. \A k \in Placed : slots["left"][k] = before[k + 1]
      BY <1>0, <1>1 DEF Loads, Copied
    <3> QED BY <1>2, <2>6, <3>1, <3>2, <3>3 DEF Copied
  <2> QED BY <1>0, <1>1, <1>2, <2>1, <2>3, <2>4, <2>5, <2>7, LoopValues DEF Running
<1>5. CASE ~(i < length["self"])
  <2>1. /\ phase' = "emplace" /\ i' = 0 /\ UNCHANGED slots
        /\ length' = [length EXCEPT !["left"] = length["self"]]
    BY <1>5 DEF Clone, Continues
  <2>2. length'["self"] = length["self"]
    BY <1>1, <2>1 DEF Shaped, IsLengths, Leaf
  <2>3. /\ Placed' = {k \in 0 .. length["self"] : k < length["self"]}
        /\ Todo' = Todo /\ Settled' = {}
    BY <1>1, <1>2, <1>3, <2>1, <2>2 DEF Placed, Todo, Settled
  <2>4. Copied'
    <3>1. Placed' = Placed
      BY <1>1, <1>3, <1>5, <2>3
    <3> QED BY <1>0, <1>1, <1>2, <2>1, <3>1 DEF Loads, Copied
  <2> QED BY <1>0, <1>2, <2>1, <2>2, <2>3, <2>4, OnwardValues DEF Running
<1> QED BY <1>4, <1>5

\* The argument is stored: what the call wants, if the argument is intact.
LEMMA EmplaceStores ==
  ASSUME SlotsInv, ValuesInv, Emplace
  PROVE  /\ Typed'
         /\ argument' # "spoiled" => At(call.index)' = Wanted
         /\ \A m : IsNew(m) /\ m # call.index => At(m)' = At(m)
         /\ \A n \in Index : persistent \/ n # call.index =>
              slots'["self"][n] = slots["self"][n]
         /\ ArgumentIntact'
<1>0. Running /\ phase = "emplace"
  BY DEF Emplace, Running
<1>1. /\ CallFits /\ Shaped /\ Typed /\ Loads /\ persistent \in BOOLEAN
      /\ length["self"] \in 0 .. LeafSize /\ length["self"] \in Nat /\ LeafSize \in Nat
      /\ call.name \in {"insert", "assign"} /\ call.index \in Nat
      /\ call.index <= length["self"]
  BY <1>0, InCallValues DEF SlotsInv, Position
<1>2. IsNew(call.index)
  BY <1>1 DEF CallFits, IsNew
<1>3. PICK a, s : a = HomeOf(call.index)[1] /\ s = HomeOf(call.index)[2]
  OBVIOUS
<1>4. a \in Leaf /\ s \in Index /\ HomeOf(call.index) = <<a, s>>
  BY <1>1, <1>2, <1>3, HomeInRange
<1>5. PICK u, v : u = ArgumentAt(a, s) /\ v = IF u = Raw THEN Moved ELSE u
  OBVIOUS
<1>6. /\ slots' = [slots EXCEPT ![a][s] = v]
      /\ argument' = IF u = Wanted THEN "intact" ELSE "spoiled"
      /\ UNCHANGED <<length, persistent, call, before>>
  BY <1>3, <1>5 DEF Emplace
<1>7. call.several \in BOOLEAN /\ call.arg \in Values \cup (0 .. length["self"] - 1)
  BY <1>1 DEF Loads, ArgumentFits
<1>8. u \in Cells /\ v \in Cells /\ v # Raw
  <2>1. call.arg \notin Values => call.arg \in Index
    BY <1>1, <1>7 DEF Index
  <2>2. call.arg \notin Values => slots["self"][call.arg] \in Cells
    BY <1>1, <2>1 DEF Typed, Leaf
  <2>3. u \in Cells
    BY <1>5, <2>2 DEF ArgumentAt, Cells
  <2> QED BY <1>5, <2>3 DEF Cells, Raw, Moved
<1>9. \A c \in Leaf, m \in Index :
         slots'[c][m] = IF c = a /\ m = s THEN v ELSE slots[c][m]
  <2>1. PICK new : new = [slots EXCEPT ![a][s] = v]
    OBVIOUS
  <2>2. \A c \in Leaf, m \in Index : new[c][m] = IF c = a /\ m = s THEN v ELSE slots[c][m]
    BY <1>1, <2>1 DEF Shaped, IsArrays
  <2> QED BY <1>6, <2>1, <2>2
<1>10. Typed'
  <2>1. IsArrays(slots')
    BY <1>1, EmplaceStep DEF Shaped
  <2>2. \A c \in Leaf, m \in Index : slots'[c][m] \in Cells
    BY <1>1, <1>8, <1>9 DEF Typed
  <2> QED BY <2>1, <2>2, TypedStays
<1>11. \A m : HomeOf(m)' = HomeOf(m)
  BY <1>6, HomesStay
<1>12. Wanted # Raw
  <2>1. CASE call.arg \in Values
    BY <2>1, SlotsAssumption DEF Wanted
  <2>2. CASE call.arg \notin Values
    <3>1. call.arg + 1 \in 1 .. Len(before)
      BY <1>1, <1>7, <2>2 DEF CallFits
    <3>2. before[call.arg + 1] \in Cells \ {Raw}
      BY <1>1, <3>1, ElementOfSeq DEF Loads
    <3> QED BY <2>2, <3>2 DEF Wanted
  <2> QED BY <2>1, <2>2
<1>13. argument' # "spoiled" => At(call.index)' = Wanted
  <2>1. argument' # "spoiled" => u = Wanted /\ v = Wanted
    BY <1>5, <1>6, <1>12
  <2> QED BY <1>3, <1>4, <1>6, <1>9, <1>11, <2>1 DEF At
<1>14. ASSUME NEW m, IsNew(m), m # call.index PROVE At(m)' = At(m)
  <2>1. PICK b, t : b = HomeOf(m)[1] /\ t = HomeOf(m)[2]
    OBVIOUS
  <2>2. b \in Leaf /\ t \in Index /\ HomeOf(m) = <<b, t>>
    BY <1>1, <1>14, <2>1, HomeInRange
  <2>3. ~(b = a /\ t = s)
    BY <1>1, <1>2, <1>4, <1>14, <2>2, HomesApart DEF IsNew
  <2> QED BY <1>9, <1>11, <2>1, <2>2, <2>3 DEF At
<1>15. a = "self" => s = call.index /\ ~persistent
  BY <1>1, <1>2, <1>4, HomeSelf DEF IsNew
<1>16. \A n \in Index : persistent \/ n # call.index => slots'["self"][n] = slots["self"][n]
  BY <1>9, <1>15 DEF Leaf
<1>17. ArgumentIntact'
  <2> SUFFICES ASSUME u # Wanted
               PROVE  /\ ~persistent
                      /\ IF call.name = "insert" THEN call.arg >= call.index
                         ELSE call.several /\ call.arg = call.index
    BY <1>6 DEF ArgumentIntact
  <2>1. /\ call.arg \notin Values /\ call.arg \in 0 .. length["self"] - 1
        /\ Wanted = before[call.arg + 1]
    BY <1>5, <1>7 DEF ArgumentAt, Wanted
  <2>2. CASE call.several /\ s < length[a] /\ <<a, s>> = <<"self", call.arg>>
    <3>1. a = "self" /\ s = call.arg
      BY <2>2
    <3> QED BY <1>1, <1>15, <2>2, <3>1
  <2>3. CASE ~(call.several /\ s < length[a] /\ <<a, s>> = <<"self", call.arg>>)
    <3>1. u = slots["self"][call.arg]
      BY <1>5, <2>1, <2>3 DEF ArgumentAt
    <3>2. call.arg \notin Todo
      BY <1>0, <1>1, <2>1, <3>1 DEF Loads
    <3>3. Todo = {k \in 0 .. length["self"] - 1 :
                    persistent \/ (call.name = "insert" => k < call.index)}
      BY <1>0 DEF Todo
    <3> QED BY <1>1, <2>1, <3>2, <3>3
  <2> QED BY <2>2, <2>3
<1> QED BY <1>10, <1>13, <1>14, <1>16, <1>17

\* The argument is stored.
LEMMA EmplaceValues == ASSUME SlotsInv, ValuesInv, Emplace PROVE ValuesInv'
<1>0. Running /\ phase = "emplace" /\ SlotsInv'
  <2>1. call.name \in {"insert", "assign"}
    BY DEF Emplace, SlotsInv, Position
  <2> QED BY <2>1, EmplaceInsertSlots, EmplaceAssignSlots DEF Emplace, Running
<1>1. /\ CallFits /\ Shaped /\ Typed /\ Loads /\ persistent \in BOOLEAN
      /\ length["self"] \in 0 .. LeafSize /\ length["self"] \in Nat /\ LeafSize \in Nat
      /\ call.name \in {"insert", "assign"} /\ call.index \in Nat
      /\ call.index <= length["self"]
  BY <1>0, InCallValues DEF SlotsInv, Position
<1>2. /\ Typed'
      /\ argument' # "spoiled" => At(call.index)' = Wanted
      /\ \A m : IsNew(m) /\ m # call.index => At(m)' = At(m)
      /\ \A n \in Index : persistent \/ n # call.index =>
           slots'["self"][n] = slots["self"][n]
      /\ ArgumentIntact'
  BY EmplaceStores
<1>3. /\ UNCHANGED <<length, persistent, call, before>>
      /\ phase' = IF call.name = "insert" THEN "prefix" ELSE "finish"
      /\ i' = IF call.name = "insert" THEN PrefixStart(call) ELSE 0
  BY DEF Emplace
<1>4. /\ Wanted' = Wanted /\ \A k : NewItem(k)' = NewItem(k)
      /\ NewItem(call.index) = Wanted
  BY <1>1, <1>3, ItemsStay DEF NewItem
<1>5. Correct(call.index)'
  BY <1>2, <1>3, <1>4 DEF Correct
<1>6. Todo = {k \in 0 .. length["self"] - 1 :
                persistent \/ (call.name = "insert" => k < call.index)}
  BY <1>0 DEF Todo
<1>7. \A k \in 0 .. length["self"] - 1 : k \in Index /\ IsNew(k)
  BY <1>1 DEF Index, IsNew
<1>8. ArgumentFits' /\ before' \in Seq(Cells \ {Raw})
  BY <1>1, <1>3 DEF Loads, ArgumentFits
<1>9. CASE call.name = "insert"
  <2>1. /\ PrefixStart(call)' = PrefixStart(call) /\ PrefixStart(call) \in Nat
        /\ ~persistent /\ Splits => PrefixStart(call) = SplitAt
    <3>1. Splits' = Splits /\ SplitAt' = SplitAt
      BY <1>3, HomesStay
    <3>2. Splits => SplitAt \in Nat
      BY <1>1, SplitPoint
    <3> QED BY <1>1, <1>3, <3>1, <3>2 DEF PrefixStart
  <2>2. Settled = {k \in 0 .. length["self"] : call.index < k}
    BY <1>0, <1>9 DEF Settled, Placed
  <2>3. Settled' = {k \in 0 .. length["self"] :
                      \/ call.index <= k \/ (PrefixStart(call) <= k /\ k < PrefixStart(call))}
                   \cup {k \in 0 .. length["self"] :
                           ~persistent /\ k < call.index /\ k < PrefixStart(call)}
    BY <1>3, <1>9, <2>1 DEF Settled, Placed
  <2>4. ASSUME NEW m \in Settled' PROVE Correct(m)'
    <3>1. CASE m = call.index
      BY <1>3, <1>5, <3>1
    <3>2. CASE call.index < m
      <4>1. m \in Settled /\ Correct(m) /\ IsNew(m)
        BY <1>1, <1>9, <2>2, <2>3, <2>4, <3>2 DEF Loads, IsNew
      <4>2. At(m) = NewItem(m)
        BY <1>1, <3>2, <4>1 DEF Correct
      <4> QED BY <1>1, <1>2, <1>4, <3>2, <4>1, <4>2 DEF Correct
    <3>3. CASE m < call.index
      <4>1. m \in 0 .. length["self"] - 1 /\ ~persistent /\ m < PrefixStart(call)
        BY <1>1, <2>1, <2>3, <2>4, <3>3
      <4>2. m \in Todo /\ m \in Index /\ IsNew(m)
        BY <1>6, <1>7, <3>3, <4>1
      <4>3. HomeOf(m) = <<"self", m>>
        BY <1>1, <2>1, <4>1, SplitPoint DEF HomeOf, Dst
      <4>4. At(m) = before[m + 1] /\ NewItem(m) = before[m + 1]
        BY <1>0, <1>1, <1>9, <3>3, <4>2, <4>3 DEF Loads, At, NewItem
      <4> QED BY <1>1, <1>2, <1>4, <3>3, <4>2, <4>4 DEF Correct
    <3> QED BY <1>1, <2>3, <2>4, <3>1, <3>2, <3>3
  <2>5. ASSUME NEW n \in Todo' PROVE slots'["self"][n] = before'[n + 1]
    <3>1. Todo' = {k \in 0 .. length["self"] - 1 :
                     persistent \/ (PrefixStart(call) <= k /\ k < call.index)}
      BY <1>3, <1>9 DEF Todo
    <3>2. n \in Todo /\ n \in Index /\ (persistent \/ n # call.index)
      BY <1>1, <1>6, <1>7, <2>5, <3>1
    <3> QED BY <1>0, <1>1, <1>2, <1>3, <3>2 DEF Loads
  <2>6. Loads'
    BY <1>3, <1>8, <1>9, <2>4, <2>5 DEF Loads, Copied
  <2> QED BY <1>2, <1>3, <1>9, <2>6 DEF ValuesInv, LoopsMatchNodeOps
<1>10. CASE call.name = "assign"
  <2>1. Settled' = 0 .. length["self"] - 1
    BY <1>3, <1>10 DEF Settled, NewLen
  <2>2. ASSUME NEW m \in Settled' PROVE Correct(m)'
    <3>1. CASE m = call.index
      BY <1>3, <1>5, <3>1
    <3>2. CASE m # call.index
      <4>1. m \in Todo /\ m \in Index /\ IsNew(m) /\ m \in 0 .. length["self"]
        BY <1>1, <1>6, <1>7, <1>10, <2>1, <2>2
      <4>2. HomeOf(m) = <<Dst, m>>
        BY <1>10 DEF HomeOf, Splits
      <4>3. At(m) = before[m + 1]
        <5>1. CASE persistent
          <6>1. m \in Placed
            BY <1>0, <1>1, <1>10, <2>1, <2>2, <5>1 DEF Placed
          <6> QED BY <1>0, <1>1, <1>10, <4>2, <5>1, <6>1 DEF Loads, Copied, At, Dst
        <5>2. CASE ~persistent
          BY <1>0, <1>1, <4>1, <4>2, <5>2 DEF Loads, At, Dst
        <5> QED BY <5>1, <5>2
      <4>4. NewItem(m) = before[m + 1]
        BY <1>10, <3>2 DEF NewItem
      <4> QED BY <1>2, <1>4, <3>2, <4>1, <4>3, <4>4 DEF Correct
    <3> QED BY <3>1, <3>2
  <2>3. Loads'
    BY <1>3, <1>8, <1>10, <2>2 DEF Loads, Copied
  <2> QED BY <1>2, <1>3, <1>10, <2>3 DEF ValuesInv, LoopsMatchNodeOps
<1> QED BY <1>1, <1>9, <1>10

\* The loop over the values left of the index, and the step to the next loop.
LEMMA PrefixValues == ASSUME SlotsInv, ValuesInv, Prefix PROVE ValuesInv'
<1>0. Running /\ phase = "prefix"
  BY DEF Prefix, Running
<1>1. /\ CallFits /\ persistent \in BOOLEAN
      /\ call.name \in {"insert", "erase", "pop_back"}
      /\ length["self"] \in Nat /\ call.index \in Nat /\ i \in Nat
      /\ call.index <= length["self"]
  BY <1>0, InCallValues DEF SlotsInv, Position, CallFits
<1>2. /\ i <= call.index \/ (call.name = "insert" /\ i = PrefixStart(call))
      /\ call.name = "insert" => PrefixStart(call) <= i
      /\ persistent \/ call.name = "insert" \/ i = call.index
  BY <1>0 DEF SlotsInv, Position
<1>3. UNCHANGED <<length, persistent, call, before, argument>>
  BY DEF Prefix
<1>4. PrefixStart(call)' = PrefixStart(call) /\ PrefixStart(call) \in Nat
      /\ (persistent => PrefixStart(call) = 0)
  <2>1. Splits' = Splits /\ SplitAt' = SplitAt
    BY <1>3, HomesStay
  <2>2. Splits => SplitAt \in Nat
    BY <1>1, SplitPoint
  <2> QED BY <1>1, <1>3, <2>1, <2>2 DEF PrefixStart
<1>5. /\ \A k : k \in Settled <=>
           /\ k \in 0 .. length["self"]
           /\ IF call.name = "insert"
                THEN \/ call.index <= k \/ (PrefixStart(call) <= k /\ k < i)
                     \/ ~persistent /\ k < call.index /\ k < PrefixStart(call)
                ELSE k < i
      /\ \A k : k \in Todo <=>
           /\ k \in 0 .. length["self"] - 1
           /\ persistent \/ (call.name = "insert" => i <= k /\ k < call.index)
  BY <1>0 DEF Settled, Todo, Placed
<1>6. CASE i < call.index
  <2>1. TransfersHome(i, i) /\ phase' = "prefix" /\ i' = i + 1
    BY <1>0, <1>6 DEF Prefix
  <2>2. /\ \A k : k \in Settled' <=>
             /\ k \in 0 .. length["self"]
             /\ IF call.name = "insert"
                  THEN \/ call.index <= k \/ (PrefixStart(call) <= k /\ k < i + 1)
                       \/ ~persistent /\ k < call.index /\ k < PrefixStart(call)
                  ELSE k < i + 1
        /\ \A k : k \in Todo' <=>
             /\ k \in 0 .. length["self"] - 1
             /\ persistent \/ (call.name = "insert" => i + 1 <= k /\ k < call.index)
    BY <1>3, <1>4, <2>1 DEF Settled, Todo, Placed
  <2>3. IsNew(i) /\ i \in 0 .. length["self"] - 1 /\ i \in Todo
    BY <1>1, <1>5, <1>6 DEF IsNew
  <2>4. Settled' \subseteq Settled \cup {i}
    BY <1>1, <1>4, <1>5, <2>2
  <2>5. \A m \in Settled : IsNew(m) /\ m # i
    BY <1>1, <1>2, <1>4, <1>5, <1>6 DEF IsNew
  <2>6. NewItem(i) = before[i + 1]
    BY <1>1, <1>6 DEF NewItem
  <2>7. Todo' \subseteq Todo /\ (persistent \/ Todo' \cap {i, i} = {})
    BY <1>1, <1>2, <1>5, <1>6, <2>2
  <2>8. Copied'
    BY <2>1 DEF Copied
  <2> QED BY <1>0, <1>3, <2>1, <2>3, <2>4, <2>5, <2>6, <2>7, <2>8, LoopValues DEF Running
<1>7. CASE ~(i < call.index) /\ call.name # "insert"
  <2>1. phase' = "close" /\ i' = call.index + 1 /\ UNCHANGED slots
    BY <1>7 DEF Prefix, Continues
  <2>2. /\ Settled' = {k \in 0 .. length["self"] : k < (call.index + 1) - 1}
        /\ Todo' = {k \in 0 .. length["self"] - 1 : persistent \/ call.index + 1 <= k}
    BY <1>3, <2>1 DEF Settled, Todo, Placed
  <2>3. Settled' \subseteq Settled /\ Todo' \subseteq Todo
    BY <1>1, <1>2, <1>5, <1>7, <2>2
  <2>4. Copied'
    BY <2>1 DEF Copied
  <2> QED BY <1>0, <1>3, <2>1, <2>3, <2>4, OnwardValues DEF Running
<1>8. CASE ~(i < call.index) /\ call.name = "insert"
  <2>1. phase' \in {"trim", "finish"} /\ UNCHANGED slots
    BY <1>8 DEF Prefix, Continues
  <2>2. Settled' = 0 .. length["self"]
    BY <1>1, <1>3, <1>8, <2>1 DEF Settled, NewLen
  <2>3. Settled' \subseteq Settled
    BY <1>1, <1>2, <1>4, <1>5, <1>8, <2>2
  <2>4. Copied'
    BY <2>1 DEF Copied
  <2> QED BY <1>0, <1>3, <2>1, <2>3, <2>4, OnwardValues DEF Running
<1> QED BY <1>6, <1>7, <1>8

\* A value destroyed that is not one of the new contents.
LEMMA DestroyedValues ==
  ASSUME SlotsInv, ValuesInv, Running, Running',
         UNCHANGED <<length, persistent, call, before, argument>>,
         phase \in {"trim", "close"}, phase' \in {"trim", "finish"},
         ~persistent, NEW s \in Index, Destructs("self", s),
         Settled' \subseteq Settled,
         \A m \in Settled' : IsNew(m) /\ HomeOf(m) # <<"self", s>>
  PROVE  ValuesInv'
<1>1. /\ CallFits /\ Shaped /\ Typed /\ Loads /\ ArgumentIntact
      /\ length["self"] \in 0 .. LeafSize
  BY InCallValues
<1>2. \A c \in Leaf, m \in Index : slots'[c][m] = IF c = "self" /\ m = s THEN Raw ELSE slots[c][m]
  <2>1. PICK new : new = [slots EXCEPT !["self"][s] = Raw]
    OBVIOUS
  <2>2. \A c \in Leaf, m \in Index : new[c][m] = IF c = "self" /\ m = s THEN Raw ELSE slots[c][m]
    BY <1>1, <2>1 DEF Shaped, IsArrays, Leaf
  <2> QED BY <2>1, <2>2 DEF Destructs
<1>3. Typed'
  <2>1. IsArrays(slots')
    BY <1>1, DestructsIn DEF Shaped
  <2>2. \A c \in Leaf, m \in Index : slots'[c][m] \in Cells
    BY <1>1, <1>2 DEF Typed, Cells
  <2> QED BY <2>1, <2>2, TypedStays
<1>4. \A m : HomeOf(m)' = HomeOf(m)
  BY HomesStay
<1>5. Wanted' = Wanted /\ \A m : NewItem(m)' = NewItem(m)
  BY ItemsStay
<1>6. ASSUME NEW m \in Settled' PROVE Correct(m)'
  <2>1. m \in Settled /\ Correct(m) /\ IsNew(m) /\ HomeOf(m) # <<"self", s>>
    BY <1>1, <1>6 DEF Loads
  <2>2. PICK b, t : b = HomeOf(m)[1] /\ t = HomeOf(m)[2]
    OBVIOUS
  <2>3. b \in Leaf /\ t \in Index /\ HomeOf(m) = <<b, t>>
    BY <1>1, <2>1, <2>2, HomeInRange
  <2>4. ~(b = "self" /\ t = s)
    BY <2>1, <2>3
  <2>5. At(m)' = At(m)
    BY <1>2, <1>4, <2>2, <2>3, <2>4 DEF At
  <2> QED BY <1>5, <2>1, <2>5 DEF Correct
<1>7. Loads'
  BY <1>1, <1>6 DEF Loads, ArgumentFits, Copied
<1>8. ArgumentIntact'
  BY <1>1, Unspoiled
<1> QED BY <1>3, <1>7, <1>8 DEF ValuesInv, LoopsMatchNodeOps

\* erase: the loop over the values right of the index, and the last one.
LEMMA CloseValues == ASSUME SlotsInv, ValuesInv, Close PROVE ValuesInv'
<1>0. Running /\ phase = "close"
  BY DEF Close, Running
<1>1. /\ CallFits /\ persistent \in BOOLEAN
      /\ call.name \in {"erase", "pop_back"}
      /\ length["self"] \in Nat /\ LeafSize \in Nat /\ length["self"] <= LeafSize
      /\ call.index \in Nat /\ i \in Nat
      /\ length["self"] > 1 /\ length["left"] = 0
      /\ call.index < i /\ i <= length["self"] + 1
  BY <1>0, InCallValues DEF SlotsInv, Position, CallFits
<1>2. UNCHANGED <<length, persistent, call, before, argument>>
  BY DEF Close
<1>3. /\ Settled = {k \in 0 .. length["self"] : k < i - 1}
      /\ Todo = {k \in 0 .. length["self"] - 1 : persistent \/ i <= k}
  BY <1>0 DEF Settled, Todo, Placed
<1>4. \A k : HomeOf(k) = <<Dst, k>>
  BY <1>1 DEF HomeOf, Splits
<1>5. CASE i < length["self"]
  <2>1. Transfers(i, Dst, i - 1) /\ phase' = "close" /\ i' = i + 1
    BY <1>0, <1>5 DEF Close
  <2>2. TransfersHome(i, i - 1)
    BY <1>4, <2>1 DEF TransfersHome
  <2>3. /\ Settled' = {k \in 0 .. length["self"] : k < (i + 1) - 1}
        /\ Todo' = {k \in 0 .. length["self"] - 1 : persistent \/ i + 1 <= k}
    BY <1>2, <2>1 DEF Settled, Todo, Placed
  <2>4. IsNew(i - 1) /\ i \in 0 .. length["self"] - 1 /\ i \in Todo
    BY <1>1, <1>3, <1>5 DEF IsNew
  <2>5. Settled' \subseteq Settled \cup {i - 1} /\ \A m \in Settled : IsNew(m) /\ m # i
    BY <1>1, <1>3, <1>5, <2>3 DEF IsNew
  <2>6. NewItem(i - 1) = before[i + 1]
    <3>1. NewItem(i - 1) = before[(i - 1) + 2] /\ (i - 1) + 2 = i + 1
      BY <1>1 DEF NewItem
    <3> QED BY <3>1
  <2>7. Todo' \subseteq Todo /\ (persistent \/ Todo' \cap {i, i - 1} = {})
    BY <1>1, <1>3, <2>3
  <2>8. Copied'
    BY <2>1 DEF Copied
  <2> QED BY <1>0, <1>2, <2>1, <2>2, <2>4, <2>5, <2>6, <2>7, <2>8, LoopValues DEF Running
<1>6. CASE ~(i < length["self"])
  <2>1. phase' = "finish" /\ i' = 0
    BY <1>6 DEF Close
  <2>2. Settled' = 0 .. (length["self"] - 1) - 1
    BY <1>1, <1>2, <2>1 DEF Settled, NewLen
  <2>3. Settled' \subseteq Settled
    BY <1>1, <1>3, <1>6, <2>2
  <2>4. ClosesGap <=> ~persistent
    BY <1>1 DEF ClosesGap, Dst
  <2>5. CASE persistent
    <3>1. UNCHANGED slots
      BY <1>6, <2>4, <2>5 DEF Close
    <3>2. Copied'
      BY <2>1 DEF Copied
    <3> QED BY <1>0, <1>2, <2>1, <2>3, <3>1, <3>2, OnwardValues DEF Running
  <2>6. CASE ~persistent
    <3>1. Destructs("self", length["self"] - 1) /\ length["self"] - 1 \in Index
      BY <1>1, <1>6, <2>4, <2>6 DEF Close, Dst, Index
    <3>2. \A m \in Settled' : IsNew(m) /\ HomeOf(m) # <<"self", length["self"] - 1>>
      BY <1>1, <1>4, <2>2 DEF IsNew
    <3> QED BY <1>0, <1>2, <2>1, <2>3, <2>6, <3>1, <3>2, DestroyedValues DEF Running
  <2> QED BY <2>5, <2>6
<1> QED BY <1>5, <1>6

\* The places of a split leaf that the right half has taken.
LEMMA TrimValues == ASSUME SlotsInv, ValuesInv, Trim PROVE ValuesInv'
<1>0. Running /\ phase = "trim"
  BY DEF Trim, Running
<1>1. /\ CallFits /\ Splits /\ call.name = "insert" /\ persistent \in BOOLEAN
      /\ i \in SplitAt .. LeafSize /\ (persistent => i = SplitAt)
      /\ length["left"] = 0 /\ length["self"] \in Nat
  BY <1>0, InCallValues DEF SlotsInv, Position, Splits, CallFits
<1>2. SplitAt \in 1 .. LeafSize /\ SplitAt \in Nat /\ length["self"] = LeafSize /\ LeafSize \in Nat
      /\ i \in Nat
  BY <1>1, SplitPoint
<1>3. UNCHANGED <<length, persistent, call, before, argument>>
  BY DEF Trim
<1>4. phase' \in {"trim", "finish"}
  BY <1>0 DEF Trim, Continues
<1>5. Settled = 0 .. length["self"] /\ Settled' = 0 .. length["self"]
  <2>1. NewLen' = length["self"] + 1 /\ (length["self"] + 1) - 1 = length["self"]
    BY <1>1, <1>3 DEF NewLen
  <2> QED BY <1>0, <1>3, <1>4, <2>1 DEF Settled
<1>6. CASE i < TrimEnd
  <2>1. ~persistent /\ Dst = "self" /\ i \in Index
    BY <1>1, <1>2, <1>6 DEF TrimEnd, Dst, Index
  <2>2. Destructs("self", i)
    BY <1>6, <2>1 DEF Trim
  <2>3. \A m \in Settled' : IsNew(m) /\ HomeOf(m) # <<"self", i>>
    <3> SUFFICES ASSUME NEW m \in Settled' PROVE IsNew(m) /\ HomeOf(m) # <<"self", i>>
      OBVIOUS
    <3>1. m \in Nat /\ IsNew(m)
      BY <1>1, <1>5 DEF IsNew
    <3>2. CASE m < SplitAt
      BY <1>1, <1>2, <2>1, <3>1, <3>2 DEF HomeOf
    <3>3. CASE m >= SplitAt
      BY <1>1, <3>1, <3>3 DEF HomeOf
    <3> QED BY <1>2, <3>1, <3>2, <3>3
  <2> QED BY <1>0, <1>3, <1>4, <1>5, <2>1, <2>2, <2>3, DestroyedValues DEF Running
<1>7. CASE ~(i < TrimEnd)
  <2>1. UNCHANGED slots
    BY <1>7 DEF Trim, Continues
  <2>2. Copied'
    BY <1>4 DEF Copied
  <2> QED BY <1>0, <1>3, <1>4, <1>5, <2>1, <2>2, OnwardValues DEF Running
<1> QED BY <1>6, <1>7

\* The lengths are set: the results hold what NodeOps says.
LEMMA FinishValues == ASSUME SlotsInv, ValuesInv, Finish PROVE ValuesInv'
<1>0. Running /\ phase = "finish"
  BY DEF Finish, Running
<1>1. /\ CallFits /\ Shaped /\ Typed /\ Loads /\ persistent \in BOOLEAN
      /\ length["self"] \in 0 .. LeafSize /\ length["self"] \in Nat /\ LeafSize \in Nat
      /\ call.index \in Nat /\ call.index <= length["self"]
      /\ call.name \in {"insert", "assign", "erase", "pop_back"}
      /\ Len(before) = length["self"] /\ ArgumentIntact
  BY <1>0, InCallValues DEF CallFits
<1>2. /\ UNCHANGED <<slots, persistent, call, before, argument>> /\ length' = NewLengths
      /\ phase' = "done"
  BY DEF Finish, history
<1>3. PICK B : B = Cells \ {Raw}
  OBVIOUS
<1>4. before \in Seq(B)
  BY <1>1, <1>3 DEF Loads
<1>5. ASSUME argument # "spoiled", NEW k \in 0 .. NewLen - 1
      PROVE  At(k) = NewItem(k)
  <2>1. Settled = 0 .. NewLen - 1
    BY <1>0 DEF Settled
  <2> QED BY <1>1, <1>5, <2>1 DEF Loads, Correct
<1>6. ASSUME call.name \in {"insert", "assign"} PROVE Wanted \in Cells
  <2>1. call.arg \in Values \cup (0 .. length["self"] - 1)
    BY <1>1, <1>6 DEF Loads, ArgumentFits
  <2>2. CASE call.arg \in Values
    BY <2>2 DEF Wanted, Cells
  <2>3. CASE call.arg \notin Values
    <3>1. call.arg + 1 \in 1 .. Len(before)
      BY <1>1, <2>1, <2>3
    <3>2. before[call.arg + 1] \in B
      BY <1>4, <3>1, ElementOfSeq
    <3> QED BY <1>3, <2>3, <3>2 DEF Wanted
  <2> QED BY <2>2, <2>3
<1>7. before \in Seq(Cells)
  BY <1>3, <1>4, SeqMonotonic
<1>8. /\ Wanted' = Wanted /\ SplitAt' = SplitAt /\ Dst' = Dst
  BY <1>2 DEF Wanted, SplitAt, Dst
<1>9. \A a : Contents(a)' = [k \in 1 .. NewLengths[a] |-> slots[a][k - 1]]
  BY <1>2 DEF Contents
<1>10. ASSUME call.name = "insert", argument # "spoiled"
       PROVE  LET all == InsertItem(before, call.index, Wanted) IN
              IF Len(all) > LeafSize
                THEN /\ Contents(Dst)' = LeftPart(all, SplitAt)
                     /\ Contents("right")' = RightPart(all, SplitAt)
                ELSE Contents(Dst)' = all
  <2>1. PICK all : all = InsertItem(before, call.index, Wanted)
    OBVIOUS
  <2>2. /\ all \in Seq(Cells) /\ Len(all) = length["self"] + 1
        /\ \A k \in 1 .. length["self"] + 1 : all[k] = NewItem(k - 1)
    <3>1. call.index \in 0 .. Len(before) /\ Wanted \in Cells
      BY <1>1, <1>6, <1>10
    <3>2. /\ all \in Seq(Cells) /\ Len(all) = length["self"] + 1
          /\ \A k \in 1 .. length["self"] + 1 :
                all[k] = IF k <= call.index THEN before[k]
                         ELSE IF k = call.index + 1 THEN Wanted ELSE before[k - 1]
      BY <1>1, <1>7, <2>1, <3>1, InsertItemProperties
    <3>3. ASSUME NEW k \in 1 .. length["self"] + 1 PROVE all[k] = NewItem(k - 1)
      <4>1. k \in Nat /\ (k - 1) + 1 = k
        BY <1>1
      <4>2. NewItem(k - 1) = IF k - 1 < call.index THEN before[(k - 1) + 1]
                             ELSE IF k - 1 = call.index THEN Wanted ELSE before[k - 1]
        BY <1>10 DEF NewItem
      <4>3. CASE k <= call.index
        BY <1>1, <3>2, <4>1, <4>2, <4>3
      <4>4. CASE k = call.index + 1
        <5>1. k - 1 = call.index /\ ~(k - 1 < call.index) /\ ~(k <= call.index)
          BY <1>1, <4>1, <4>4
        <5>2. NewItem(k - 1) = Wanted
          BY <4>2, <5>1, Zenon
        <5>3. all[k] = Wanted
          BY <3>2, <4>4, <5>1
        <5> QED BY <5>2, <5>3
      <4>5. CASE k > call.index + 1
        BY <1>1, <3>2, <4>1, <4>2, <4>5
      <4> QED BY <1>1, <4>1, <4>3, <4>4, <4>5
    <3> QED BY <3>2, <3>3
  <2>3. \A k \in 1 .. length["self"] + 1 : At(k - 1) = all[k]
    <3>1. NewLen = length["self"] + 1
      BY <1>10 DEF NewLen
    <3> QED BY <1>1, <1>5, <1>10, <2>2, <3>1
  <2>4. CASE ~Splits
    <3>1. ~(Len(all) > LeafSize)
      BY <1>1, <1>10, <2>2, <2>4 DEF Splits
    <3>2. NewLengths = [length EXCEPT ![Dst] = length["self"] + 1]
      BY <1>10, <2>4 DEF NewLengths
    <3>3. NewLengths[Dst] = length["self"] + 1
      BY <1>1, <3>2 DEF Shaped, IsLengths, Leaf, Dst
    <3>4. \A k \in 1 .. length["self"] + 1 : slots[Dst][k - 1] = all[k]
      BY <2>3, <2>4 DEF At, HomeOf
    <3>5. Contents(Dst)' = all
      <4>1. Contents(Dst)' = [k \in 1 .. length["self"] + 1 |-> slots[Dst][k - 1]]
        BY <1>2, <1>8, <3>3 DEF Contents
      <4>2. all = [k \in 1 .. length["self"] + 1 |-> all[k]]
        BY <2>2, LenProperties
      <4> QED BY <3>4, <4>1, <4>2
    <3> QED BY <2>1, <3>1, <3>5
  <2>5. CASE Splits
    <3>1. SplitAt \in 1 .. LeafSize /\ length["self"] = LeafSize /\ SplitAt \in Nat
      BY <1>1, <2>5, SplitPoint
    <3>2. Len(all) > LeafSize
      BY <1>1, <2>2, <3>1
    <3>3. NewLengths = [length EXCEPT ![Dst] = SplitAt, !["right"] = LeafSize + 1 - SplitAt]
      <4>1. NewLengths = [length EXCEPT ![Dst] = SplitAt,
                                        !["right"] = LeafSize + 1 - SplitAt]
        BY <1>10, <2>5 DEF NewLengths
      <4> QED BY <4>1
    <3>4. NewLengths[Dst] = SplitAt /\ NewLengths["right"] = LeafSize + 1 - SplitAt
      BY <1>1, <3>3 DEF Shaped, IsLengths, Leaf, Dst
    <3>5. /\ LeftPart(all, SplitAt) \in Seq(Cells) /\ Len(LeftPart(all, SplitAt)) = SplitAt
          /\ RightPart(all, SplitAt) \in Seq(Cells)
          /\ Len(RightPart(all, SplitAt)) = LeafSize + 1 - SplitAt
          /\ \A k \in 1 .. SplitAt : LeftPart(all, SplitAt)[k] = all[k]
          /\ \A k \in 1 .. LeafSize + 1 - SplitAt : RightPart(all, SplitAt)[k] = all[SplitAt + k]
      <4>1. SplitAt \in 0 .. Len(all)
        BY <1>1, <2>2, <3>1
      <4>2. /\ LeftPart(all, SplitAt) \in Seq(Cells) /\ Len(LeftPart(all, SplitAt)) = SplitAt
            /\ RightPart(all, SplitAt) \in Seq(Cells)
            /\ Len(RightPart(all, SplitAt)) = LeafSize + 1 - SplitAt
        <5>1. /\ LeftPart(all, SplitAt) \in Seq(Cells) /\ Len(LeftPart(all, SplitAt)) = SplitAt
              /\ RightPart(all, SplitAt) \in Seq(Cells)
              /\ Len(RightPart(all, SplitAt)) = Len(all) - SplitAt
          BY <2>2, <4>1, SplitKeepsItems
        <5> QED BY <1>1, <2>2, <3>1, <5>1
      <4>3. \A k \in 1 .. Len(all) : all[k] \in Cells
        BY <2>2, ElementOfSeq
      <4>4. \A k \in 1 .. SplitAt : LeftPart(all, SplitAt)[k] = all[k]
        <5>1. \A k \in 1 .. SplitAt : all[k] \in Cells
          BY <1>1, <2>2, <3>1, <4>3
        <5>2. \A k \in 1 .. SplitAt - 1 + 1 : SubSeq(all, 1, SplitAt)[k] = all[1 + k - 1]
          BY <3>1, <5>1, SubSeqProperties
        <5>3. \A k \in 1 .. SplitAt : k \in 1 .. SplitAt - 1 + 1 /\ 1 + k - 1 = k
          BY <3>1
        <5> QED BY <5>2, <5>3 DEF LeftPart
      <4>5. \A k \in 1 .. LeafSize + 1 - SplitAt : RightPart(all, SplitAt)[k] = all[SplitAt + k]
        <5>1. \A k \in SplitAt + 1 .. Len(all) : all[k] \in Cells
          BY <1>1, <2>2, <3>1, <4>3
        <5>2. \A k \in 1 .. Len(all) - (SplitAt + 1) + 1 :
                SubSeq(all, SplitAt + 1, Len(all))[k] = all[(SplitAt + 1) + k - 1]
          BY <1>1, <2>2, <3>1, <5>1, SubSeqProperties
        <5>3. \A k \in 1 .. LeafSize + 1 - SplitAt :
                k \in 1 .. Len(all) - (SplitAt + 1) + 1 /\ (SplitAt + 1) + k - 1 = SplitAt + k
          BY <1>1, <2>2, <3>1
        <5> QED BY <5>2, <5>3 DEF RightPart
      <4> QED BY <4>2, <4>4, <4>5
    <3>6. \A k \in 1 .. SplitAt : slots[Dst][k - 1] = all[k]
      <4> SUFFICES ASSUME NEW k \in 1 .. SplitAt PROVE slots[Dst][k - 1] = all[k]
        OBVIOUS
      <4>1. k \in 1 .. length["self"] + 1 /\ ~(k - 1 >= SplitAt)
        BY <1>1, <3>1
      <4>2. HomeOf(k - 1) = <<Dst, k - 1>>
        BY <4>1 DEF HomeOf
      <4> QED BY <2>3, <4>1, <4>2 DEF At
    <3>7. \A k \in 1 .. LeafSize + 1 - SplitAt : slots["right"][k - 1] = all[SplitAt + k]
      <4> SUFFICES ASSUME NEW k \in 1 .. LeafSize + 1 - SplitAt
                   PROVE  slots["right"][k - 1] = all[SplitAt + k]
        OBVIOUS
      <4>1. /\ SplitAt + k \in 1 .. length["self"] + 1 /\ (SplitAt + k) - 1 >= SplitAt
            /\ ((SplitAt + k) - 1) - SplitAt = k - 1
        BY <1>1, <3>1
      <4>2. HomeOf((SplitAt + k) - 1) = <<"right", k - 1>>
        BY <2>5, <4>1 DEF HomeOf
      <4> QED BY <2>3, <4>1, <4>2 DEF At
    <3>8. Contents(Dst)' = LeftPart(all, SplitAt)
      <4>1. Contents(Dst)' = [k \in 1 .. SplitAt |-> slots[Dst][k - 1]]
        BY <1>2, <1>8, <3>4 DEF Contents
      <4>2. LeftPart(all, SplitAt) = [k \in 1 .. SplitAt |-> LeftPart(all, SplitAt)[k]]
        BY <3>5, LenProperties
      <4> QED BY <3>5, <3>6, <4>1, <4>2
    <3>9. Contents("right")' = RightPart(all, SplitAt)
      <4>1. Contents("right")' = [k \in 1 .. LeafSize + 1 - SplitAt |-> slots["right"][k - 1]]
        BY <1>2, <3>4 DEF Contents
      <4>2. RightPart(all, SplitAt) =
              [k \in 1 .. LeafSize + 1 - SplitAt |-> RightPart(all, SplitAt)[k]]
        BY <3>5, LenProperties
      <4> QED BY <3>5, <3>7, <4>1, <4>2
    <3> QED BY <2>1, <3>2, <3>8, <3>9
  <2> QED BY <2>4, <2>5
<1>11. ASSUME call.name # "insert" PROVE \A k : HomeOf(k) = <<Dst, k>>
  BY <1>11 DEF HomeOf, Splits
<1>12. ASSUME call.name = "assign", argument # "spoiled"
       PROVE  Contents(Dst)' = ReplaceItem(before, call.index, Wanted)
  <2>1. PICK all : all = ReplaceItem(before, call.index, Wanted)
    OBVIOUS
  <2>2. call.index \in 0 .. Len(before) - 1 /\ Wanted \in Cells
    BY <1>1, <1>6, <1>12 DEF CallFits
  <2>3. /\ all \in Seq(Cells) /\ Len(all) = length["self"]
        /\ \A k \in 1 .. length["self"] :
              all[k] = IF k = call.index + 1 THEN Wanted ELSE before[k]
    <3>1. /\ all \in Seq(Cells) /\ Len(all) = Len(before)
          /\ \A k \in 1 .. Len(before) :
                all[k] = IF k = call.index + 1 THEN Wanted ELSE before[k]
      <4>1. PICK q, x, w : q = before /\ x = call.index /\ w = Wanted
        OBVIOUS
      <4>2. q \in Seq(Cells) /\ x \in 0 .. Len(q) - 1 /\ w \in Cells
        BY <1>7, <2>2, <4>1
      <4>3. /\ ReplaceItem(q, x, w) \in Seq(Cells)
            /\ Len(ReplaceItem(q, x, w)) = Len(q)
            /\ \A k \in 1 .. Len(q) :
                 ReplaceItem(q, x, w)[k] = IF k = x + 1 THEN w ELSE q[k]
        BY <4>2, ReplaceItemProperties
      <4>4. all = ReplaceItem(q, x, w)
        BY <2>1, <4>1
      <4> QED BY <4>1, <4>3, <4>4
    <3> QED BY <1>1, <3>1
  <2>4. \A k \in 1 .. length["self"] : slots[Dst][k - 1] = all[k]
    <3> SUFFICES ASSUME NEW k \in 1 .. length["self"] PROVE slots[Dst][k - 1] = all[k]
      OBVIOUS
    <3>1. k - 1 \in 0 .. NewLen - 1 /\ (k - 1) + 1 = k
      BY <1>1, <1>12 DEF NewLen
    <3>2. NewItem(k - 1) = IF k - 1 = call.index THEN Wanted ELSE before[(k - 1) + 1]
      BY <1>12 DEF NewItem
    <3>3. At(k - 1) = NewItem(k - 1) /\ At(k - 1) = slots[Dst][k - 1]
      BY <1>5, <1>11, <1>12, <3>1 DEF At
    <3> QED BY <1>1, <2>3, <3>1, <3>2, <3>3
  <2>5. NewLengths[Dst] = length["self"]
    <3>1. NewLengths = length
      BY <1>12 DEF NewLengths, Splits
    <3>2. phase = "finish" /\ call.name = "assign" /\ persistent => length["left"] = length["self"]
      BY <1>1 DEF CallFits
    <3> QED BY <1>0, <1>12, <3>1, <3>2 DEF Dst
  <2>6. Contents(Dst)' = [k \in 1 .. length["self"] |-> slots[Dst][k - 1]]
    BY <1>2, <1>8, <2>5 DEF Contents
  <2>7. all = [k \in 1 .. length["self"] |-> all[k]]
    BY <2>3, LenProperties
  <2> QED BY <2>1, <2>4, <2>6, <2>7
<1>13. ASSUME call.name \in {"erase", "pop_back"}, argument # "spoiled"
       PROVE  Contents(Dst)' = EraseItem(before, call.index)
  <2>1. PICK all : all = EraseItem(before, call.index)
    OBVIOUS
  <2>2. call.index \in 0 .. Len(before) /\ Len(before) > 0 /\ length["self"] > 1
    BY <1>1, <1>13 DEF CallFits
  <2>3. /\ all \in Seq(Cells) /\ Len(all) = length["self"] - 1
        /\ \A k \in 1 .. length["self"] - 1 :
              all[k] = IF k <= call.index THEN before[k] ELSE before[k + 1]
    <3>1. /\ all \in Seq(Cells) /\ Len(all) = Len(before) - 1
          /\ \A k \in 1 .. Len(before) - 1 :
                all[k] = IF k <= call.index THEN before[k] ELSE before[k + 1]
      BY <1>7, <2>1, <2>2, EraseItemProperties
    <3> QED BY <1>1, <3>1
  <2>4. \A k \in 1 .. length["self"] - 1 : slots[Dst][k - 1] = all[k]
    <3> SUFFICES ASSUME NEW k \in 1 .. length["self"] - 1 PROVE slots[Dst][k - 1] = all[k]
      OBVIOUS
    <3>1. k - 1 \in 0 .. NewLen - 1 /\ (k - 1) + 1 = k /\ (k - 1) + 2 = k + 1
      BY <1>1, <1>13 DEF NewLen
    <3>2. NewItem(k - 1) = IF k - 1 < call.index THEN before[(k - 1) + 1] ELSE before[(k - 1) + 2]
      BY <1>13 DEF NewItem
    <3>3. At(k - 1) = NewItem(k - 1) /\ At(k - 1) = slots[Dst][k - 1]
      BY <1>5, <1>11, <1>13, <3>1 DEF At
    <3> QED BY <1>1, <2>3, <3>1, <3>2, <3>3
  <2>5. NewLengths[Dst] = length["self"] - 1
    <3>1. NewLengths = [length EXCEPT ![Dst] = length["self"] - 1]
      BY <1>13 DEF NewLengths, Splits
    <3> QED BY <1>1, <3>1 DEF Shaped, IsLengths, Leaf, Dst
  <2>6. Contents(Dst)' = [k \in 1 .. length["self"] - 1 |-> slots[Dst][k - 1]]
    BY <1>2, <1>8, <2>5 DEF Contents
  <2>7. all = [k \in 1 .. length["self"] - 1 |-> all[k]]
    BY <2>3, LenProperties
  <2> QED BY <2>1, <2>4, <2>6, <2>7
<1>14. LoopsMatchNodeOps'
  <2>1. CASE argument = "spoiled"
    BY <1>2, <2>1 DEF LoopsMatchNodeOps
  <2>2. CASE argument # "spoiled" /\ call.name = "insert"
    BY <1>2, <1>8, <1>10, <2>2 DEF LoopsMatchNodeOps
  <2>3. CASE argument # "spoiled" /\ call.name = "assign"
    BY <1>2, <1>8, <1>12, <2>3 DEF LoopsMatchNodeOps
  <2>4. CASE argument # "spoiled" /\ call.name \in {"erase", "pop_back"}
    BY <1>2, <1>8, <1>13, <2>4 DEF LoopsMatchNodeOps
  <2> QED BY <1>1, <2>1, <2>2, <2>3, <2>4
<1>15. ArgumentIntact' /\ Typed'
  BY <1>1, <1>2, Unspoiled DEF Typed
<1> QED BY <1>2, <1>14, <1>15 DEF ValuesInv, Running

\* A call begins with the values of the leaf.
LEMMA BeginValues == ASSUME SlotsInv, ValuesInv, NEW c \in Requests, Begin(c) PROVE ValuesInv'
<1>1. /\ phase = "idle" /\ Shaped /\ Typed /\ persistent \in BOOLEAN
      /\ length["self"] \in 0 .. LeafSize /\ length["self"] \in Nat /\ LeafSize \in Nat
  BY NodeSizeAssumption DEF SlotsInv, ValuesInv, Begin, Sizes
<1>2. /\ call' = c /\ before' = Contents("self") /\ argument' = "unread"
      /\ UNCHANGED <<slots, length, persistent>>
  BY DEF Begin
<1>3. /\ c.name \in {"insert", "assign", "erase", "pop_back"}
      /\ c.name \in {"insert", "assign"} => c.several \in BOOLEAN /\ c.arg \in Arguments
  BY RequestFits
<1>4. /\ c.name = "insert" => phase' = "shift" /\ i' = length["self"]
      /\ c.name = "assign" => phase' = (IF persistent THEN "clone" ELSE "emplace") /\ i' = 0
      /\ c.name \in {"erase", "pop_back"} =>
           phase' = "prefix" /\ i' = (IF persistent THEN 0 ELSE c.index)
  BY <1>3 DEF Begin
<1>5. \A k \in 0 .. length["self"] - 1 :
         k \in Index /\ Alive("self", k) /\ slots["self"][k] \in Cells \ {Raw}
  <2>1. Filled(Placed)
    BY <1>1 DEF SlotsInv, Placing
  <2>2. \A k \in 0 .. length["self"] - 1 : k \in Index
    BY <1>1 DEF Index
  <2>3. \A k \in 0 .. length["self"] - 1 : Alive("self", k)
    BY <1>1, <2>1, <2>2 DEF Filled, Leaf
  <2> QED BY <1>1, <2>2, <2>3 DEF Typed, Alive, Leaf
<1>6. before' = [k \in 1 .. length["self"] |-> slots["self"][k - 1]]
  BY <1>2 DEF Contents
<1>7. before' \in Seq(Cells \ {Raw})
  <2>1. \A k \in 1 .. length["self"] : slots["self"][k - 1] \in Cells \ {Raw}
    BY <1>1, <1>5
  <2> QED BY <1>1, <1>6, <2>1
<1>8. \A k \in 0 .. length["self"] - 1 : slots'["self"][k] = before'[k + 1]
  BY <1>1, <1>2, <1>6
<1>9. ArgumentFits'
  BY <1>2, <1>3 DEF ArgumentFits, Arguments
<1>10. \A k \in Todo' : slots'["self"][k] = before'[k + 1]
  BY <1>2, <1>8 DEF Todo
<1>11. CASE c.name = "insert"
  <2>1. Settled' = {k \in 0 .. length["self"] : length["self"] < k}
    BY <1>2, <1>4, <1>11 DEF Settled, Placed
  <2>2. Settled' = {} /\ Copied'
    BY <1>1, <1>2, <1>11, <2>1 DEF Copied
  <2> QED BY <1>1, <1>2, <1>4, <1>7, <1>9, <1>10, <1>11, <2>2
          DEF ValuesInv, Loads, Typed, ArgumentIntact, LoopsMatchNodeOps
<1>12. CASE c.name = "assign"
  <2>1. Settled' = {}
    BY <1>2, <1>4, <1>12 DEF Settled
  <2>2. Placed' = {}
    BY <1>1, <1>2, <1>4, <1>12 DEF Placed
  <2>3. Copied'
    BY <2>2 DEF Copied
  <2> QED BY <1>1, <1>2, <1>4, <1>7, <1>9, <1>10, <1>12, <2>1, <2>3
          DEF ValuesInv, Loads, Typed, ArgumentIntact, LoopsMatchNodeOps
<1>13. CASE c.name \in {"erase", "pop_back"}
  <2>1. \A k \in Settled' : k \in 0 .. length["self"] /\ k < IF persistent THEN 0 ELSE c.index
    BY <1>2, <1>4, <1>13 DEF Settled, Placed
  <2>2. c.index \in Nat /\ c.index <= length["self"]
    BY <1>1, <1>13, RequestFits DEF IndexesFor
  <2>3. ASSUME NEW k \in Settled' PROVE Correct(k)'
    <3>1. k \in 0 .. length["self"] - 1 /\ k < c.index /\ ~persistent
      BY <1>1, <2>1, <2>2, <2>3
    <3>2. HomeOf(k)' = <<"self", k>>
      BY <1>2, <1>13, <3>1 DEF HomeOf, Splits, Dst
    <3>3. NewItem(k)' = before'[k + 1]
      BY <1>2, <1>13, <3>1 DEF NewItem
    <3> QED BY <1>8, <3>1, <3>2, <3>3 DEF Correct, At
  <2>4. Copied'
    BY <1>2, <1>13 DEF Copied
  <2> QED BY <1>1, <1>2, <1>4, <1>7, <1>9, <1>10, <1>13, <2>3, <2>4
          DEF ValuesInv, Loads, Typed, ArgumentIntact, LoopsMatchNodeOps
<1> QED BY <1>3, <1>11, <1>12, <1>13

\* Between the calls there is nothing to say but what the slots may hold.
LEMMA OutsideValues ==
  ASSUME SlotsInv, ValuesInv,
         \/ Throw \/ \E a \in Results : Take(a)
         \/ MakePersistent \/ Destroy \/ DestroySlot \/ NewLeaf
  PROVE  ValuesInv'
<1>1. /\ Shaped /\ Typed /\ ArgumentIntact
      /\ phase \in {"idle", "destroy", "freed"} => argument = "unread"
      /\ Blank \in [Index -> Cells]
  BY DEF SlotsInv, ValuesInv, Blank, Cells
<1>2. CASE Throw
  <2>1. phase' = "idle" /\ argument' = "unread"
        /\ slots' = [slots EXCEPT !["left"] = Blank, !["right"] = Blank]
    BY <1>2 DEF Throw
  <2>2. Typed'
    BY <1>1, <2>1 DEF Typed, Leaf
  <2> QED BY <2>1, <2>2 DEF ValuesInv, Running, ArgumentIntact, LoopsMatchNodeOps
<1>3. ASSUME NEW a \in Results, Take(a) PROVE ValuesInv'
  <2>1. phase' = "idle" /\ argument' = "unread"
        /\ slots' = [b \in Leaf |-> IF b = "self" THEN slots[a] ELSE Blank]
    BY <1>3 DEF Take
  <2>2. a \in Leaf
    BY DEF Results, Dst, Leaf
  <2>3. Typed'
    BY <1>1, <2>1, <2>2 DEF Typed
  <2> QED BY <2>1, <2>3 DEF ValuesInv, Running, ArgumentIntact, LoopsMatchNodeOps
<1>4. CASE MakePersistent
  <2>1. phase' = "idle" /\ argument' = "unread" /\ UNCHANGED slots
    BY <1>1, <1>4 DEF MakePersistent, callVars, history
  <2> QED BY <1>1, <2>1 DEF ValuesInv, Running, ArgumentIntact, LoopsMatchNodeOps, Typed
<1>5. CASE Destroy
  <2>1. phase' = "destroy" /\ argument' = "unread" /\ UNCHANGED slots
    BY <1>1, <1>5 DEF Destroy, history
  <2> QED BY <1>1, <2>1 DEF ValuesInv, Running, ArgumentIntact, LoopsMatchNodeOps, Typed
<1>6. CASE DestroySlot
  <2>1. /\ phase = "destroy" /\ phase' \in {"destroy", "freed"}
        /\ UNCHANGED <<argument, persistent, call>>
    BY <1>6 DEF DestroySlot, Continues
  <2>2. Typed'
    <3>1. CASE i < length["self"]
      <4>1. slots' = [slots EXCEPT !["self"][i] = Raw]
        BY <1>6, <3>1 DEF DestroySlot, Destructs
      <4> QED BY <1>1, <4>1 DEF Typed, Cells
    <3>2. CASE ~(i < length["self"])
      BY <1>1, <1>6, <3>2 DEF DestroySlot, Continues, Typed
    <3> QED BY <3>1, <3>2
  <2>3. ArgumentIntact'
    BY <1>1, <2>1, Unspoiled
  <2> QED BY <1>1, <2>1, <2>2, <2>3 DEF ValuesInv, Running, LoopsMatchNodeOps
<1>7. CASE NewLeaf
  <2>1. phase = "freed" /\ phase' = "idle" /\ slots' = [a \in Leaf |-> Blank] /\ UNCHANGED argument
    BY <1>7 DEF NewLeaf
  <2> QED BY <1>1, <2>1 DEF ValuesInv, Running, ArgumentIntact, LoopsMatchNodeOps, Typed
<1> QED BY <1>2, <1>3, <1>4, <1>5, <1>6, <1>7

\* A new leaf has no values.
LEMMA ValuesStart == Init => ValuesInv
  BY DEF Init, ValuesInv, Typed, Blank, Cells, Running, ArgumentIntact, LoopsMatchNodeOps

\* Every step keeps the invariant.
LEMMA ValuesKept == SlotsInv /\ ValuesInv /\ [Next]_vars => ValuesInv'
<1> SUFFICES ASSUME SlotsInv, ValuesInv, [Next]_vars PROVE ValuesInv'
  OBVIOUS
<1>1. CASE UNCHANGED vars
  <2>1. UNCHANGED <<slots, length, persistent, call, phase, i, before, argument>>
    BY <1>1 DEF vars, callVars, history
  <2>2. \A k : HomeOf(k)' = HomeOf(k)
    BY <2>1, HomesStay
  <2>3. /\ Splits' = Splits /\ SplitAt' = SplitAt /\ Dst' = Dst /\ Wanted' = Wanted
        /\ PrefixStart(call)' = PrefixStart(call) /\ NewLen' = NewLen
        /\ \A k : NewItem(k)' = NewItem(k)
        /\ \A a : Contents(a)' = Contents(a)
    BY <2>1 DEF Splits, SplitAt, Dst, Wanted, PrefixStart, NewLen, NewItem, Contents
  <2>4. Placed' = Placed
    BY <2>1, <2>3 DEF Placed
  <2>5. Settled' = Settled /\ Todo' = Todo
    BY <2>1, <2>3, <2>4 DEF Settled, Todo
  <2>6. \A k : Correct(k)' = Correct(k)
    BY <2>1, <2>2, <2>3 DEF Correct, At
  <2>7. Loads => Loads'
    BY <2>1, <2>4, <2>5, <2>6 DEF Loads, ArgumentFits, Copied
  <2>8. LoopsMatchNodeOps => LoopsMatchNodeOps'
    BY <2>1, <2>3 DEF LoopsMatchNodeOps
  <2>9. ArgumentIntact => ArgumentIntact'
    BY <2>1, Unspoiled
  <2> QED BY <2>1, <2>7, <2>8, <2>9 DEF ValuesInv, Typed, Running
<1> QED
  BY <1>1, BeginValues, ShiftValues, CloneValues, EmplaceValues, PrefixValues, TrimValues,
     CloseValues, FinishValues, OutsideValues
  DEF Next

\* It holds in every reachable state.
LEMMA ValuesHold == Spec => []ValuesInv
  BY SlotsHold, ValuesStart, ValuesKept, PTL DEF Spec

\* The loops of insert_index, assign2 and erase compute what NodeOps says, in place
\* and in new leaves, for all capacities, contents and indexes.
THEOREM LoopsMatch == Spec => []LoopsMatchNodeOps
<1>1. ValuesInv => LoopsMatchNodeOps
  BY DEF ValuesInv
<1> QED BY <1>1, ValuesHold, PTL

\* An argument that refers into the leaf is spoiled in no case but the two that
\* ArgumentIntact names.
THEOREM ArgumentsIntact == Spec => []ArgumentIntact
<1>1. ValuesInv => ArgumentIntact
  BY DEF ValuesInv
<1> QED BY <1>1, ValuesHold, PTL
=============================================================================
