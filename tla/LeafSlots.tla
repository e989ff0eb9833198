------------------------------ MODULE LeafSlots -----------------------------
(***************************************************************************)
(* The memory of a leaf: an UninitializedArray, whose slots the leaf's     *)
(* loops construct, assign, move from and destroy one at a time.           *)
(*                                                                         *)
(* A slot of the array is raw until a value is constructed in it.  Nothing *)
(* in the array says which slots are: set and emplace tell by an index and *)
(* a length their caller passes.  A persistent leaf is copied to new ones, *)
(* whose length is 0 until the loops are done; any other is shifted in     *)
(* place.  CowTree does all of this in one step, with the operators of     *)
(* NodeOps; here is why it may.                                            *)
(*                                                                         *)
(* The value type is one with constructors and a destructor.  Copying a    *)
(* value may throw, moving one does not; in emplace, which is noexcept, an *)
(* exception ends the program.                                             *)
(***************************************************************************)
EXTENDS NodeOps

CONSTANTS Values,   \* the values a slot can hold
          Calls     \* the calls this instance makes on the leaf

\* A slot holds a value, is raw memory, or holds what a move left behind.
Raw   == "raw"
Moved == "moved"

ASSUME SlotsAssumption ==
    /\ Calls \subseteq {"insert", "assign", "erase", "pop_back"}
    /\ Raw \notin Values

Index == 0 .. LeafSize - 1
Leaf  == {"self", "left", "right"}   \* the leaf, and the new ones of a call

Blank == [k \in Index |-> Raw]

VARIABLES slots,       \* UninitializedArray::un.data
          length,      \* NodeBase::length
          persistent,  \* NodeBase::persistent of "self"; the new ones are not
          call,        \* the call that runs
          phase,       \* the loop or the statement it is in
          i,           \* the loop's variable
          \* History.
          before,      \* the values of the leaf when the call began
          misuse,      \* what was done to a slot that its state forbids
          argument,    \* how the call's argument was found when it was read
          stranded     \* slots of "self" with a value its length excludes

callVars == <<call, phase, i>>
history  == <<before, misuse, argument, stranded>>
vars     == <<slots, length, persistent, callVars, history>>

NoCall == [name |-> "none"]

Contents(a) == [k \in 1 .. length[a] |-> slots[a][k - 1]]
Alive(a, k) == slots[a][k] # Raw

\* The values lost in leaf a: only "self" comes from an earlier call.
Stranded(a) == IF a = "self" THEN stranded ELSE {}

\* The leaf the loops fill: insert_index and erase call them with a new leaf, or
\* with this one.
Dst == IF persistent THEN "left" ELSE "self"

-----------------------------------------------------------------------------
(* UninitializedArray *)

\* set and emplace take what lies below the length they are passed for a value,
\* to be assigned or destroyed, and the rest for raw memory to construct in.
Put(a, k) ==
    IF k < length[a] THEN IF Alive(a, k) THEN {} ELSE {"no value to replace"}
    ELSE IF Alive(a, k) /\ k \notin Stranded(a) THEN {"value overwritten"} ELSE {}

Read(a, k) == IF Alive(a, k) THEN {} ELSE {"no value to read"}

\* Mutant: the value is moved out of a persistent leaf too.
LeavesBehindAlways(j) == Moved

\* What taking value j leaves behind: a persistent leaf is copied from.
LeavesBehind(j) == IF persistent THEN slots["self"][j] ELSE Moved

\* a.values.set(k, a.length, values[j]), or values.move(j).
Transfers(j, a, k) ==
    /\ slots' = [slots EXCEPT !["self"][j] = LeavesBehind(j),
                              ![a][k] = slots["self"][j]]
    /\ misuse' = misuse \cup Read("self", j) \cup Put(a, k)

Destructs(a, k) ==
    /\ slots' = [slots EXCEPT ![a][k] = Raw]
    /\ misuse' = misuse \cup IF Alive(a, k) THEN {} ELSE {"no value to destroy"}

-----------------------------------------------------------------------------
(* A call *)

Splits == call.name = "insert" /\ length["self"] = LeafSize
SplitAt == LeafSplitPoint(call.index, call.rightMost)

\* Where value k of the new contents goes: set_element, or the one leaf.
HomeOf(k) == IF Splits /\ k >= SplitAt THEN <<"right", k - SplitAt>> ELSE <<Dst, k>>

TransfersHome(j, k) == Transfers(j, HomeOf(k)[1], HomeOf(k)[2])

\* Mutant: the persistent leaf's values left of the index are not copied.
PrefixStartLate(c) == IF Splits THEN SplitAt ELSE c.index

\* Where the loop over the values left of the index starts.  The ones that stay
\* where they are need no loop.
PrefixStart(c) == IF persistent THEN 0 ELSE IF Splits THEN SplitAt ELSE c.index

\* find_last gives pop_back the index after the last value.
IndexesFor(name) ==
    CASE name = "insert" -> 0 .. length["self"]
      [] name = "pop_back" -> {length["self"]}
      [] OTHER -> 0 .. length["self"] - 1

\* The value to be stored is the caller's own, or element k of this leaf, which
\* the caller's argument refers to.
Arguments == Values \cup (0 .. length["self"] - 1)

Requests ==
    UNION {[name : {name}, index : IndexesFor(name), rightMost : BOOLEAN,
            arg : IF name \in {"insert", "assign"} THEN Arguments ELSE {0},
            several : IF name \in {"insert", "assign"} THEN BOOLEAN ELSE {FALSE}]
           : name \in Calls}

\* The only value of a leaf is not erased: the leaf goes.
Begin(c) ==
    /\ phase = "idle"
    /\ c.name \in {"erase", "pop_back"} => length["self"] > 1
    /\ call' = c
    /\ before' = Contents("self")
    /\ \/ /\ c.name = "insert"
          /\ phase' = "shift" /\ i' = length["self"]
       \/ /\ c.name = "assign"
          /\ phase' = IF persistent THEN "clone" ELSE "emplace"
          /\ i' = 0
       \/ /\ c.name \in {"erase", "pop_back"}
          /\ phase' = "prefix"
          /\ i' = IF persistent THEN 0 ELSE c.index
    /\ argument' = "unread"
    /\ UNCHANGED <<slots, length, persistent, misuse, stranded>>

Continues(next, start) ==
    /\ phase' = next
    /\ i' = start
    /\ UNCHANGED <<slots, misuse>>

\* Mutant: the values are taken from the left.
ShiftOrderUp(k) == call.index + length["self"] - k + 1

\* The values right of the index, from the last one.
ShiftOrder(k) == k

\* One place to the right for everything at or after the index.
Shift ==
    /\ phase = "shift"
    /\ IF i > call.index
         THEN /\ TransfersHome(ShiftOrder(i) - 1, ShiftOrder(i))
              /\ i' = i - 1 /\ UNCHANGED phase
         ELSE Continues("emplace", 0)
    /\ UNCHANGED <<length, persistent, call, before, argument, stranded>>

\* The copy constructor of the leaf: all its values, then its length.
Clone ==
    /\ phase = "clone"
    /\ IF i < length["self"]
         THEN /\ Transfers(i, "left", i)
              /\ i' = i + 1 /\ UNCHANGED <<phase, length>>
         ELSE /\ Continues("emplace", 0)
              /\ length' = [length EXCEPT !["left"] = length["self"]]
    /\ UNCHANGED <<persistent, call, before, argument, stranded>>

\* What the caller means to store.
Wanted == IF call.arg \in Values THEN call.arg ELSE before[call.arg + 1]

\* What the constructor or the assignment of a value reads: several arguments
\* are read after the old value of slot k was destroyed.
ArgumentAt(a, k) ==
    IF call.arg \in Values THEN call.arg
    ELSE IF call.several /\ k < length[a] /\ <<a, k>> = <<"self", call.arg>>
      THEN Raw
    ELSE slots["self"][call.arg]

\* emplace, and emplace_unchecked in an assignment to a leaf in place.
Emplace ==
    LET a == HomeOf(call.index)[1]
        k == HomeOf(call.index)[2]
        v == ArgumentAt(a, k)
    IN  /\ phase = "emplace"
        /\ slots' = [slots EXCEPT ![a][k] = IF v = Raw THEN Moved ELSE v]
        /\ misuse' = misuse \cup Put(a, k)
        /\ argument' = IF v = Wanted THEN "intact" ELSE "spoiled"
        /\ phase' = IF call.name = "insert" THEN "prefix" ELSE "finish"
        /\ i' = IF call.name = "insert" THEN PrefixStart(call) ELSE 0
        /\ UNCHANGED <<length, persistent, call, before, stranded>>

\* The values left of the index that are not where they belong.
Prefix ==
    /\ phase = "prefix"
    /\ IF i < call.index
         THEN TransfersHome(i, i) /\ i' = i + 1 /\ UNCHANGED phase
         ELSE IF call.name = "insert"
           THEN Continues(IF Splits THEN "trim" ELSE "finish", IF Splits THEN SplitAt ELSE 0)
           ELSE Continues("close", call.index + 1)
    /\ UNCHANGED <<length, persistent, call, before, argument, stranded>>

\* Mutant: the last one of them is left out.
TrimEndShort == length[Dst] - 1

TrimEnd == length[Dst]

\* The places of a split leaf that its right half has taken.
Trim ==
    /\ phase = "trim"
    /\ IF i < TrimEnd
         THEN Destructs(Dst, i) /\ i' = i + 1 /\ UNCHANGED phase
         ELSE Continues("finish", 0)
    /\ UNCHANGED <<length, persistent, call, before, argument, stranded>>

\* Mutant: the last value of a new leaf is destroyed too.
ClosesGapAlways == TRUE

\* node.length == this->length, for a new node and for this one.
ClosesGap == length[Dst] = length["self"]

\* erase: one place to the left for everything after the index, and the last
\* value is destroyed if the leaf is changed in place.
Close ==
    /\ phase = "close"
    /\ IF i < length["self"]
         THEN Transfers(i, Dst, i - 1) /\ i' = i + 1 /\ UNCHANGED phase
         ELSE /\ phase' = "finish" /\ i' = 0
              /\ IF ClosesGap THEN Destructs(Dst, length["self"] - 1)
                               ELSE UNCHANGED <<slots, misuse>>
    /\ UNCHANGED <<length, persistent, call, before, argument, stranded>>

\* The copy of a value throws: the new leaves go as they came, with length 0, and
\* what has been copied to them is destroyed by nobody.
Throw ==
    /\ persistent
    /\ \/ phase = "shift" /\ i > call.index
       \/ phase = "clone" /\ i < length["self"]
       \/ phase = "prefix" /\ i < call.index
       \/ phase = "close" /\ i < length["self"]
    /\ slots' = [slots EXCEPT !["left"] = Blank, !["right"] = Blank]
    /\ call' = NoCall /\ phase' = "idle" /\ i' = 0
    /\ before' = <<>> /\ argument' = "unread"
    /\ UNCHANGED <<length, persistent, misuse, stranded>>

\* The lengths after the call.
NewLengths ==
    CASE Splits -> [length EXCEPT ![Dst] = SplitAt,
                                  !["right"] = LeafSize + 1 - SplitAt]
      [] call.name = "insert" /\ ~Splits -> [length EXCEPT ![Dst] = length["self"] + 1]
      [] call.name = "assign" -> length
      [] OTHER -> [length EXCEPT ![Dst] = length["self"] - 1]

Finish ==
    /\ phase = "finish"
    /\ length' = NewLengths
    /\ phase' = "done"
    /\ i' = 0
    /\ UNCHANGED <<slots, persistent, call, history>>

\* Where pop_back leaves a value behind: at the index after the last one, where
\* the loop before it has put a copy if the leaf is new.
StrandedBy(c) ==
    IF c.name = "pop_back" /\ persistent THEN {Len(before) - 1} ELSE {}

Results == {Dst} \cup IF call.name = "insert" /\ length["right"] > 0 THEN {"right"} ELSE {}

\* The tree has leaf a, one of the results, from now on.
Take(a) ==
    /\ phase = "done"
    /\ slots' = [b \in Leaf |-> IF b = "self" THEN slots[a] ELSE Blank]
    /\ length' = [b \in Leaf |-> IF b = "self" THEN length[a] ELSE 0]
    /\ persistent' = (persistent /\ a = "self")
    /\ stranded' = CASE a = "self" -> {k \in stranded : k >= length["self"]}
                     [] a = "left" -> StrandedBy(call)
                     [] OTHER -> {}
    /\ call' = NoCall /\ phase' = "idle" /\ i' = 0
    /\ before' = <<>> /\ argument' = "unread"
    /\ UNCHANGED misuse

MakePersistent ==
    /\ phase = "idle" /\ ~persistent
    /\ persistent' = TRUE
    /\ UNCHANGED <<slots, length, callVars, history>>

-----------------------------------------------------------------------------
(* The destructor of the leaf *)

Destroy ==
    /\ phase = "idle"
    /\ phase' = "destroy"
    /\ UNCHANGED <<slots, length, persistent, call, i, history>>

DestroySlot ==
    /\ phase = "destroy"
    /\ IF i < length["self"]
         THEN Destructs("self", i) /\ i' = i + 1 /\ UNCHANGED phase
         ELSE Continues("freed", 0)
    /\ UNCHANGED <<length, persistent, call, before, argument, stranded>>

\* The memory is given back, and a new leaf is made.
Init ==
    /\ slots = [a \in Leaf |-> Blank]
    /\ length = [a \in Leaf |-> 0]
    /\ persistent = FALSE
    /\ call = NoCall /\ phase = "idle" /\ i = 0
    /\ before = <<>> /\ misuse = {} /\ argument = "unread" /\ stranded = {}

NewLeaf ==
    /\ phase = "freed"
    /\ slots' = [a \in Leaf |-> Blank]
    /\ length' = [a \in Leaf |-> 0]
    /\ persistent' = FALSE
    /\ phase' = "idle"
    /\ stranded' = {}
    /\ UNCHANGED <<call, i, before, misuse, argument>>

Next ==
    \/ \E c \in Requests : Begin(c)
    \/ Shift \/ Clone \/ Emplace \/ Prefix \/ Trim \/ Close \/ Throw \/ Finish
    \/ \E a \in Results : Take(a)
    \/ MakePersistent
    \/ Destroy \/ DestroySlot \/ NewLeaf

Spec == Init /\ [][Next]_vars

-----------------------------------------------------------------------------
(* Properties *)

\* No loop reads, assigns or destroys a slot without a value, or constructs a
\* value over another one, but over one that pop_back has stranded.
SlotsRespected == misuse = {}

\* Between calls the length tells the values from the raw memory, in every leaf
\* a call leaves behind: all the array's users rely on that.  The exception is
\* the value pop_back leaves above the length of a copied leaf.
LengthDivides ==
    phase \in {"idle", "done"} =>
        \A a \in {"self"} \cup (IF phase = "done" THEN Results ELSE {}) :
            \A k \in Index : Alive(a, k) <=>
                \/ k < length[a]
                \/ k \in Stranded(a)
                \/ phase = "done" /\ a = "left" /\ k \in StrandedBy(call)

\* The loops do what NodeOps says, in place and in a new leaf alike.
LoopsMatchNodeOps ==
    phase = "done" /\ argument # "spoiled" =>
        CASE call.name = "insert" ->
               LET all == InsertItem(before, call.index, Wanted) IN
               IF Len(all) > LeafSize
                 THEN /\ Contents(Dst) = LeftPart(all, SplitAt)
                      /\ Contents("right") = RightPart(all, SplitAt)
                 ELSE Contents(Dst) = all
          [] call.name = "assign" ->
               Contents(Dst) = ReplaceItem(before, call.index, Wanted)
          [] OTHER -> Contents(Dst) = EraseItem(before, call.index)

\* An argument that refers to an element of the leaf is read as it was, unless
\* the leaf is changed in place and the element has been moved, or destroyed to
\* construct the new one in its slot.
ArgumentIntact ==
    argument = "spoiled" =>
        /\ ~persistent
        /\ IF call.name = "insert" THEN call.arg >= call.index
           ELSE call.several /\ call.arg = call.index

\* A leaf that may be shared is only read.
PersistentUntouched ==
    [][persistent /\ phase \notin {"destroy", "freed"} /\ persistent' =>
          slots'["self"] = slots["self"] /\ length'["self"] = length["self"]]_vars

\* The comment of UninitializedArray: the index its user tracks has all values
\* below it and none at or above it.
NoneAboveLength ==
    phase = "idle" => \A k \in Index : Alive("self", k) => k < length["self"]
=============================================================================
