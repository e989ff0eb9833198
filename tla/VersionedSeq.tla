---------------------------- MODULE VersionedSeq ----------------------------
(***************************************************************************)
(* What the tree promises the callers of its operations: a Transient is    *)
(* changed by its thread, one operation at a time, at the place it was     *)
(* asked to change, and a Persistent never changes.                        *)
(*                                                                         *)
(* A thread's operation has two moments: the position it acts on becomes   *)
(* fixed (asked), and the sequence changes (Apply).  insert and erase then *)
(* return the position of the new value, and of the successor of the       *)
(* erased one: the iterator they were called with stays valid.             *)
(***************************************************************************)
EXTENDS SeqObjects

CONSTANTS Operations, MaxSize

NoWork  == [op |-> "none"]
NoPlace == -1

VARIABLES asked,     \* the operation a thread is performing, once it is located
          place      \* the position of the iterator an operation returned

At(s, k) == SubSeq(s, 1, k)
From(s, k) == SubSeq(s, k + 1, Len(s))

\* The sequence after operation w.
After(s, w) ==
    CASE w.op = "insert" -> At(s, w.pos) \o <<w.val>> \o From(s, w.pos)
      [] w.op \in {"assign", "update"} ->
           At(s, w.pos) \o <<w.val>> \o From(s, w.pos + 1)
      [] w.op \in {"erase", "pop_back"} -> At(s, w.pos) \o From(s, w.pos + 1)

Positions(name, s) ==
    CASE name = "insert" -> 0 .. Len(s)
      [] name \in {"assign", "update", "erase"} -> 0 .. Len(s) - 1
      [] name = "pop_back" -> {Len(s) - 1} \cap Nat

Init ==
    /\ NoObjects
    /\ asked = [t \in Transients |-> NoWork]
    /\ place = [t \in Transients |-> NoPlace]

Locate(t) ==
    /\ asked[t] = NoWork /\ making[t] = NoTree
    /\ contents[t] # NoTree
    /\ \E name \in Operations, v \in Values :
         \E k \in Positions(name, contents[t].seq) :
            asked' = [asked EXCEPT ![t] = [op |-> name, pos |-> k, val |-> v]]
    /\ UNCHANGED <<objects, place>>

Apply(t) ==
    /\ asked[t] # NoWork
    /\ contents' = [contents EXCEPT ![t] = Tree(After(@.seq, asked[t]))]
    /\ asked' = [asked EXCEPT ![t] = NoWork]
    /\ place' = [place EXCEPT ![t] =
                  IF asked[t].op \in {"insert", "erase"} THEN asked[t].pos ELSE NoPlace]
    /\ UNCHANGED making

\* The caller has taken the iterator.
Return(t) ==
    /\ place' = [place EXCEPT ![t] = NoPlace]
    /\ UNCHANGED <<objects, asked>>

OnObjects ==
    /\ \/ \E t \in Transients : asked[t] = NoWork /\ Call(t)
       \/ \E t \in Transients : FinishPersistent(t)
       \/ CopyPersistent
       \/ \E p \in Persistents : Destroy(p)
    /\ UNCHANGED <<asked, place>>

Next ==
    \/ \E t \in Transients : Locate(t) \/ Apply(t) \/ Return(t)
    \/ OnObjects

Spec == Init /\ [][Next]_<<objects, asked, place>>
=============================================================================
