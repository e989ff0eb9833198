----------------------------- MODULE AtomicSeq -----------------------------
(***************************************************************************)
(* Operations that take effect at one moment: a thread calls one, and at   *)
(* some step before it returns the sequence of its Transient, and nothing  *)
(* else, is as the operation leaves it.  Which position it acts on is left *)
(* open here, and so is the iterator it returns: see VersionedSeq.         *)
(***************************************************************************)
EXTENDS SeqObjects

CONSTANT Operations

VARIABLE calling     \* the operation a thread has called, until it takes effect

\* The sequences s may become when a value comes, is replaced, or goes.
Inserted(s) ==
    UNION {{SubSeq(s, 1, k) \o <<v>> \o SubSeq(s, k + 1, Len(s)) : v \in Values}
             : k \in 0 .. Len(s)}
Replaced(s) ==
    UNION {{SubSeq(s, 1, k - 1) \o <<v>> \o SubSeq(s, k + 1, Len(s)) : v \in Values}
             : k \in 1 .. Len(s)}
Erased(s, K) == {SubSeq(s, 1, k - 1) \o SubSeq(s, k + 1, Len(s)) : k \in K}

\* The sequences an operation may leave: an updater need not call back, and keyed
\* operations depend on whether the key is there.
Outcomes(name, s) ==
    CASE name = "insert"           -> Inserted(s)
      [] name = "assign"           -> Replaced(s)
      [] name = "update"           -> Replaced(s) \cup {s}
      [] name = "insert_v"         -> Inserted(s) \cup {s}
      [] name = "insert_or_assign" -> Inserted(s) \cup Replaced(s)
      [] name = "erase"            -> Erased(s, 1 .. Len(s))
      [] name = "pop_back"         -> Erased(s, {Len(s)} \ {0})

Init == NoObjects /\ calling = [t \in Transients |-> "none"]

Begin(t) ==
    /\ calling[t] = "none" /\ making[t] = NoTree
    /\ contents[t] # NoTree
    /\ \E name \in Operations : calling' = [calling EXCEPT ![t] = name]
    /\ UNCHANGED objects

TakeEffect(t) ==
    /\ calling[t] # "none"
    /\ \E s \in Outcomes(calling[t], contents[t].seq) :
         contents' = [contents EXCEPT ![t] = Tree(s)]
    /\ calling' = [calling EXCEPT ![t] = "none"]
    /\ UNCHANGED making

OnObjects ==
    /\ \/ \E t \in Transients : calling[t] = "none" /\ Call(t)
       \/ \E t \in Transients : FinishPersistent(t)
       \/ CopyPersistent
       \/ \E p \in Persistents : Destroy(p)
    /\ UNCHANGED calling

Next ==
    \/ \E t \in Transients : Begin(t) \/ TakeEffect(t)
    \/ OnObjects

Spec == Init /\ [][Next]_<<objects, calling>>
=============================================================================
