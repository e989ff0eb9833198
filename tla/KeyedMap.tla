------------------------------ MODULE KeyedMap ------------------------------
(***************************************************************************)
(* What a Transient of an Ordered tree promises whoever calls it: a set of *)
(* elements no two of which have the same key.  A call is made, and at one *)
(* moment before it returns it does what its name says.                    *)
(***************************************************************************)
EXTENDS Naturals

CONSTANTS Transients, Values, Operations, KeyOf(_), Updater(_)

VARIABLES elements,  \* what each of them holds
          call       \* the call each of them is in

Idle == [op |-> "none", val |-> 0]

WithKey(s, k) == {v \in s : KeyOf(v) = k}

\* The elements after call c.
Result(s, c) ==
    LET same == WithKey(s, KeyOf(c.val)) IN
    CASE c.op = "insert_v" -> IF same = {} THEN s \cup {c.val} ELSE s
      [] c.op \in {"insert_or_assign", "assign"} -> (s \ same) \cup {c.val}
      [] c.op = "erase" -> s \ same
      [] c.op = "update" -> (s \ same) \cup {Updater(v) : v \in same}
      [] c.op = "pop_back" ->
           {v \in s : \E w \in s : KeyOf(w) > KeyOf(v)}

\* assign_v, update_key and erase_key are for keys that are there.
Allowed(s, c) ==
    /\ c.op \in {"assign", "erase", "update"} => WithKey(s, KeyOf(c.val)) # {}
    /\ c.op = "pop_back" => s # {}

Init ==
    /\ elements = [t \in Transients |-> {}]
    /\ call = [t \in Transients |-> Idle]

Ask(t) ==
    /\ call[t] = Idle
    /\ \E name \in Operations, v \in Values :
         /\ Allowed(elements[t], [op |-> name, val |-> v])
         /\ call' = [call EXCEPT ![t] = [op |-> name, val |-> v]]
    /\ UNCHANGED elements

Answer(t) ==
    /\ call[t] # Idle
    /\ elements' = [elements EXCEPT ![t] = Result(@, call[t])]
    /\ call' = [call EXCEPT ![t] = Idle]

Clear(t) ==
    /\ call[t] = Idle
    /\ elements' = [elements EXCEPT ![t] = {}]
    /\ UNCHANGED call

Next == \E t \in Transients : Ask(t) \/ Answer(t) \/ Clear(t)

Spec == Init /\ [][Next]_<<elements, call>>
=============================================================================
