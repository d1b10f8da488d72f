------------------------- MODULE HeaderMapAbstract -------------------------
(***************************************************************************)
(* What the header map of a message promises (spec 3, Message: "ordered,  *)
(* case-insensitive lookup"; the doc comments of Headers in               *)
(* src/src/message/header/mod.rs): a map from case-folded names to values *)
(* that remembers the order in which names were first set.  Setting a     *)
(* name again replaces its value in place; removing it forgets it.  A     *)
(* typed lookup returns the value when the header's parser accepts it.    *)
(***************************************************************************)
EXTENDS Sequences, SequencesExt

CONSTANTS Keys, Values, Parses, None

VARIABLES
    order,  \* the names present, in the order they were first set
    dict,   \* dict[k]: the value under name k, None when absent
    ret     \* what the last call returned (None for nothing)

vars == <<order, dict, ret>>

Init == order = <<>> /\ dict = [k \in Keys |-> None] /\ ret = None

Put(k, v) ==
    /\ dict' = [dict EXCEPT ![k] = v]
    /\ order' = IF dict[k] = None THEN Append(order, k) ELSE order
    /\ ret' = None

\* A lookup; typed ones see only values their parser accepts.
Lookup(k, typed) ==
    /\ ret' = IF typed /\ dict[k] \notin Parses THEN None ELSE dict[k]
    /\ UNCHANGED <<order, dict>>

Delete(k, typed) ==
    /\ dict' = [dict EXCEPT ![k] = None]
    /\ order' = SelectSeq(order, LAMBDA x : x # k)
    /\ ret' = IF typed /\ dict[k] \notin Parses THEN None ELSE dict[k]

Clear ==
    /\ order' = <<>> /\ dict' = [k \in Keys |-> None] /\ ret' = None

Next ==
    \/ \E k \in Keys, v \in Values : Put(k, v)
    \/ \E k \in Keys, typed \in BOOLEAN : Lookup(k, typed) \/ Delete(k, typed)
    \/ Clear

Spec == Init /\ [][Next]_vars

=============================================================================
