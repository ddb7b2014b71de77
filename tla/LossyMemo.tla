------------------------------ MODULE LossyMemo ------------------------------
(***************************************************************************)
(* What a cache of filter results is to its user: a memo of the results    *)
(* that were put into it, which may have forgotten one but never answers   *)
(* with another.  Room is limited: remembering a result may cost one other *)
(* when the memo is full, and none when it is not (cache.h).               *)
(***************************************************************************)
EXTENDS FiniteSets, Naturals

CONSTANTS
    Keys,       \* what results are kept for: filter bits and a handle
    Results,    \* what is kept
    DEPTH,      \* the results there is room for
    NULL

VARIABLE memo

Known == {k \in Keys : memo[k] # NULL}

Init == memo = [k \in Keys |-> NULL]

\* A result is remembered for a key that has none.
Remember(k, r) ==
    /\ memo[k] = NULL
    /\ Cardinality(Known) < DEPTH
    /\ memo' = [memo EXCEPT ![k] = r]

\* The same with no room left: another key is forgotten.
Replace(k, lost, r) ==
    /\ memo[k] = NULL
    /\ lost \in Known
    /\ Cardinality(Known) = DEPTH
    /\ memo' = [memo EXCEPT ![k] = r, ![lost] = NULL]

Forget == memo' = [k \in Keys |-> NULL]

Next ==
    \/ \E k \in Keys, r \in Results : Remember(k, r)
    \/ \E k \in Keys, lost \in Keys, r \in Results : Replace(k, lost, r)
    \/ Forget

Spec == Init /\ [][Next]_memo
=============================================================================
