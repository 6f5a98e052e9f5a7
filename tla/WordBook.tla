------------------------------- MODULE WordBook -------------------------------
(***************************************************************************)
(* What the directory promises: a word means nothing until it is given to  *)
(* an address, and from then on it means that address.                     *)
(***************************************************************************)

CONSTANTS
    Words,
    Addresses,
    Unassigned  \* what a word means that has been given to nobody

VARIABLE meaning

Init == meaning = [w \in Words |-> Unassigned]

Assign(w, a) ==
    /\ meaning[w] = Unassigned
    /\ meaning' = [meaning EXCEPT ![w] = a]

Next == \E w \in Words, a \in Addresses : Assign(w, a)

Spec == Init /\ [][Next]_meaning
=============================================================================
