----------------------------- MODULE SortedList -----------------------------
(***************************************************************************)
(* What SortedTroves promises to TroveManager and BorrowerOperations: one  *)
(* sequence of distinct trove owners, largest nominal collateral ratio     *)
(* first.  An owner enters between two neighbours whose current ratios     *)
(* enclose its own, an owner leaves, and no operation reorders the rest.   *)
(* The ratios belong to TroveManager: they may change between two steps.   *)
(***************************************************************************)
EXTENDS Naturals, SequencesExt

CONSTANT Ids            \* trove owners

VARIABLES order,        \* the owners, from head to tail
          nicr          \* current nominal ICR of each owner

\* Owner `id` may stand at position i: its ratio lies between the
\* neighbours' ratios, whatever the rest of the list looks like.
Fits(id, i) ==
    /\ i > 1 => nicr[order[i - 1]] >= nicr[id]
    /\ i <= Len(order) => nicr[id] >= nicr[order[i]]

Insert(id) ==
    /\ id \notin ToSet(order)
    /\ \E i \in 1..(Len(order) + 1) :
         /\ Fits(id, i)
         /\ order' = InsertAt(order, i, id)

Delete(i) == order' = RemoveAt(order, i)

Init == order = << >>

Next == \/ \E id \in Ids : Insert(id)
        \/ \E i \in DOMAIN order : Delete(i)

\* The ratios are free to change whenever the order does not.
Spec == Init /\ [][Next]_order
=============================================================================
