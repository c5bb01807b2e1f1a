------------------------ MODULE MCOrderMatchingEngine ------------------------
(* TLC instance of OrderMatchingEngine.  A negative quantity is one that a
   client sent to POST /api/order, which checks none. *)
EXTENDS OrderMatchingEngine, TLC

Prices == 1..2
QuantitiesOfAnySign == {-1, 1, 2}

\* Producers are interchangeable, and so are symbols.
Symmetry == Permutations(Producer) \cup Permutations(Symbol)
=============================================================================
