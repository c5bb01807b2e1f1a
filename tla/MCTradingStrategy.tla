--------------------------- MODULE MCTradingStrategy ---------------------------
(* TLC instances of TradingStrategy. *)
EXTENDS TradingStrategy, TLC

Prices == {1, 2}
NotionalsOfAnySign == {2, -1}
Symmetry == Permutations(Symbol)
=============================================================================
