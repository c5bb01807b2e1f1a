---------------------------- MODULE MCPortfolioView ----------------------------
(* TLC instance of Settlement with its reader.  A negative price is one that a
   client sent to POST /api/order, which checks none. *)
EXTENDS PortfolioView

PricesOfAnySign == {-1, 2}
=============================================================================
