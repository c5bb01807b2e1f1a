--------------------------- MODULE MCIndicatorEngine ---------------------------
(* TLC instances of IndicatorEngine. *)
EXTENDS IndicatorEngine

Prices == 1..3
RisingPrices == 1..5
=============================================================================
