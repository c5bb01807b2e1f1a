------------------------------ MODULE MCPipeline ------------------------------
(* TLC instance of Pipeline.  On the second tick the RSI turns valid at 50: with
   an oversold level above that the strategy places an order then. *)
EXTENDS Pipeline

OneSymbol == <<"AAPL">>
=============================================================================
