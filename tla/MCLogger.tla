-------------------------------- MODULE MCLogger --------------------------------
(* TLC instance of Logger: a level below min_level_ and one that is logged. *)
EXTENDS Logger

Levels == {1, 2}
=============================================================================
