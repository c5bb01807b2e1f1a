-------------------------- MODULE MCThreadSafeQueue --------------------------
(* TLC instance of ThreadSafeQueue: two producers, two consumers, one closer. *)
EXTENDS ThreadSafeQueue
=============================================================================
