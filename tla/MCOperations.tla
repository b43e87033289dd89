---------------------------- MODULE MCOperations ----------------------------
(* One pynth, three markets, three bridges on each layer or three rewards contracts. *)
EXTENDS Operations
=============================================================================
